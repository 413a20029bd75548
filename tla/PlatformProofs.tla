--------------------------- MODULE PlatformProofs ---------------------------
(***************************************************************************)
(* Proofs, for every value of the constants that PlatformAssumption and    *)
(* MenuAssumption allow, about what runs around the calls - key rotation,  *)
(* reading within a user's scope, the statistics, boot, custom scripts,    *)
(* the token cache, backups and the audit log's export - and about the     *)
(* dashboard's menu: the sections of API keys, users and remote sources    *)
(* keep what their rows, forms and requests promise, and the account on    *)
(* screen is the cookie's.  Each component has its inductive invariant,    *)
(* its steps and what they lead to.                                        *)
(***************************************************************************)
EXTENDS Platform, Menu, FiniteSetTheorems, SequenceTheorems, WellFoundedInduction, TLAPS

-----------------------------------------------------------------------------
(* Rotating the encryption key.                                            *)

Writing == [pc : {"write"}, host : SUBSET Replicas, env : Envs, batch : [Rows -> Sealed],
            left : SUBSET Rows, counts : BOOLEAN]

Typed == TypeOK /\ (rotation = Idle \/ rotation \in Writing)

\* How far the procedure is: replicas are never ahead of the .env file, nor a
\* rotation of the replica it runs in, and a window is left in one direction.
Phases ==
    /\ dotenv = "old" =>
        /\ \A p \in Replicas : env[p] = "old"
        /\ \A r \in Rows : row[r].key = "old"
        /\ \A u \in late : u.sealed.key = "old"
        /\ rotation.env = "old" /\ ~rotation.counts /\ ~rotated
    /\ \A p \in Replicas : env[p] = "new" => dotenv = "new"
    /\ dotenv = "new" => rotated

\* The script has the environment of the replica it runs in, which outlives what
\* it has sent: an UPDATE that seals with the old key comes from a replica that
\* still has it.
OldIsHosted ==
    /\ rotation.pc = "write" => \E p \in rotation.host : env[p] = rotation.env
    /\ \A u \in late : u.sealed.key = "old" => \E p \in Replicas : env[p] = "old"

\* A rotation that counts has the new key, as has every replica, so that
\* neither its writes nor their saves seal anything with the old one.
NewKeyOnly ==
    /\ rotated \/ rotation.counts =>
        /\ dotenv # "old" /\ \A p \in Replicas : env[p] # "old"
        /\ rotation.pc = "write" => rotation.env # "old"
    /\ rotation.counts => \A r \in Rows \ rotation.left : row[r].key = "new"
    /\ rotated => \A r \in Rows : row[r].key = "new"
    /\ rotated \/ rotation.counts => \A u \in late : u.sealed.key = "new"

\* A row the rotation has not written yet holds what it read, or what a late
\* UPDATE will write.
ReadIsSaved ==
    /\ rotation.pc = "write" =>
        \A r \in rotation.left \ raced : rotation.batch[r].secret = saved[r]
    /\ \A u \in late : u.row \notin raced => u.sealed.secret = saved[u.row]

RotationInv == Typed /\ Phases /\ OldIsHosted /\ NewKeyOnly /\ OnlyResealed /\ ReadIsSaved

\* What a run writes is a sealed secret.
LEMMA ResealedType ==
    ASSUME rotation \in Writing, NEW r \in Rows PROVE Resealed(r) \in Sealed
BY DEF Writing, Resealed, Sealed, Keys, Primary

\* What is under way when a run fails is what it had left to write.
LEMMA FailureSends ==
    ASSUME RotationFails
    PROVE  \E sent \in SUBSET rotation.left, n \in 1..MaxLate :
             late' = late \cup {[run |-> n, row |-> r, sealed |-> Resealed(r)] : r \in sent}
<1>1. PICK sent \in SUBSET {r \in rotation.left : Readable(r)} : \E n \in 1..MaxLate :
        late' = late \cup {[run |-> n, row |-> r, sealed |-> Resealed(r)] : r \in sent}
  BY DEF RotationFails
<1>2. sent \in SUBSET rotation.left
  OBVIOUS
<1>3. QED
  BY <1>1, <1>2

\* Every variable keeps its type.
LEMMA TypedStep == Typed /\ [Next]_vars => Typed'
<1> SUFFICES ASSUME Typed, [Next]_vars PROVE Typed'
  OBVIOUS
<1> USE SavesAssumption DEF Typed, TypeOK, Writing, Idle, Sealed, Keys, Envs, Primary
<1>1. CASE UNCHANGED vars
  BY <1>1 DEF vars
<1>2. ASSUME NEW p \in Replicas, NEW r \in Rows, Save(p, r) PROVE Typed'
  <2>1. saved[r] + 1 \in 0..MaxSaves
    BY <1>2 DEF Save
  <2>2. row' \in [Rows -> Sealed] /\ saved' \in [Rows -> 0..MaxSaves]
    BY <1>2, <2>1 DEF Save
  <2>3. raced' \subseteq Rows
    BY <1>2 DEF Save
  <2>4. QED
    BY <1>2, <2>2, <2>3 DEF Save
<1>3. ASSUME NEW p \in Replicas, Restart(p) PROVE Typed'
  <2>1. env' \in [Replicas -> Envs]
    BY <1>3 DEF Restart
  <2>2. QED
    BY <1>3, <2>1 DEF Restart
<1>4. ASSUME NEW p \in Replicas, ReadRows(p) PROVE Typed'
  <2>1. env[p] \in Envs /\ AllOn("both") \in BOOLEAN
    BY DEF AllOn
  <2>2. rotation' \in Writing
    BY <1>4, <2>1 DEF ReadRows
  <2>3. QED
    BY <1>4, <2>2 DEF ReadRows
<1>5. ASSUME NEW r \in Rows, WriteRow(r) PROVE Typed'
  <2>1. rotation \in Writing
    BY <1>5 DEF WriteRow
  <2>2. rotation' \in Writing
    BY <1>5, <2>1 DEF WriteRow
  <2>3. row' \in [Rows -> Sealed]
    BY <1>5, <2>1, ResealedType DEF WriteRow
  <2>4. QED
    BY <1>5, <2>2, <2>3 DEF WriteRow
<1>6. CASE RotationFails
  <2>1. rotation \in Writing
    BY <1>6 DEF RotationFails
  <2>2. PICK sent \in SUBSET rotation.left, n \in 1..MaxLate :
          late' = late \cup {[run |-> n, row |-> r, sealed |-> Resealed(r)] : r \in sent}
    BY <1>6, FailureSends
  <2>3. \A r \in sent : [run |-> n, row |-> r, sealed |-> Resealed(r)] \in Updates
    BY <2>1, ResealedType DEF Updates
  <2>4. late' \subseteq Updates
    BY <2>2, <2>3
  <2>5. QED
    BY <1>6, <2>4 DEF RotationFails
<1>11. ASSUME NEW u \in late, LateWrite(u) PROVE Typed'
  <2>1. u.row \in Rows /\ u.sealed \in Sealed
    BY DEF Updates
  <2>2. QED
    BY <1>11, <2>1 DEF LateWrite
<1>7. CASE RotationEnds
  BY <1>7 DEF RotationEnds
<1>8. CASE OpenWindow
  BY <1>8 DEF OpenWindow
<1>9. CASE CloseWindow
  BY <1>9 DEF CloseWindow
<1>10. QED
  BY <1>1, <1>2, <1>3, <1>4, <1>5, <1>6, <1>7, <1>8, <1>9, <1>11 DEF Next

\* Every variable has its type at first.
LEMMA TypedInit == Init => Typed
<1> SUFFICES ASSUME Init PROVE Typed
  OBVIOUS
<1>1. row \in [Rows -> Sealed] /\ saved \in [Rows -> 0..MaxSaves]
  BY SavesAssumption DEF Init, Sealed, Keys
<1>2. rotation = Idle /\ rotation.left \subseteq Rows
  BY DEF Init, Idle
<1>3. QED
  BY <1>1, <1>2 DEF Init, Typed, TypeOK, Envs

\* Rotating: every variable has its type.
THEOREM RotationTypeCorrect == Spec => []TypeOK
<1>1. Typed => TypeOK
  BY DEF Typed
<1>2. QED
  BY <1>1, TypedInit, TypedStep, PTL DEF Spec

\* The procedure keeps its order, and what counts has left the old key behind:
\* a save or a write that could bring it back would need a replica or a
\* rotation that was started before the window.
LEMMA PhasesStep ==
    Typed /\ Phases /\ OldIsHosted /\ NewKeyOnly /\ [Next]_vars
        => (Phases /\ OldIsHosted /\ NewKeyOnly)'
<1> SUFFICES ASSUME Typed, Phases, OldIsHosted, NewKeyOnly, [Next]_vars
             PROVE Phases' /\ OldIsHosted' /\ NewKeyOnly'
  OBVIOUS
<1> USE DEF Typed, TypeOK, Writing, Idle, Sealed, Keys, Envs, Primary, Phases, OldIsHosted,
            NewKeyOnly, AllOn
<1>1. CASE UNCHANGED vars
  BY <1>1 DEF vars
<1>2. ASSUME NEW p \in Replicas, NEW r \in Rows, Save(p, r) PROVE Phases' /\ OldIsHosted' /\ NewKeyOnly'
  BY <1>2 DEF Save
<1>3. ASSUME NEW p \in Replicas, Restart(p) PROVE Phases' /\ OldIsHosted' /\ NewKeyOnly'
  BY <1>3 DEF Restart
<1>4. ASSUME NEW p \in Replicas, ReadRows(p) PROVE Phases' /\ OldIsHosted' /\ NewKeyOnly'
  <2>1. rotation'.host = {p} /\ rotation'.env = env[p] /\ rotation'.pc = "write"
    BY <1>4 DEF ReadRows
  <2>2. Phases'
    BY <1>4 DEF ReadRows
  <2>3. OldIsHosted'
    BY <1>4, <2>1 DEF ReadRows
  <2>4. rotation'.counts => \A q \in Replicas : env[q] = "both"
    BY <1>4 DEF ReadRows
  <2>5. rotation'.counts => dotenv # "old" /\ \A u \in late : u.sealed.key = "new"
    <3>1. \A u \in late : u.sealed.key \in {"old", "new"}
      BY DEF Updates
    <3>2. QED
      BY <2>4, <3>1
  <2>7. rotation'.left = Rows /\ UNCHANGED <<row, late, dotenv, env, rotated>>
    BY <1>4 DEF ReadRows
  <2>8. NewKeyOnly'
    BY <2>1, <2>4, <2>5, <2>7
  <2>6. QED
    BY <2>2, <2>3, <2>8
<1>5. ASSUME NEW r \in Rows, WriteRow(r) PROVE Phases' /\ OldIsHosted' /\ NewKeyOnly'
  BY <1>5 DEF WriteRow, Resealed
<1>6. CASE RotationFails
  <2>1. rotation \in Writing
    BY <1>6 DEF RotationFails
  <2>2. PICK sent \in SUBSET rotation.left, n \in 1..MaxLate :
          late' = late \cup {[run |-> n, row |-> r, sealed |-> Resealed(r)] : r \in sent}
    BY <1>6, FailureSends
  <2>3. \A u \in late' \ late : u.sealed.key = Primary(rotation.env)
    BY <2>2 DEF Resealed
  <2>4. Phases'
    BY <1>6, <2>3 DEF RotationFails
  <2>5. OldIsHosted'
    BY <1>6, <2>1, <2>3 DEF RotationFails
  <2>6. NewKeyOnly'
    BY <1>6, <2>1, <2>3 DEF RotationFails
  <2>7. QED
    BY <2>4, <2>5, <2>6
<1>7. CASE RotationEnds
  BY <1>7 DEF RotationEnds
<1>8. CASE OpenWindow
  BY <1>8 DEF OpenWindow
<1>9. CASE CloseWindow
  BY <1>9 DEF CloseWindow
<1>10. ASSUME NEW u \in late, LateWrite(u) PROVE Phases' /\ OldIsHosted' /\ NewKeyOnly'
  <2>1. u.row \in Rows /\ u.sealed \in Sealed
    BY DEF Updates
  <2>2. row' = [row EXCEPT ![u.row] = u.sealed] /\ late' \subseteq late
    BY <1>10 DEF LateWrite
  <2>3. QED
    BY <1>10, <2>1, <2>2 DEF LateWrite
<1>11. QED
  BY <1>1, <1>2, <1>3, <1>4, <1>5, <1>6, <1>7, <1>8, <1>9, <1>10 DEF Next

\* A row that no save raced with keeps its secret, whether it is read, written,
\* saved or the run fails.
LEMMA ResealedStep == Typed /\ OnlyResealed /\ ReadIsSaved /\ [Next]_vars
                        => (OnlyResealed /\ ReadIsSaved)'
<1> SUFFICES ASSUME Typed, OnlyResealed, ReadIsSaved, [Next]_vars
             PROVE OnlyResealed' /\ ReadIsSaved'
  OBVIOUS
<1> USE SavesAssumption DEF Typed, TypeOK, Writing, Idle, Sealed, OnlyResealed, ReadIsSaved
<1>1. CASE UNCHANGED vars
  BY <1>1 DEF vars
<1>2. ASSUME NEW p \in Replicas, NEW r \in Rows, Save(p, r) PROVE OnlyResealed' /\ ReadIsSaved'
  BY <1>2 DEF Save
<1>3. ASSUME NEW p \in Replicas, Restart(p) PROVE OnlyResealed' /\ ReadIsSaved'
  BY <1>3 DEF Restart
<1>4. ASSUME NEW p \in Replicas, ReadRows(p) PROVE OnlyResealed' /\ ReadIsSaved'
  BY <1>4 DEF ReadRows
<1>5. ASSUME NEW r \in Rows, WriteRow(r) PROVE OnlyResealed' /\ ReadIsSaved'
  BY <1>5 DEF WriteRow, Resealed
<1>6. CASE RotationFails
  <2>1. rotation \in Writing
    BY <1>6 DEF RotationFails
  <2>2. PICK sent \in SUBSET rotation.left, n \in 1..MaxLate :
          late' = late \cup {[run |-> n, row |-> r, sealed |-> Resealed(r)] : r \in sent}
    BY <1>6, FailureSends
  <2>3. raced' = raced \cap ({r \in Rows : row[r].secret # saved[r]} \cup {u.row : u \in late'})
    BY <1>6 DEF RotationFails
  <2>4. OnlyResealed'
    BY <1>6, <2>3 DEF RotationFails
  <2>5. ASSUME NEW u \in late', u.row \notin raced' PROVE u.sealed.secret = saved[u.row]
    <3>1. u.row \notin raced
      BY <2>3, <2>5
    <3>2. CASE u \in late
      BY <3>1, <3>2
    <3>3. CASE u \notin late
      <4>1. PICK r \in sent : u = [run |-> n, row |-> r, sealed |-> Resealed(r)]
        BY <2>2, <3>3
      <4>2. u.row = r /\ u.sealed.secret = rotation.batch[r].secret
        BY <4>1 DEF Resealed
      <4>3. rotation.pc = "write"
        BY <2>1
      <4>4. QED
        BY <3>1, <4>2, <4>3
    <3>4. QED
      BY <3>2, <3>3
  <2>6. QED
    BY <1>6, <2>4, <2>5 DEF RotationFails
<1>7. CASE RotationEnds
  BY <1>7 DEF RotationEnds
<1>8. CASE OpenWindow
  BY <1>8 DEF OpenWindow
<1>9. CASE CloseWindow
  BY <1>9 DEF CloseWindow
<1>10. ASSUME NEW u \in late, LateWrite(u) PROVE OnlyResealed' /\ ReadIsSaved'
  <2>1. u.row \in Rows /\ u.sealed \in Sealed
    BY DEF Updates
  <2>2. row' = [row EXCEPT ![u.row] = u.sealed] /\ late' \subseteq late
    BY <1>10 DEF LateWrite
  <2>3. QED
    BY <1>10, <2>1, <2>2 DEF LateWrite
<1>11. QED
  BY <1>1, <1>2, <1>3, <1>4, <1>5, <1>6, <1>7, <1>8, <1>9, <1>10 DEF Next

\* The invariant holds at first, and each step of the procedure keeps it.
LEMMA RotationInitial == Init => RotationInv
BY TypedInit DEF Init, RotationInv, Phases, OldIsHosted, NewKeyOnly, OnlyResealed, ReadIsSaved, Idle

\* A step of the rotation keeps its invariant.
LEMMA RotationInductive == RotationInv /\ [Next]_vars => RotationInv'
BY TypedStep, PhasesStep, ResealedStep DEF RotationInv

\* Every restarted replica opens every secret, whatever is saved meanwhile and
\* however often the rotation fails: with both keys in the window, and after it
\* because a rotation that counted left no row sealed with the old key.
LEMMA OpensAll == RotationInv => EverySecretOpens
<1> SUFFICES ASSUME RotationInv, NEW p \in Replicas, NEW r \in Rows,
                    env[p] # "old" \/ dotenv = "old"
             PROVE row[r].key \in Opens(env[p])
  BY DEF EverySecretOpens
<1> USE DEF RotationInv, Typed, TypeOK, Sealed, Keys, Envs, Phases, NewKeyOnly, Opens, Primary
<1>1. CASE env[p] = "old"
  OBVIOUS
<1>2. CASE env[p] = "both"
  BY <1>2
<1>3. CASE env[p] = "new"
  BY <1>3
<1>4. QED
  BY <1>1, <1>2, <1>3

\* The property follows from the invariant.
LEMMA RotationKeeps == RotationInv => RotationKeepsSecrets
BY OpensAll DEF RotationInv, RotationKeepsSecrets

\* What the operator of SECRETS_ROTATION.md relies on, for any number of
\* secrets and replicas.
THEOREM SecretsKept == Spec => []RotationKeepsSecrets
BY RotationInitial, RotationInductive, RotationKeeps, PTL DEF Spec

-----------------------------------------------------------------------------
(* Reading within a user's scope.                                          *)

\* Scoped changes a request's groups and platforms, nothing else.
LEMMA ScopedFields ==
    ASSUME ReadsAssumption, NEW user, NEW f \in Requests
    PROVE  /\ Scoped(user, f).groups = ScopeList(user.groups, f.groups)
           /\ Scoped(user, f).platforms = ScopeList(user.platforms, f.platforms)
           /\ Scoped(user, f).from = f.from /\ Scoped(user, f).to = f.to
           /\ Scoped(user, f).media = f.media /\ Scoped(user, f).excluded = f.excluded
<1>1. {"from", "to", "groups", "platforms", "media", "excluded"} \subseteq DOMAIN f
  BY DEF ReadsAssumption
<1>2. QED
  BY <1>1 DEF Scoped

\* What is left of a request's groups is allowed and was asked for ...
LEMMA GroupsNarrow ==
    ASSUME ReadsAssumption, NEW user \in Users, NEW f \in Requests, NEW c,
           InGroups(c, ScopeList(user.groups, f.groups))
    PROVE  InGroups(c, user.groups)
<1>1. user.groups # NoFilter /\ f.groups # NoFilter => f.groups \cap user.groups # NoFilter
  BY DEF ReadsAssumption
<1>2. QED
  BY <1>1 DEF InGroups, ScopeList

\* ... and so are its platforms.
LEMMA PlatformsNarrow ==
    ASSUME ReadsAssumption, NEW user \in Users, NEW f \in Requests, NEW c,
           OnPlatform(c, ScopeList(user.platforms, f.platforms))
    PROVE  OnPlatform(c, user.platforms)
<1>1. user.platforms # NoFilter /\ f.platforms # NoFilter => f.platforms \cap user.platforms # NoFilter
  BY DEF ReadsAssumption
<1>2. QED
  BY <1>1 DEF OnPlatform, ScopeList

\* Whatever is asked for, only what the user may see is selected.
LEMMA SelectedIsVisible ==
    ASSUME ReadsAssumption, NEW user \in Users, NEW f \in Requests,
           NEW c \in Select(store, Scoped(user, f))
    PROVE  /\ Visible(c, user)
           /\ Matches(c, [f EXCEPT !.groups = NoFilter, !.platforms = NoFilter])
<1> DEFINE scoped == Scoped(user, f)
           bare == [f EXCEPT !.groups = NoFilter, !.platforms = NoFilter]
<1>1. Matches(c, scoped)
  BY DEF Select
<1>2. Visible(c, user)
  BY <1>1, ScopedFields, GroupsNarrow, PlatformsNarrow DEF Matches, Visible
<1>3. /\ bare.groups = NoFilter /\ bare.platforms = NoFilter /\ bare.from = f.from
      /\ bare.to = f.to /\ bare.media = f.media /\ bare.excluded = f.excluded
  <2>1. {"from", "to", "groups", "platforms", "media", "excluded"} \subseteq DOMAIN f
    BY DEF ReadsAssumption
  <2>2. QED
    BY <2>1
<1>4. Matches(c, bare)
  BY <1>1, <1>3, ScopedFields DEF Matches, InWindow, InGroups, OnPlatform
<1>5. QED
  BY <1>2, <1>4

\* Who asks for no group and no platform gets what GET /calls/:id would show.
LEMMA NothingIsMissing ==
    ASSUME ReadsAssumption, NEW user \in Users, NEW f \in Requests,
           f.groups = NoFilter, f.platforms = NoFilter, NEW c \in Select(store, f)
    PROVE  c \in Select(store, Scoped(user, f)) <=> c \in Get(store, user, c.id)
<1>1. /\ Scoped(user, f).groups = user.groups /\ Scoped(user, f).platforms = user.platforms
  BY ScopedFields, ZenonT(30) DEF ScopeList
<1>2. Matches(c, Scoped(user, f))
        <=> InGroups(c, user.groups) /\ OnPlatform(c, user.platforms)
  BY <1>1, ScopedFields DEF Select, Matches, InWindow
<1>3. QED
  BY <1>2 DEF Select, Get

\* Both halves together, for any store.
LEMMA ScopeIsKept == ReadsAssumption => ScopeNeverWidens
BY SelectedIsVisible, NothingIsMissing DEF ScopeNeverWidens

\* Every list, statistic and summary is drawn from Select(store, Scoped(...)):
\* none shows a call outside of its user's scope, whatever the request names,
\* and one that names nothing leaves out nothing the user may see.
THEOREM ScopeHolds == ASSUME ReadsAssumption PROVE ReadsSpec => []ScopeNeverWidens
BY ScopeIsKept, PTL

-----------------------------------------------------------------------------
(* Sums over finite sets.                                                  *)

\* A set of naturals has a least element.
LEMMA Least == ASSUME NEW X \in SUBSET Nat, X # {} PROVE \E x \in X : \A y \in X : x <= y
<1> DEFINE Less == {p \in Nat \X Nat : p[1] < p[2]}
<1>1. IsWellFoundedOn(Less, Nat)
  BY NatLessThanWellFounded DEF OpToRel
<1> HIDE DEF Less
<1>2. PICK m \in X : \A k \in X : ~(<<k, m>> \in Less)
  BY <1>1, WFMin
<1>3. \A k \in X : ~(k < m)
  BY <1>2 DEF Less
<1>4. QED
  BY <1>3

\* The fold that sums v, for every subset of X.
SumUpTo(g, v, X) ==
    [s \in SUBSET X |->
        IF s = {} THEN 0
        ELSE v[CHOOSE x \in s : TRUE] + g[s \ {CHOOSE x \in s : TRUE}]]

\* A non-empty finite set is one element and a smaller set.
LEMMA OneLess ==
    ASSUME NEW s, IsFiniteSet(s), s # {}
    PROVE  LET x == CHOOSE x \in s : TRUE
           IN /\ x \in s /\ IsFiniteSet(s \ {x})
              /\ Cardinality(s) \in Nat \ {0} /\ Cardinality(s \ {x}) \in Nat
              /\ Cardinality(s) = Cardinality(s \ {x}) + 1
<1> DEFINE x == CHOOSE x \in s : TRUE
<1>1. x \in s
  OBVIOUS
<1> HIDE DEF x
<1>2. /\ IsFiniteSet(s \ {x}) /\ Cardinality(s \ {x}) = Cardinality(s) - 1
      /\ Cardinality(s) \in Nat
  BY <1>1, FS_RemoveElement, FS_CardinalityType
<1>3. Cardinality(s \ {x}) \in Nat
  BY <1>2, FS_CardinalityType
<1>4. QED
  BY <1>1, <1>2, <1>3 DEF x

\* There is such a fold.
LEMMA SumExists == ASSUME NEW X, IsFiniteSet(X), NEW v PROVE \E g : g = SumUpTo(g, v, X)
<1> DEFINE One(s) == CHOOSE x \in s : TRUE
           Sums(g, n) ==
             \A s \in SUBSET X :
                Cardinality(s) <= n => g[s] = IF s = {} THEN 0 ELSE v[One(s)] + g[s \ {One(s)}]
           Not == {n \in Nat : ~\E g : Sums(g, n)}
<1>1. \A s \in SUBSET X : /\ IsFiniteSet(s) /\ Cardinality(s) \in Nat
                          /\ Cardinality(s) <= Cardinality(X)
  BY FS_Subset, FS_CardinalityType
<1>2. \A s \in SUBSET X : s # {} => /\ One(s) \in s /\ s \ {One(s)} \in SUBSET X
                                    /\ Cardinality(s) = Cardinality(s \ {One(s)}) + 1
                                    /\ Cardinality(s \ {One(s)}) \in Nat
  BY <1>1, OneLess
<1> HIDE DEF One
<1>3. Not = {}
  <2> SUFFICES ASSUME Not # {} PROVE FALSE
    OBVIOUS
  <2>1. PICK n \in Not : \A k \in Not : n <= k
    BY Least
  <2>2. CASE n = 0
    <3> DEFINE g == [s \in SUBSET X |-> 0]
    <3>1. ASSUME NEW s \in SUBSET X, Cardinality(s) <= 0 PROVE s = {}
      <4>1. Cardinality(s) = 0
        BY <1>1, <3>1
      <4>2. QED
        BY <1>1, <4>1, FS_EmptySet
    <3>2. Sums(g, 0)
      BY <3>1
    <3>3. QED
      BY <2>1, <2>2, <3>2
  <2>3. CASE n # 0
    <3>1. n \in Nat /\ n - 1 \in Nat /\ ~(n <= n - 1)
      BY <2>1, <2>3
    <3>a. n - 1 \notin Not
      <4> HIDE DEF Not
      <4>1. QED
        BY <2>1, <3>1
    <3>2. PICK f : Sums(f, n - 1)
      <4> HIDE DEF Sums
      <4>1. QED
        BY <3>1, <3>a
    <3> DEFINE g == [s \in SUBSET X |-> IF Cardinality(s) <= n - 1 THEN f[s]
                                        ELSE v[One(s)] + f[s \ {One(s)}]]
    <3>3. ASSUME NEW s \in SUBSET X, Cardinality(s) <= n
          PROVE  g[s] = IF s = {} THEN 0 ELSE v[One(s)] + g[s \ {One(s)}]
      <4>1. CASE s = {}
        <5>1. Cardinality(s) <= n - 1
          BY <3>1, <4>1, FS_EmptySet
        <5>2. QED
          BY <3>2, <4>1, <5>1
      <4>2. CASE s # {}
        <5>1. s \ {One(s)} \in SUBSET X /\ Cardinality(s \ {One(s)}) <= n - 1
          BY <1>1, <1>2, <3>1, <3>3, <4>2
        <5>2. g[s \ {One(s)}] = f[s \ {One(s)}]
          BY <5>1
        <5>3. Cardinality(s) <= n - 1 => f[s] = v[One(s)] + f[s \ {One(s)}]
          BY <3>2, <4>2
        <5>4. QED
          BY <4>2, <5>2, <5>3
      <4>3. QED
        BY <4>1, <4>2
    <3> HIDE DEF g
    <3>4. Sums(g, n)
      BY <3>3
    <3>5. QED
      BY <2>1, <3>4
  <2>4. QED
    BY <2>2, <2>3
<1>4. Cardinality(X) \in Nat
  BY FS_CardinalityType
<1>5. PICK f : Sums(f, Cardinality(X))
  <2> HIDE DEF Sums
  <2>1. QED
    BY <1>3, <1>4
<1> DEFINE g == [s \in SUBSET X |-> f[s]]
<1>6. ASSUME NEW s \in SUBSET X
      PROVE  g[s] = IF s = {} THEN 0 ELSE v[One(s)] + g[s \ {One(s)}]
  <2>1. f[s] = IF s = {} THEN 0 ELSE v[One(s)] + f[s \ {One(s)}]
    BY <1>1, <1>5
  <2>2. s \ {One(s)} \in SUBSET X
    OBVIOUS
  <2>3. QED
    BY <2>1, <2>2
<1>7. g = [s \in SUBSET X |-> g[s]]
  OBVIOUS
<1> HIDE DEF g
<1>8. g = [s \in SUBSET X |-> IF s = {} THEN 0 ELSE v[One(s)] + g[s \ {One(s)}]]
  BY <1>6, <1>7
<1>9. QED
  BY <1>8 DEF SumUpTo, One

\* The sum at s is one value and the sum of the rest.
LEMMA SumStep ==
    ASSUME NEW X, IsFiniteSet(X), NEW v, NEW g, g = SumUpTo(g, v, X), NEW s \in SUBSET X, s # {}
    PROVE  \E x \in s : /\ s \ {x} \in SUBSET X /\ g[s] = v[x] + g[s \ {x}]
                       /\ Cardinality(s) = Cardinality(s \ {x}) + 1
                       /\ Cardinality(s \ {x}) \in Nat
<1> DEFINE y == CHOOSE y \in s : TRUE
<1>1. y \in s /\ s \ {y} \in SUBSET X /\ g[s] = v[y] + g[s \ {y}]
  BY DEF SumUpTo
<1>2. Cardinality(s) = Cardinality(s \ {y}) + 1 /\ Cardinality(s \ {y}) \in Nat
  <2>1. IsFiniteSet(s)
    BY FS_Subset
  <2>2. QED
    BY <2>1, OneLess
<1> HIDE DEF y
<1>3. QED
  BY <1>1, <1>2

\* How the sum of v over s lies: between the number of elements times any lower
\* and any upper bound of their values.
SumLies(sum, v, s) ==
    /\ sum \in Int
    /\ \A m \in Int : (\A x \in s : m <= v[x]) => Cardinality(s) * m <= sum
    /\ \A m \in Int : (\A x \in s : v[x] <= m) => sum <= Cardinality(s) * m

\* One more value.
LEMMA SumOneMore ==
    ASSUME NEW s, IsFiniteSet(s), s # {}, NEW v, \A x \in s : v[x] \in Int, NEW sum, NEW y \in s,
           Cardinality(s) \in Nat, Cardinality(s \ {y}) \in Nat,
           Cardinality(s) = Cardinality(s \ {y}) + 1, SumLies(sum, v, s \ {y})
    PROVE  SumLies(v[y] + sum, v, s)
<1>1. sum \in Int /\ v[y] \in Int /\ v[y] + sum \in Int
  BY DEF SumLies
<1>2. ASSUME NEW m \in Int PROVE Cardinality(s) * m = Cardinality(s \ {y}) * m + m
  <2>1. \A a \in Nat : (a + 1) * m = a * m + m
    OBVIOUS
  <2>2. QED
    BY <2>1
<1>3. \A m \in Int : Cardinality(s) * m \in Int /\ Cardinality(s \ {y}) * m \in Int
  OBVIOUS
<1>4. ASSUME NEW m \in Int, \A x \in s : m <= v[x] PROVE Cardinality(s) * m <= v[y] + sum
  <2>1. Cardinality(s \ {y}) * m <= sum /\ m <= v[y]
    BY <1>4 DEF SumLies
  <2>2. QED
    BY <1>1, <1>2, <1>3, <2>1
<1>5. ASSUME NEW m \in Int, \A x \in s : v[x] <= m PROVE v[y] + sum <= Cardinality(s) * m
  <2>1. sum <= Cardinality(s \ {y}) * m /\ v[y] <= m
    BY <1>5 DEF SumLies
  <2>2. QED
    BY <1>1, <1>2, <1>3, <2>1
<1>6. QED
  BY <1>1, <1>4, <1>5 DEF SumLies

\* A sum of integers lies so.
LEMMA SumIsBounded ==
    ASSUME NEW X, IsFiniteSet(X), NEW v, \A x \in X : v[x] \in Int,
           NEW g, g = SumUpTo(g, v, X)
    PROVE  SumLies(g[X], v, X)
<1> DEFINE Not == {n \in Nat : \E s \in SUBSET X : Cardinality(s) = n /\ ~SumLies(g[s], v, s)}
<1>1. \A s \in SUBSET X : IsFiniteSet(s) /\ Cardinality(s) \in Nat
  BY FS_Subset, FS_CardinalityType
<1>2. Not = {}
  <2> SUFFICES ASSUME Not # {} PROVE FALSE
    OBVIOUS
  <2>1. PICK n \in Not : \A k \in Not : n <= k
    BY Least
  <2>2. PICK s \in SUBSET X : Cardinality(s) = n /\ ~SumLies(g[s], v, s)
    BY <2>1
  <2>3. CASE s = {}
    <3>1. g[s] = 0 /\ Cardinality(s) = 0
      BY <2>3, FS_EmptySet DEF SumUpTo
    <3>2. SumLies(0, v, {})
      BY <3>1, FS_EmptySet DEF SumLies
    <3>3. QED
      BY <2>2, <2>3, <3>1, <3>2
  <2>4. CASE s # {}
    <3>1. PICK x \in s : /\ s \ {x} \in SUBSET X /\ g[s] = v[x] + g[s \ {x}]
                         /\ Cardinality(s) = Cardinality(s \ {x}) + 1
                         /\ Cardinality(s \ {x}) \in Nat
      BY <2>4, SumStep
    <3>2. SumLies(g[s \ {x}], v, s \ {x})
      <4>1. Cardinality(s \ {x}) \notin Not
        <5> HIDE DEF Not
        <5>1. QED
          BY <2>1, <2>2, <3>1
      <4>2. QED
        BY <3>1, <4>1
    <3>3. QED
      BY <1>1, <2>2, <2>4, <3>1, <3>2, SumOneMore
  <2>5. QED
    BY <2>3, <2>4
<1>3. QED
  BY <1>1, <1>2

\* The calls of a key.
Keyed(chosen, key, x) == {c \in chosen : key[c] = x}
CountsKeyed(v, X, chosen, key) == \A x \in X : v[x] = Cardinality(Keyed(chosen, key, x))

\* When v counts, for every x of X, the calls whose key is x, then its sum counts
\* the calls whose key is in X.
LEMMA SumCounts ==
    ASSUME NEW X, IsFiniteSet(X), NEW chosen, IsFiniteSet(chosen), NEW key, NEW v,
           CountsKeyed(v, X, chosen, key),
           NEW g, g = SumUpTo(g, v, X)
    PROVE  g[X] = Cardinality({c \in chosen : key[c] \in X})
<1> DEFINE In(s) == {c \in chosen : key[c] \in s}
           Not == {n \in Nat : \E s \in SUBSET X : Cardinality(s) = n /\ g[s] # Cardinality(In(s))}
<1>1. \A s \in SUBSET X : IsFiniteSet(s) /\ Cardinality(s) \in Nat
  BY FS_Subset, FS_CardinalityType
<1>2. Not = {}
  <2> SUFFICES ASSUME Not # {} PROVE FALSE
    OBVIOUS
  <2>1. PICK n \in Not : \A k \in Not : n <= k
    BY Least
  <2>2. PICK s \in SUBSET X : Cardinality(s) = n /\ g[s] # Cardinality(In(s))
    BY <2>1
  <2>3. CASE s = {}
    <3>1. g[s] = 0
      BY <2>3 DEF SumUpTo
    <3>2. In({}) = {}
      OBVIOUS
    <3>3. QED
      BY <2>2, <2>3, <3>1, <3>2, FS_EmptySet
  <2>4. CASE s # {}
    <3>1. PICK x \in s : /\ s \ {x} \in SUBSET X /\ g[s] = v[x] + g[s \ {x}]
                         /\ Cardinality(s) = Cardinality(s \ {x}) + 1
                         /\ Cardinality(s \ {x}) \in Nat
      BY <2>4, SumStep
    <3>2. g[s \ {x}] = Cardinality(In(s \ {x}))
      <4>1. Cardinality(s \ {x}) \notin Not
        <5> HIDE DEF Not
        <5>1. QED
          BY <2>1, <2>2, <3>1
      <4>2. QED
        BY <3>1, <4>1
    <3> DEFINE here == Keyed(chosen, key, x)
               rest == In(s \ {x})
    <3>3. IsFiniteSet(here) /\ IsFiniteSet(rest)
      BY FS_Subset DEF Keyed
    <3>4. here \cup rest = In(s) /\ here \cap rest = {}
      BY DEF Keyed
    <3>5. v[x] = Cardinality(here)
      BY <3>1 DEF CountsKeyed
    <3>6. Cardinality(here) \in Nat /\ Cardinality(rest) \in Nat
      BY <3>3, FS_CardinalityType
    <3> HIDE DEF here, rest, In
    <3>7. Cardinality(In(s)) = Cardinality(here) + Cardinality(rest)
      <4>1. Cardinality(here \cup rest)
              = Cardinality(here) + Cardinality(rest) - Cardinality(here \cap rest)
        BY <3>3, FS_Union
      <4>2. Cardinality(here \cap rest) = 0
        BY <3>4, FS_EmptySet
      <4>3. Cardinality(here \cup rest) = Cardinality(here) + Cardinality(rest)
        BY <3>6, <4>1, <4>2
      <4>4. QED
        BY <3>4, <4>3
    <3>8. QED
      BY <2>2, <3>1, <3>2, <3>5, <3>7 DEF rest
  <2>5. QED
    BY <2>3, <2>4
<1>3. QED
  BY <1>1, <1>2

\* The keys of finitely many calls are finitely many.
LEMMA KeysAreFinite ==
    ASSUME NEW chosen, IsFiniteSet(chosen), NEW key
    PROVE  IsFiniteSet({key[c] : c \in chosen})
<1> DEFINE f == [c \in chosen |-> key[c]]
           keys == {key[c] : c \in chosen}
<1>1. f \in [chosen -> keys] /\ \A x \in keys : \E c \in chosen : f[c] = x
  OBVIOUS
<1> HIDE DEF f, keys
<1>2. f \in Surjection(chosen, keys)
  BY <1>1 DEF Surjection
<1>3. QED
  BY <1>2, FS_Surjection DEF keys

\* Total is a sum of that kind ...
LEMMA TotalIsSum ==
    ASSUME NEW counts, IsFiniteSet(DOMAIN counts)
    PROVE  \E g : g = SumUpTo(g, counts, DOMAIN counts) /\ Total(counts) = g[DOMAIN counts]
<1> DEFINE Is(g) == g = [s \in SUBSET DOMAIN counts |->
                          IF s = {} THEN 0
                          ELSE counts[CHOOSE x \in s : TRUE] + g[s \ {CHOOSE x \in s : TRUE}]]
<1>1. \E g : Is(g)
  <2>1. \E g : g = SumUpTo(g, counts, DOMAIN counts)
    BY SumExists
  <2>2. QED
    BY <2>1 DEF SumUpTo
<1>2. Is(CHOOSE g : Is(g))
  BY <1>1
<1>3. Total(counts) = (CHOOSE g : Is(g))[DOMAIN counts]
  BY DEF Total, MapThenSumSet, MapThenFoldSet
<1>4. QED
  BY <1>2, <1>3 DEF SumUpTo

\* The components of one kind that a summary counts.
OfKind(kind) == {x \in DOMAIN summary.components : x[1] = kind}

\* ... and so are a summary's totals of a kind ...
LEMMA CountOfIsSum ==
    ASSUME NEW kind, IsFiniteSet(OfKind(kind))
    PROVE  \E g : g = SumUpTo(g, summary.components, OfKind(kind))
                  /\ CountOf(kind) = g[OfKind(kind)]
<1>0. PICK xs : xs = {x \in DOMAIN summary.components : x[1] = kind} /\ xs = OfKind(kind)
  BY DEF OfKind
<1> DEFINE Is(g) == g = [s \in SUBSET xs |->
                          IF s = {} THEN 0
                          ELSE summary.components[CHOOSE x \in s : TRUE]
                                 + g[s \ {CHOOSE x \in s : TRUE}]]
<1>1. \E g : Is(g)
  <2>0. PICK parts : parts = summary.components
    OBVIOUS
  <2>1. PICK g : g = SumUpTo(g, parts, xs)
    BY <1>0, SumExists
  <2>2. Is(g)
    BY <2>0, <2>1 DEF SumUpTo
  <2>3. QED
    BY <2>2
<1>2. Is(CHOOSE g : Is(g))
  BY <1>1
<1>3. CountOf(kind) = (CHOOSE g : Is(g))[xs]
  BY <1>0 DEF CountOf, MapThenSumSet, MapThenFoldSet
<1>4. QED
  BY <1>0, <1>2, <1>3 DEF SumUpTo

\* ... and what Average divides.
FieldTotal(field, known) == MapThenSumSet(LAMBDA c : c[field], known)

\* ... by a function that has the field's value for each call.
LEMMA FieldIsSum ==
    ASSUME NEW field, NEW known, IsFiniteSet(known), NEW v, v = [c \in known |-> c[field]]
    PROVE  \E g : g = SumUpTo(g, v, known) /\ FieldTotal(field, known) = g[known]
<1> DEFINE One(s) == CHOOSE x \in s : TRUE
           Is(g) == g = [s \in SUBSET known |->
                          IF s = {} THEN 0 ELSE One(s)[field] + g[s \ {One(s)}]]
<1>0. \A s \in SUBSET known : s # {} => One(s) \in known
  OBVIOUS
<1>1. ASSUME NEW g PROVE Is(g) <=> g = SumUpTo(g, v, known)
  <2>1. \A s \in SUBSET known : s # {} => v[One(s)] = One(s)[field]
    BY <1>0
  <2> HIDE DEF One
  <2>2. [s \in SUBSET known |-> IF s = {} THEN 0 ELSE One(s)[field] + g[s \ {One(s)}]]
          = [s \in SUBSET known |-> IF s = {} THEN 0 ELSE v[One(s)] + g[s \ {One(s)}]]
    BY <2>1
  <2>3. QED
    BY <2>2 DEF SumUpTo, One
<1>2. \E g : Is(g)
  <2>1. \E g : g = SumUpTo(g, v, known)
    BY SumExists
  <2> HIDE DEF Is
  <2>2. QED
    BY <1>1, <2>1
<1>3. Is(CHOOSE g : Is(g))
  <2> HIDE DEF Is
  <2>1. QED
    BY <1>2
<1>4. FieldTotal(field, known) = (CHOOSE g : Is(g))[known]
  BY DEF FieldTotal, MapThenSumSet, MapThenFoldSet
<1> HIDE DEF Is
<1>5. QED
  BY <1>1, <1>3, <1>4

\* Counts of the calls of each key sum up to the calls ...
LEMMA CountsSumUp ==
    ASSUME NEW chosen, IsFiniteSet(chosen), NEW key, NEW X, X = {key[c] : c \in chosen}, NEW counts,
           CountsKeyed(counts, X, chosen, key),
           NEW g, g = SumUpTo(g, counts, X)
    PROVE  g[X] = Cardinality(chosen)
<1>1. IsFiniteSet(X)
  BY KeysAreFinite
<1>2. g[X] = Cardinality({c \in chosen : key[c] \in X})
  BY <1>1, SumCounts
<1>3. {c \in chosen : key[c] \in X} = chosen
  OBVIOUS
<1>4. QED
  BY <1>2, <1>3

\* ... and so does their Total.
LEMMA CountsAddUp ==
    ASSUME NEW chosen, IsFiniteSet(chosen), NEW key, NEW counts,
           DOMAIN counts = {key[c] : c \in chosen},
           CountsKeyed(counts, DOMAIN counts, chosen, key)
    PROVE  Total(counts) = Cardinality(chosen)
<1>1. IsFiniteSet(DOMAIN counts)
  BY KeysAreFinite
<1>2. PICK g : g = SumUpTo(g, counts, DOMAIN counts) /\ Total(counts) = g[DOMAIN counts]
  BY <1>1, TotalIsSum
<1>3. QED
  BY <1>2, CountsSumUp

\* A rounded average of integers lies between two of them.
LEMMA AverageLies ==
    ASSUME NEW field, NEW chosen, IsFiniteSet(chosen), Known(field, chosen) # {},
           \A c \in Known(field, chosen) : c[field] \in Int
    PROVE  Between(field, chosen, Average(field, chosen, 1))
<1> DEFINE known == Known(field, chosen)
           n == Cardinality(known)
           v == [c \in known |-> c[field]]
<1>1. IsFiniteSet(known) /\ n \in Nat \ {0}
  <2>1. known \in SUBSET chosen
    BY DEF Known
  <2>2. QED
    BY <2>1, FS_Subset, FS_CardinalityType, FS_EmptySet
<1>2. PICK g : g = SumUpTo(g, v, known) /\ FieldTotal(field, known) = g[known]
  <2> HIDE DEF known
  <2>1. QED
    BY <1>1, FieldIsSum
<1> DEFINE sum == g[known]
           q == (2 * sum + n) \div (2 * n)
<1>3. SumLies(sum, v, known)
  <2>1. \A c \in known : v[c] \in Int
    OBVIOUS
  <2> HIDE DEF known, v
  <2>2. QED
    BY <1>1, <1>2, <2>1, SumIsBounded
<1>4. Average(field, chosen, 1) = IF n = 0 THEN 0 ELSE (2 * (1 * sum) + n) \div (2 * n)
  BY <1>2 DEF Average, FieldTotal
<1>5. sum \in Int
  BY <1>3 DEF SumLies
<1> HIDE DEF known, n, v, sum
<1>6. Average(field, chosen, 1) = q
  BY <1>1, <1>4, <1>5
<1>7. q \in Int /\ 2 * (n * q) <= 2 * sum + n /\ 2 * sum + n < 2 * (n * q) + 2 * n
  <2>1. \A a \in Int, b \in Nat \ {0} :
          a \div b \in Int /\ b * (a \div b) <= a /\ a < b * (a \div b) + b
    OBVIOUS
  <2>2. 2 * sum + n \in Int /\ 2 * n \in Nat \ {0}
    BY <1>1, <1>5
  <2>3. q \in Int /\ (2 * n) * q <= 2 * sum + n /\ 2 * sum + n < (2 * n) * q + 2 * n
    BY <2>1, <2>2
  <2> HIDE DEF q
  <2>4. (2 * n) * q = 2 * (n * q)
    BY <1>1, <2>3
  <2>5. QED
    BY <2>3, <2>4
<1> HIDE DEF q
<1>8. n * q \in Int /\ n * (q + 1) = n * q + n /\ n * (q - 1) = n * q - n
  BY <1>1, <1>7
<1>9. \E c \in known : c[field] <= q
  <2> SUFFICES ASSUME \A c \in known : ~(c[field] <= q) PROVE FALSE
    OBVIOUS
  <2>1. \A c \in known : q + 1 <= v[c]
    BY <1>7 DEF v, known
  <2>2. n * (q + 1) <= sum
    BY <1>3, <1>7, <2>1 DEF SumLies, n
  <2>3. QED
    BY <1>1, <1>5, <1>7, <1>8, <2>2
<1>10. \E d \in known : q <= d[field]
  <2> SUFFICES ASSUME \A d \in known : ~(q <= d[field]) PROVE FALSE
    OBVIOUS
  <2>1. \A d \in known : v[d] <= q - 1
    BY <1>7 DEF v, known
  <2>2. sum <= n * (q - 1)
    BY <1>3, <1>7, <2>1 DEF SumLies, n
  <2>3. QED
    BY <1>1, <1>5, <1>7, <1>8, <2>2
<1>11. QED
  BY <1>6, <1>9, <1>10 DEF Between, known

-----------------------------------------------------------------------------
(* The statistics count the same calls.                                    *)

\* What the statistics need of the store.
StoreOK == store \subseteq Versions /\ IsFiniteSet(store) /\ \A c, d \in store : c.id = d.id => c = d

\* What is selected of a finite store is finite.
LEMMA SelectIsFinite ==
    ASSUME StoreOK, NEW f
    PROVE  Select(store, f) \subseteq store /\ IsFiniteSet(Select(store, f))
<1>1. Select(store, f) \in SUBSET store
  BY DEF Select
<1>2. PICK s : s = store
  OBVIOUS
<1>3. IsFiniteSet(s) /\ Select(store, f) \in SUBSET s
  BY <1>1, <1>2 DEF StoreOK
<1>4. \A Y \in SUBSET s : IsFiniteSet(Y)
  BY <1>3, FS_Subset
<1>5. QED
  BY <1>1, <1>3, <1>4

\* A window and the next one share no call and leave out none.
LEMMA WindowsSplit ==
    ASSUME ReadsAssumption, StoreOK, NEW f \in Requests, NEW t \in f.from..f.to
    PROVE  LET P == Select(store, SplitAt(f, t)[1])
               Q == Select(store, SplitAt(f, t)[2])
           IN P \cup Q = Select(store, f) /\ P \cap Q = {}
<1> DEFINE f1 == [f EXCEPT !.to = t]
           f2 == [f EXCEPT !.from = t]
<1>1. f.from \in Int /\ f.to \in Int /\ t \in Int /\ f.from <= t /\ t <= f.to
  BY DEF ReadsAssumption
<1>2. /\ f1.from = f.from /\ f1.to = t /\ f2.from = t /\ f2.to = f.to
      /\ f1.groups = f.groups /\ f1.platforms = f.platforms /\ f1.media = f.media
      /\ f1.excluded = f.excluded
      /\ f2.groups = f.groups /\ f2.platforms = f.platforms /\ f2.media = f.media
      /\ f2.excluded = f.excluded
  <2>1. {"from", "to", "groups", "platforms", "media", "excluded"} \subseteq DOMAIN f
    BY DEF ReadsAssumption
  <2>2. QED
    BY <2>1
<1>3. SplitAt(f, t)[1] = f1 /\ SplitAt(f, t)[2] = f2
  BY DEF SplitAt
<1> HIDE DEF f1, f2
<1>4. \A c \in store : c.time \in Int
  BY DEF StoreOK, ReadsAssumption
<1>5. ASSUME NEW c \in store
      PROVE  /\ InWindow(c, f) <=> InWindow(c, f1) \/ InWindow(c, f2)
             /\ ~(InWindow(c, f1) /\ InWindow(c, f2))
  BY <1>1, <1>2, <1>4 DEF InWindow
<1>6. ASSUME NEW c \in store
      PROVE  /\ Matches(c, f) <=> Matches(c, f1) \/ Matches(c, f2)
             /\ ~(Matches(c, f1) /\ Matches(c, f2))
  BY <1>2, <1>5 DEF Matches
<1>7. QED
  BY <1>3, <1>6 DEF Select

\* Two sets without a common element.
LEMMA DisjointCount ==
    ASSUME NEW P, NEW Q, IsFiniteSet(P), IsFiniteSet(Q), P \cap Q = {}
    PROVE  /\ Cardinality(P \cup Q) = Cardinality(P) + Cardinality(Q)
           /\ Cardinality(P) \in Nat /\ Cardinality(Q) \in Nat
<1>1. Cardinality(P \cup Q) = Cardinality(P) + Cardinality(Q) - Cardinality(P \cap Q)
  BY FS_Union
<1>2. Cardinality(P) \in Nat /\ Cardinality(Q) \in Nat /\ Cardinality(P \cap Q) = 0
  BY FS_CardinalityType, FS_EmptySet
<1>3. QED
  BY <1>1, <1>2

\* Consecutive windows count every call once.
LEMMA WindowsAddUp == ReadsAssumption /\ StoreOK => WindowsAdd
<1> SUFFICES ASSUME ReadsAssumption, StoreOK, NEW f \in Requests, NEW t \in f.from..f.to
             PROVE  Cardinality(Select(store, f)) =
                      Cardinality(Select(store, SplitAt(f, t)[1]))
                        + Cardinality(Select(store, SplitAt(f, t)[2]))
  BY DEF WindowsAdd
<1>1. PICK P : P = Select(store, SplitAt(f, t)[1])
  OBVIOUS
<1>2. PICK Q : Q = Select(store, SplitAt(f, t)[2])
  OBVIOUS
<1>3. P \cup Q = Select(store, f) /\ P \cap Q = {}
  BY <1>1, <1>2, WindowsSplit
<1>4. IsFiniteSet(P) /\ IsFiniteSet(Q)
  BY <1>1, <1>2, SelectIsFinite
<1>5. Cardinality(P \cup Q) = Cardinality(P) + Cardinality(Q)
  BY <1>3, <1>4, DisjointCount
<1>6. QED
  BY <1>1, <1>2, <1>3, <1>5

\* The buckets of a trend add up ...
LEMMA ThroughputAddsUp ==
    ASSUME NEW chosen, IsFiniteSet(chosen) PROVE Total(Throughput(chosen)) = Cardinality(chosen)
<1> DEFINE key == [c \in chosen |-> BucketOf(c)]
           counts == Throughput(chosen)
<1>1. \A c \in chosen : key[c] = BucketOf(c)
  OBVIOUS
<1> HIDE DEF key
<1>2. /\ DOMAIN counts = {BucketOf(c) : c \in chosen}
      /\ \A b \in DOMAIN counts : counts[b] = Cardinality({c \in chosen : BucketOf(c) = b})
  BY DEF Throughput
<1> HIDE DEF counts
<1>3. DOMAIN counts = {key[c] : c \in chosen}
  BY <1>1, <1>2
<1>4. \A b : {c \in chosen : BucketOf(c) = b} = Keyed(chosen, key, b)
  BY <1>1 DEF Keyed
<1>5. CountsKeyed(counts, DOMAIN counts, chosen, key)
  BY <1>2, <1>4 DEF CountsKeyed
<1>6. QED
  BY <1>3, <1>5, CountsAddUp DEF counts

\* ... and so do the platforms ...
LEMMA PlatformsAddUp ==
    ASSUME NEW chosen, IsFiniteSet(chosen) PROVE Total(ByPlatform(chosen)) = Cardinality(chosen)
<1> DEFINE key == [c \in chosen |-> c.platform]
           counts == ByPlatform(chosen)
<1>1. \A c \in chosen : key[c] = c.platform
  OBVIOUS
<1> HIDE DEF key
<1>2. /\ DOMAIN counts = {c.platform : c \in chosen}
      /\ \A b \in DOMAIN counts : counts[b] = Cardinality({c \in chosen : c.platform = b})
  BY DEF ByPlatform
<1> HIDE DEF counts
<1>3. DOMAIN counts = {key[c] : c \in chosen}
  BY <1>1, <1>2
<1>4. \A b : {c \in chosen : c.platform = b} = Keyed(chosen, key, b)
  BY <1>1 DEF Keyed
<1>5. CountsKeyed(counts, DOMAIN counts, chosen, key)
  BY <1>2, <1>4 DEF CountsKeyed
<1>6. QED
  BY <1>3, <1>5, CountsAddUp DEF counts

\* ... and the media.
LEMMA MediaAddUp ==
    ASSUME NEW chosen, IsFiniteSet(chosen) PROVE Total(ByMedia(chosen)) = Cardinality(chosen)
<1> DEFINE key == [c \in chosen |-> c.media]
           counts == ByMedia(chosen)
<1>1. \A c \in chosen : key[c] = c.media
  OBVIOUS
<1> HIDE DEF key
<1>2. /\ DOMAIN counts = {c.media : c \in chosen}
      /\ \A b \in DOMAIN counts : counts[b] = Cardinality({c \in chosen : c.media = b})
  BY DEF ByMedia
<1> HIDE DEF counts
<1>3. DOMAIN counts = {key[c] : c \in chosen}
  BY <1>1, <1>2
<1>4. \A b : {c \in chosen : c.media = b} = Keyed(chosen, key, b)
  BY <1>1 DEF Keyed
<1>5. CountsKeyed(counts, DOMAIN counts, chosen, key)
  BY <1>2, <1>4 DEF CountsKeyed
<1>6. QED
  BY <1>3, <1>5, CountsAddUp DEF counts

\* Who neither was answered nor was not is still on the line.
LEMMA OutcomesAddUp ==
    ASSUME NEW chosen, IsFiniteSet(chosen), NEW b \in DOMAIN Throughput(chosen),
           \A c \in chosen : c.state \in {"ongoing", "ended", "missed", "abandoned"}
    PROVE  LET o == ByOutcome(chosen)[b] IN
           Throughput(chosen)[b] - o.answered - o.unanswered =
              Cardinality({c \in chosen : BucketOf(c) = b /\ c.state = "ongoing"})
<1> DEFINE here == {c \in chosen : BucketOf(c) = b}
           yes == Answered(here)
           no == Unanswered(here)
           on == {c \in chosen : BucketOf(c) = b /\ c.state = "ongoing"}
<1>1. ByOutcome(chosen)[b] = [answered |-> Cardinality(yes), unanswered |-> Cardinality(no)]
  BY DEF ByOutcome
<1>2. Throughput(chosen)[b] = Cardinality(here)
  BY DEF Throughput
<1>3. yes \in SUBSET chosen /\ no \in SUBSET chosen /\ on \in SUBSET chosen /\ yes \cup no \in SUBSET chosen
  BY DEF Answered, Unanswered
<1>4. (yes \cup no) \cup on = here /\ (yes \cup no) \cap on = {} /\ yes \cap no = {}
  BY DEF Answered, Unanswered
<1> HIDE DEF here, yes, no, on
<1>5. IsFiniteSet(yes) /\ IsFiniteSet(no) /\ IsFiniteSet(on) /\ IsFiniteSet(yes \cup no)
  BY <1>3, FS_Subset
<1>6. /\ Cardinality(yes \cup no) = Cardinality(yes) + Cardinality(no)
      /\ Cardinality(yes) \in Nat /\ Cardinality(no) \in Nat
  BY <1>4, <1>5, DisjointCount
<1>7. /\ Cardinality((yes \cup no) \cup on) = Cardinality(yes \cup no) + Cardinality(on)
      /\ Cardinality(on) \in Nat
  BY <1>4, <1>5, DisjointCount
<1>8. Cardinality(here) - Cardinality(yes) - Cardinality(no) = Cardinality(on)
  <2>1. Cardinality(here) = Cardinality(yes \cup no) + Cardinality(on)
    BY <1>4, <1>7
  <2>2. QED
    BY <1>6, <1>7, <2>1
<1>9. QED
  BY <1>1, <1>2, <1>8 DEF on

\* The buckets, the platforms and the outcomes of what a request selects.
LEMMA BreakdownsAddUp == ReadsAssumption /\ StoreOK => BreakdownsAdd
<1> SUFFICES ASSUME ReadsAssumption, StoreOK, NEW f \in Requests
             PROVE  LET chosen == Select(store, f) IN
                    /\ Total(Throughput(chosen)) = Cardinality(chosen)
                    /\ Total(ByPlatform(chosen)) = Cardinality(chosen)
                    /\ List(store, f) \subseteq chosen
                    /\ \A b \in DOMAIN Throughput(chosen) :
                         LET o == ByOutcome(chosen)[b] IN
                         Throughput(chosen)[b] - o.answered - o.unanswered =
                            Cardinality({c \in chosen : BucketOf(c) = b /\ c.state = "ongoing"})
  BY DEF BreakdownsAdd
<1>1. PICK chosen : chosen = Select(store, f)
  OBVIOUS
<1>2. IsFiniteSet(chosen) /\ chosen \subseteq Versions
  BY <1>1, SelectIsFinite DEF StoreOK
<1>3. \A c \in chosen : c.state \in {"ongoing", "ended", "missed", "abandoned"}
  BY <1>2 DEF ReadsAssumption
<1>4. Total(Throughput(chosen)) = Cardinality(chosen) /\ Total(ByPlatform(chosen)) = Cardinality(chosen)
  BY <1>2, ThroughputAddsUp, PlatformsAddUp
<1>5. List(store, f) \subseteq chosen
  BY <1>1 DEF List
<1>6. \A b \in DOMAIN Throughput(chosen) :
         LET o == ByOutcome(chosen)[b] IN
         Throughput(chosen)[b] - o.answered - o.unanswered =
            Cardinality({c \in chosen : BucketOf(c) = b /\ c.state = "ongoing"})
  BY <1>2, <1>3, OutcomesAddUp
<1>7. QED
  BY <1>1, <1>4, <1>5, <1>6

\* The calls somebody talks in.
TalksIn(chosen, id) == {c \in chosen : \E p \in c.people : p.talks /\ p.id = id}

\* Whoever has one name in each call has one row for each of their calls.
LEMMA RowsCountCalls ==
    ASSUME NEW chosen, IsFiniteSet(chosen), OneNameEach(chosen),
           \A c, d \in chosen : c.id = d.id => c = d, NEW id
    PROVE  /\ IsFiniteSet(RowsOf(chosen, id))
           /\ Cardinality(RowsOf(chosen, id)) = Cardinality(TalksIn(chosen, id))
<1> DEFINE mine == TalksIn(chosen, id)
           Who(c) == CHOOSE p \in c.people : p.talks /\ p.id = id
           Row(c) == [call |-> c.id, duration |-> c.duration, who |-> Who(c)]
           f == [c \in mine |-> Row(c)]
           rows == RowsOf(chosen, id)
<1>1. \A c \in mine : c \in chosen /\ Who(c) \in c.people /\ Who(c).talks /\ Who(c).id = id
  BY DEF TalksIn
<1>2. ASSUME NEW c \in mine, NEW p \in c.people, p.talks, p.id = id PROVE p = Who(c)
  <2>1. c \in chosen /\ Who(c) \in c.people /\ Who(c).talks /\ Who(c).id = id
    BY <1>1
  <2> HIDE DEF Who
  <2>2. QED
    BY <1>2, <2>1 DEF OneNameEach
<1> HIDE DEF Who
<1>3. \A c \in mine : Row(c) \in rows
  BY <1>1 DEF RowsOf, PersonRows
<1>4. \A r \in rows : \E c \in mine : r = Row(c)
  <2> SUFFICES ASSUME NEW r \in rows PROVE \E c \in mine : r = Row(c)
    OBVIOUS
  <2>1. PICK c \in chosen : \E p \in {q \in c.people : q.talks} :
                              r = [call |-> c.id, duration |-> c.duration, who |-> p]
    BY DEF RowsOf, PersonRows
  <2>2. PICK p \in c.people : /\ p.talks
                              /\ r = [call |-> c.id, duration |-> c.duration, who |-> p]
    BY <2>1
  <2>3. p.id = id
    BY <2>2 DEF RowsOf
  <2>4. c \in mine
    BY <2>2, <2>3 DEF TalksIn
  <2>5. QED
    BY <1>2, <2>2, <2>3, <2>4
<1>5. \A c, d \in mine : Row(c) = Row(d) => c = d
  BY <1>1
<1> HIDE DEF mine, rows, Row
<1>6. f \in [mine -> rows]
  BY <1>3
<1>7. f \in Bijection(mine, rows)
  <2>1. \A c, d \in mine : f[c] = f[d] => c = d
    BY <1>5
  <2>2. \A r \in rows : \E c \in mine : f[c] = r
    BY <1>4
  <2> HIDE DEF f
  <2>3. QED
    BY <1>6, <2>1, <2>2 DEF Bijection, Injection, Surjection, IsInjective
<1>8. ExistsBijection(mine, rows)
  BY <1>7 DEF ExistsBijection
<1>9. IsFiniteSet(mine)
  BY FS_Subset DEF mine, TalksIn
<1>10. IsFiniteSet(rows) /\ Cardinality(rows) = Cardinality(mine)
  BY <1>8, <1>9, FS_Bijection
<1>11. QED
  BY <1>10 DEF rows, mine

\* The ranking of an agent: two rows are two calls.
LEMMA AgentsHaveCalls ==
    ASSUME NEW chosen, IsFiniteSet(chosen), OneNameEach(chosen),
           \A c, d \in chosen : c.id = d.id => c = d, NEW id \in Agents(chosen)
    PROVE  Cardinality({c \in chosen : \E p \in c.people : p.id = id}) >= 2
<1> DEFINE takes == {c \in chosen : \E p \in c.people : p.id = id}
<1>1. /\ IsFiniteSet(RowsOf(chosen, id))
      /\ Cardinality(RowsOf(chosen, id)) = Cardinality(TalksIn(chosen, id))
  BY RowsCountCalls
<1>2. AgentRows(chosen, id) \in SUBSET RowsOf(chosen, id)
  BY DEF AgentRows
<1>3. /\ Cardinality(AgentRows(chosen, id)) \in Nat /\ Cardinality(RowsOf(chosen, id)) \in Nat
      /\ Cardinality(AgentRows(chosen, id)) <= Cardinality(RowsOf(chosen, id))
  BY <1>1, <1>2, FS_Subset, FS_CardinalityType
<1>4. Cardinality(AgentRows(chosen, id)) >= 2
  BY DEF Agents
<1>5. IsFiniteSet(takes)
  BY FS_Subset
<1>6. TalksIn(chosen, id) \in SUBSET takes
  BY DEF TalksIn
<1>7. /\ Cardinality(TalksIn(chosen, id)) <= Cardinality(takes) /\ Cardinality(takes) \in Nat
  BY <1>5, <1>6, FS_Subset, FS_CardinalityType
<1>8. QED
  BY <1>1, <1>3, <1>4, <1>7

\* The rankings count calls.
LEMMA TalkersCount == ReadsAssumption /\ StoreOK => TalkersCountCalls
<1> SUFFICES ASSUME ReadsAssumption, StoreOK, NEW f \in Requests, OneNameEach(Select(store, f))
             PROVE  LET chosen == Select(store, f) IN
                /\ \A scope \in BOOLEAN : \A id \in DOMAIN TopTalkers(chosen, scope) :
                     TopTalkers(chosen, scope)[id] =
                       Cardinality({c \in chosen : \E p \in c.people : p.talks /\ p.id = id})
                /\ \A id \in Agents(chosen) :
                     Cardinality({c \in chosen : \E p \in c.people : p.id = id}) >= 2
  BY DEF TalkersCountCalls
<1>1. PICK chosen : chosen = Select(store, f)
  OBVIOUS
<1>2. IsFiniteSet(chosen) /\ OneNameEach(chosen) /\ \A c, d \in chosen : c.id = d.id => c = d
  BY <1>1, SelectIsFinite DEF StoreOK
<1>3. ASSUME NEW scope \in BOOLEAN, NEW id \in DOMAIN TopTalkers(chosen, scope)
      PROVE  TopTalkers(chosen, scope)[id] = Cardinality(TalksIn(chosen, id))
  <2>1. TopTalkers(chosen, scope)[id] = Cardinality(RowsOf(chosen, id))
    BY <1>3 DEF TopTalkers
  <2>2. QED
    BY <1>2, <2>1, RowsCountCalls
<1>4. \A id \in Agents(chosen) :
         Cardinality({c \in chosen : \E p \in c.people : p.id = id}) >= 2
  BY <1>2, AgentsHaveCalls
<1>5. QED
  BY <1>1, <1>3, <1>4 DEF TalksIn

\* What an average or a bucket of a trend is taken over.
LEMMA TrendLies ==
    ASSUME NEW field, NEW chosen, IsFiniteSet(chosen),
           \A c \in chosen : c[field] \in Int \cup {Null},
           NEW b \in DOMAIN Trend(field, chosen)
    PROVE  /\ b \in DOMAIN Throughput(chosen)
           /\ Between(field, {c \in chosen : BucketOf(c) = b}, Trend(field, chosen)[b])
<1> DEFINE here == {c \in chosen : BucketOf(c) = b}
<1>1. PICK c \in Known(field, chosen) : BucketOf(c) = b
  BY DEF Trend
<1>2. b \in DOMAIN Throughput(chosen)
  BY <1>1 DEF Throughput, Known
<1>3. Trend(field, chosen)[b] = Average(field, here, 1)
  BY DEF Trend
<1>4. IsFiniteSet(here)
  BY FS_Subset
<1>5. Known(field, here) # {} /\ \A d \in Known(field, here) : d[field] \in Int
  BY <1>1 DEF Known
<1> HIDE DEF here
<1>6. Between(field, here, Average(field, here, 1))
  BY <1>4, <1>5, AverageLies
<1>7. QED
  BY <1>2, <1>3, <1>6 DEF here

\* The same by queue or IVR.
LEMMA PlaceLies ==
    ASSUME NEW field, NEW place, NEW chosen, IsFiniteSet(chosen),
           \A c \in chosen : c[field] \in Int \cup {Null},
           NEW x \in DOMAIN ByPlace(field, place, chosen)
    PROVE  Between(field, {c \in chosen : c[place] = x}, ByPlace(field, place, chosen)[x])
<1> DEFINE known == Known(field, chosen) \cap Known(place, chosen)
           here == {c \in known : c[place] = x}
           average == Average(field, here, 1)
<1>1. x \in {c[place] : c \in known} /\ ByPlace(field, place, chosen)[x] = average
  BY DEF ByPlace
<1>2. PICK c \in known : c[place] = x
  BY <1>1
<1>3. here \in SUBSET chosen
  BY DEF Known
<1>4. IsFiniteSet(here)
  <2> HIDE DEF here
  <2>1. QED
    BY <1>3, FS_Subset
<1>5. Known(field, here) # {} /\ \A d \in Known(field, here) : d[field] \in Int
  BY <1>2 DEF Known
<1>6. Known(field, here) \subseteq Known(field, {d \in chosen : d[place] = x})
  BY DEF Known
<1> HIDE DEF here
<1>7. Between(field, here, average)
  BY <1>4, <1>5, AverageLies
<1> HIDE DEF average
<1>8. QED
  BY <1>1, <1>6, <1>7 DEF Between

\* Every average the dashboard shows.
LEMMA AveragesLie == ReadsAssumption /\ StoreOK => AveragesFit
<1> SUFFICES ASSUME ReadsAssumption, StoreOK, NEW f \in Requests
             PROVE  LET chosen == Select(store, f) IN
                /\ \A field \in {"duration", "queueTime", "ivrTime"} :
                    \A b \in DOMAIN Trend(field, chosen) :
                        /\ b \in DOMAIN Throughput(chosen)
                        /\ Between(field, {c \in chosen : BucketOf(c) = b}, Trend(field, chosen)[b])
                /\ \A q \in DOMAIN ByQueue(chosen) :
                     Between("queueTime", {c \in chosen : c.queue = q}, ByQueue(chosen)[q])
                /\ \A i \in DOMAIN ByIvr(chosen) :
                     Between("ivrTime", {c \in chosen : c.ivr = i}, ByIvr(chosen)[i])
  BY DEF AveragesFit
<1>1. PICK chosen : chosen = Select(store, f)
  OBVIOUS
<1>2. IsFiniteSet(chosen) /\ chosen \subseteq Versions
  BY <1>1, SelectIsFinite DEF StoreOK
<1>3. ASSUME NEW field \in {"duration", "queueTime", "ivrTime"}
      PROVE  \A c \in chosen : c[field] \in Int \cup {Null}
  BY <1>2 DEF ReadsAssumption
<1>4. ASSUME NEW field \in {"duration", "queueTime", "ivrTime"},
             NEW b \in DOMAIN Trend(field, chosen)
      PROVE  /\ b \in DOMAIN Throughput(chosen)
             /\ Between(field, {c \in chosen : BucketOf(c) = b}, Trend(field, chosen)[b])
  BY <1>2, <1>3, TrendLies
<1>5. ASSUME NEW q \in DOMAIN ByQueue(chosen)
      PROVE  Between("queueTime", {c \in chosen : c.queue = q}, ByQueue(chosen)[q])
  <2>1. \A c \in chosen : c["queueTime"] \in Int \cup {Null}
    BY <1>3
  <2>2. q \in DOMAIN ByPlace("queueTime", "queue", chosen)
    BY <1>5 DEF ByQueue
  <2>3. Between("queueTime", {c \in chosen : c["queue"] = q}, ByPlace("queueTime", "queue", chosen)[q])
    BY <1>2, <2>1, <2>2, PlaceLies
  <2>4. QED
    BY <2>3 DEF ByQueue
<1>6. ASSUME NEW i \in DOMAIN ByIvr(chosen)
      PROVE  Between("ivrTime", {c \in chosen : c.ivr = i}, ByIvr(chosen)[i])
  <2>1. \A c \in chosen : c["ivrTime"] \in Int \cup {Null}
    BY <1>3
  <2>2. i \in DOMAIN ByPlace("ivrTime", "ivr", chosen)
    BY <1>6 DEF ByIvr
  <2>3. Between("ivrTime", {c \in chosen : c["ivr"] = i}, ByPlace("ivrTime", "ivr", chosen)[i])
    BY <1>2, <2>1, <2>2, PlaceLies
  <2>4. QED
    BY <2>3 DEF ByIvr
<1>7. QED
  BY <1>1, <1>4, <1>5, <1>6

-----------------------------------------------------------------------------
(* The parts of a summary.                                                 *)

\* The totals of a summary by queue or IVR count the calls that have one.
LEMMA PartsCount ==
    ASSUME NEW chosen, IsFiniteSet(chosen), summary.components = Components(chosen),
           NEW kind, NEW some \in SUBSET chosen, NEW key,
           \A c \in chosen : \A x :
              x \in ComponentsOf(c) /\ x[1] = kind <=> c \in some /\ x = key[c]
    PROVE  CountOf(kind) = Cardinality(some)
<1>1. PICK parts : parts = summary.components
  OBVIOUS
<1>2. /\ DOMAIN parts = UNION {ComponentsOf(c) : c \in chosen}
      /\ \A x \in DOMAIN parts : parts[x] = Cardinality({c \in chosen : x \in ComponentsOf(c)})
  BY <1>1 DEF Components
<1> DEFINE xs == {x \in DOMAIN parts : x[1] = kind}
<1>3. xs = {key[c] : c \in some}
  <2>1. ASSUME NEW x \in xs PROVE x \in {key[c] : c \in some}
    <3>1. PICK c \in chosen : x \in ComponentsOf(c)
      BY <1>2
    <3>2. QED
      BY <3>1
  <2>2. ASSUME NEW c \in some PROVE key[c] \in xs
    BY <1>2
  <2>3. QED
    BY <2>1, <2>2
<1>4. IsFiniteSet(some) /\ IsFiniteSet(xs)
  <2>1. IsFiniteSet(some)
    BY FS_Subset
  <2>2. QED
    BY <1>3, <2>1, KeysAreFinite
<1>5. CountsKeyed(parts, xs, some, key)
  <2> SUFFICES ASSUME NEW x \in xs PROVE parts[x] = Cardinality(Keyed(some, key, x))
    BY DEF CountsKeyed
  <2>1. {c \in chosen : x \in ComponentsOf(c)} = Keyed(some, key, x)
    BY DEF Keyed
  <2>2. QED
    BY <1>2, <2>1
<1> HIDE DEF xs
<1>6. PICK g : g = SumUpTo(g, parts, xs) /\ CountOf(kind) = g[xs]
  <2>1. xs = OfKind(kind) /\ IsFiniteSet(OfKind(kind))
    BY <1>1, <1>4 DEF xs, OfKind
  <2>2. PICK g : g = SumUpTo(g, summary.components, xs) /\ CountOf(kind) = g[xs]
    <3>1. \E g : g = SumUpTo(g, summary.components, OfKind(kind)) /\ CountOf(kind) = g[OfKind(kind)]
      BY <2>1, CountOfIsSum
    <3>2. QED
      BY <2>1, <3>1
  <2>3. g = SumUpTo(g, parts, xs)
    BY <1>1, <2>2
  <2>4. QED
    BY <2>2, <2>3
<1>7. g[xs] = Cardinality(some)
  BY <1>3, <1>4, <1>5, <1>6, CountsSumUp
<1>8. QED
  BY <1>6, <1>7

\* A part is no larger than the whole.
LEMMA PartIsLess ==
    ASSUME NEW P, NEW Q \in SUBSET P, IsFiniteSet(P)
    PROVE  /\ IsFiniteSet(Q) /\ Cardinality(Q) <= Cardinality(P)
           /\ Cardinality(Q) \in Nat /\ Cardinality(P) \in Nat
<1>1. IsFiniteSet(Q) /\ Cardinality(Q) <= Cardinality(P)
  BY FS_Subset
<1>2. QED
  BY <1>1, FS_CardinalityType

\* Nor are two that have nothing in common.
LEMMA TwoPartsAreLess ==
    ASSUME NEW P, IsFiniteSet(P), NEW Q \in SUBSET P, NEW R \in SUBSET P, Q \cap R = {}
    PROVE  /\ Cardinality(Q) + Cardinality(R) <= Cardinality(P)
           /\ Cardinality(Q) \in Nat /\ Cardinality(R) \in Nat /\ Cardinality(P) \in Nat
<1>1. IsFiniteSet(Q) /\ IsFiniteSet(R) /\ Q \cup R \in SUBSET P
  BY PartIsLess
<1>2. /\ Cardinality(Q \cup R) = Cardinality(Q) + Cardinality(R)
      /\ Cardinality(Q) \in Nat /\ Cardinality(R) \in Nat
  BY <1>1, DisjointCount
<1>3. Cardinality(Q \cup R) <= Cardinality(P) /\ Cardinality(P) \in Nat
  BY <1>1, PartIsLess
<1>4. QED
  BY <1>2, <1>3

\* Voice calls are among the calls, the abandoned ones among the unanswered.
LEMMA VoiceFits ==
    ASSUME NEW chosen, IsFiniteSet(chosen)
    PROVE  LET v == Voice(chosen)
               media == ByMedia(chosen)
               voice == IF "voice" \in DOMAIN media THEN media["voice"] ELSE 0
           IN v.matured + v.unmatured <= voice /\ v.abandonedQueue + v.abandonedIvr <= v.unmatured
<1> DEFINE voice == {c \in chosen : c.media = "voice"}
           yes == Answered(voice)
           no == Unanswered(voice)
           left == {c \in voice : c.state = "abandoned"}
           inQueue == {c \in left : c.queue # Null}
           inIvr == {c \in left : c.ivr # Null /\ c.queue = Null}
           media == ByMedia(chosen)
<1>1. Voice(chosen) = [matured |-> Cardinality(yes), unmatured |-> Cardinality(no),
                      abandonedQueue |-> Cardinality(inQueue),
                      abandonedIvr |-> Cardinality(inIvr)]
  BY DEF Voice
<1>2. (IF "voice" \in DOMAIN media THEN media["voice"] ELSE 0) = Cardinality(voice)
  <2>1. CASE "voice" \in DOMAIN media
    BY <2>1 DEF ByMedia
  <2>2. CASE "voice" \notin DOMAIN media
    <3>1. voice = {}
      BY <2>2 DEF ByMedia
    <3>2. QED
      BY <2>2, <3>1, FS_EmptySet
  <2>3. QED
    BY <2>1, <2>2
<1>3. voice \in SUBSET chosen
  OBVIOUS
<1>4. yes \in SUBSET voice /\ no \in SUBSET voice /\ yes \cap no = {}
  BY DEF Answered, Unanswered
<1>5. inQueue \in SUBSET no /\ inIvr \in SUBSET no /\ inQueue \cap inIvr = {}
  BY DEF Unanswered
<1> HIDE DEF voice, yes, no, left, inQueue, inIvr, media
<1>6. IsFiniteSet(voice) /\ IsFiniteSet(no)
  BY <1>3, <1>4, PartIsLess
<1>7. Cardinality(yes) + Cardinality(no) <= Cardinality(voice)
  BY <1>4, <1>6, TwoPartsAreLess
<1>8. Cardinality(inQueue) + Cardinality(inIvr) <= Cardinality(no)
  BY <1>5, <1>6, TwoPartsAreLess
<1>9. QED
  BY <1>1, <1>2, <1>7, <1>8 DEF media

\* Whoever left in a queue or an IVR is counted there.
LEMMA LeaversAreCounted ==
    ASSUME NEW chosen, IsFiniteSet(chosen), summary.components = Components(chosen)
    PROVE  /\ Voice(chosen).abandonedQueue <= CountOf("acd")
           /\ Voice(chosen).abandonedIvr <= CountOf("ivr")
<1> DEFINE queued == {c \in chosen : c.queue # Null}
           menued == {c \in chosen : c.ivr # Null}
           left == {c \in {d \in chosen : d.media = "voice"} : c.state = "abandoned"}
           inQueue == {c \in left : c.queue # Null}
           inIvr == {c \in left : c.ivr # Null /\ c.queue = Null}
           queueKey == [c \in chosen |-> <<"acd", c.queue>>]
           ivrKey == [c \in chosen |-> <<"ivr", c.ivr>>]
<1>1. ASSUME NEW c \in chosen, NEW x
      PROVE  /\ x \in ComponentsOf(c) /\ x[1] = "acd" <=> c \in queued /\ x = queueKey[c]
             /\ x \in ComponentsOf(c) /\ x[1] = "ivr" <=> c \in menued /\ x = ivrKey[c]
  BY DEF ComponentsOf
<1>2. queued \in SUBSET chosen /\ menued \in SUBSET chosen
  OBVIOUS
<1>3. inQueue \in SUBSET queued /\ inIvr \in SUBSET menued
  OBVIOUS
<1>4. /\ Voice(chosen).abandonedQueue = Cardinality(inQueue)
      /\ Voice(chosen).abandonedIvr = Cardinality(inIvr)
  BY DEF Voice
<1> HIDE DEF queued, menued, inQueue, inIvr, queueKey, ivrKey
<1>5. CountOf("acd") = Cardinality(queued)
  BY <1>1, <1>2, PartsCount
<1>6. CountOf("ivr") = Cardinality(menued)
  BY <1>1, <1>2, PartsCount
<1>7. IsFiniteSet(queued) /\ IsFiniteSet(menued)
  BY <1>2, PartIsLess
<1>8. Cardinality(inQueue) <= Cardinality(queued) /\ Cardinality(inIvr) <= Cardinality(menued)
  BY <1>3, <1>7, PartIsLess
<1>9. QED
  BY <1>4, <1>5, <1>6, <1>8

\* What the queries of a summary have read is what the store shows, for as long as
\* nothing was ingested since the first.
SummaryIsOfStore ==
    ~mixed /\ summary.pc # "idle" =>
        LET chosen == Select(store, summary.filters) IN
        /\ summary.media = ByMedia(chosen)
        /\ summary.pc # "voice" => summary.voice = Voice(chosen)
        /\ summary.pc \in {"components", "answered"} => summary.averages = Averages(chosen)
        /\ summary.pc = "answered" => summary.components = Components(chosen)

\* The parts of an answered summary fit each other.
LEMMA SummaryAddsUp == StoreOK /\ SummaryIsOfStore => SummaryFits
<1> SUFFICES ASSUME StoreOK, SummaryIsOfStore, summary.pc = "answered", ~mixed
             PROVE  LET v == summary.voice
                        voice == IF "voice" \in DOMAIN summary.media
                                 THEN summary.media["voice"] ELSE 0
                    IN /\ v.matured + v.unmatured <= voice
                       /\ v.abandonedQueue + v.abandonedIvr <= v.unmatured
                       /\ v.abandonedQueue <= CountOf("acd") /\ v.abandonedIvr <= CountOf("ivr")
                       /\ \A x \in DOMAIN summary.components :
                            summary.components[x] <= Total(summary.media)
                       /\ summary.averages["queueTime"] > 0 => Total(summary.media) > 0
  BY DEF SummaryFits
<1>1. PICK chosen : chosen = Select(store, summary.filters)
  OBVIOUS
<1>2. IsFiniteSet(chosen)
  BY <1>1, SelectIsFinite
<1>3. /\ summary.media = ByMedia(chosen) /\ summary.voice = Voice(chosen)
      /\ summary.averages = Averages(chosen) /\ summary.components = Components(chosen)
  BY <1>1 DEF SummaryIsOfStore
<1>4. Total(summary.media) = Cardinality(chosen) /\ Cardinality(chosen) \in Nat
  BY <1>2, <1>3, MediaAddUp, FS_CardinalityType
<1>5. ASSUME NEW x \in DOMAIN summary.components
      PROVE  summary.components[x] <= Total(summary.media)
  <2>1. summary.components[x] = Cardinality({c \in chosen : x \in ComponentsOf(c)})
    BY <1>3, <1>5 DEF Components
  <2>2. {c \in chosen : x \in ComponentsOf(c)} \in SUBSET chosen
    OBVIOUS
  <2>3. QED
    BY <1>2, <1>4, <2>1, <2>2, PartIsLess
<1>6. ASSUME summary.averages["queueTime"] > 0 PROVE Total(summary.media) > 0
  <2>1. Average("queueTime", chosen, 100) > 0
    BY <1>3, <1>6 DEF Averages
  <2>2. Cardinality(Known("queueTime", chosen)) # 0
    BY <2>1 DEF Average
  <2>3. Known("queueTime", chosen) \in SUBSET chosen
    BY DEF Known
  <2>4. /\ Cardinality(Known("queueTime", chosen)) <= Cardinality(chosen)
        /\ Cardinality(Known("queueTime", chosen)) \in Nat
    BY <1>2, <2>3, PartIsLess
  <2>5. QED
    BY <1>4, <2>2, <2>4
<1>7. /\ summary.voice.abandonedQueue <= CountOf("acd")
      /\ summary.voice.abandonedIvr <= CountOf("ivr")
  BY <1>2, <1>3, LeaversAreCounted
<1>8. QED
  BY <1>2, <1>3, <1>5, <1>6, <1>7, VoiceFits

\* The parts of a summary record.
SummaryFields == {"pc", "filters", "media", "voice", "averages", "components"}

\* The store is finite and keeps one version of each call; a summary's queries come in
\* their order, and each has counted what the store still shows.
ReadsInv ==
    /\ ReadsTypeOK /\ IsFiniteSet(store)
    /\ DOMAIN summary = SummaryFields
    /\ SummaryIsOfStore

\* An empty store and no summary.
LEMMA ReadsInitial == ReadsInit => ReadsInv
<1> SUFFICES ASSUME ReadsInit PROVE ReadsInv
  OBVIOUS
<1>1. store = {} /\ mixed \in BOOLEAN
  BY DEF ReadsInit
<1>2. summary.pc = "idle" /\ DOMAIN summary = SummaryFields
  BY DEF ReadsInit, NoSummary, SummaryFields
<1>3. IsFiniteSet(store)
  BY <1>1, FS_EmptySet
<1>4. QED
  BY <1>1, <1>2, <1>3 DEF ReadsInv, ReadsTypeOK, SummaryIsOfStore

\* A record that is ingested ends an answered summary and mixes a running one.
LEMMA IngestKeeps == ASSUME ReadsInv, NEW c \in Versions, Ingest(c) PROVE ReadsInv'
<1>1. ReadsTypeOK /\ DOMAIN summary = SummaryFields /\ DOMAIN NoSummary = SummaryFields
  BY DEF ReadsInv, NoSummary, SummaryFields
<1>2. store' = {d \in store : d.id # c.id} \cup {c}
  BY DEF Ingest
<1>3. store' \subseteq Versions /\ \A d, e \in store' : d.id = e.id => d = e
  BY <1>1, <1>2 DEF ReadsTypeOK
<1>4. IsFiniteSet(store')
  <2>1. PICK s : s = store
    OBVIOUS
  <2>2. IsFiniteSet(s)
    BY <2>1 DEF ReadsInv
  <2>3. IsFiniteSet({d \in s : d.id # c.id})
    BY <2>2, FS_Subset
  <2>4. IsFiniteSet({d \in s : d.id # c.id} \cup {c})
    BY <2>3, FS_AddElement
  <2>5. QED
    BY <1>2, <2>1, <2>4
<1>5. mixed' \in BOOLEAN /\ mixed' = Answering
  <2>1. mixed' = Answering
    BY DEF Ingest
  <2>2. Answering \in BOOLEAN
    BY DEF Answering
  <2>3. QED
    BY <2>1, <2>2
<1>6. summary' = IF Answering THEN summary ELSE NoSummary
  BY DEF Ingest
<1>7. summary' = summary \/ summary' = NoSummary
  BY <1>6
<1>8. (summary.pc \in {"idle", "answered"} \/ Answering)' /\ DOMAIN summary' = SummaryFields
  <2>1. (summary.pc \in {"idle", "answered"} \/ Answering)'
    BY <1>1, <1>7 DEF ReadsTypeOK, Answering, NoSummary
  <2>2. DOMAIN summary' = SummaryFields
    BY <1>1, <1>7
  <2>3. QED
    BY <2>1, <2>2
<1>9. SummaryIsOfStore'
  <2>1. CASE Answering
    BY <1>5, <2>1 DEF SummaryIsOfStore
  <2>2. CASE ~Answering
    <3>1. summary'.pc = "idle"
      BY <1>6, <2>2 DEF NoSummary
    <3>2. QED
      BY <3>1 DEF SummaryIsOfStore
  <2>3. QED
    BY <2>1, <2>2
<1>10. QED
  BY <1>1, <1>3, <1>4, <1>5, <1>8, <1>9 DEF ReadsInv, ReadsTypeOK

\* A query reads the store and writes one part of the summary.
LEMMA QueriesKeep ==
    ASSUME ReadsInv, store' = store, mixed' \in BOOLEAN, DOMAIN summary' = SummaryFields,
           summary'.pc \in {"voice", "averages", "components", "answered"}, SummaryIsOfStore'
    PROVE  ReadsInv'
<1>1. ReadsTypeOK' /\ IsFiniteSet(store)'
  BY DEF ReadsInv, ReadsTypeOK, Answering
<1>2. QED
  BY <1>1 DEF ReadsInv

\* An ingested record or a query of a summary keeps the invariant.
LEMMA ReadsInductive == ReadsInv /\ [ReadsNext]_readsVars => ReadsInv'
<1> SUFFICES ASSUME ReadsInv, [ReadsNext]_readsVars PROVE ReadsInv'
  OBVIOUS
<1>1. ReadsTypeOK /\ DOMAIN summary = SummaryFields /\ DOMAIN NoSummary = SummaryFields
  BY DEF ReadsInv, NoSummary, SummaryFields
<1>2. SummaryIsOfStore /\ SummaryFields = {"pc", "filters", "media", "voice", "averages", "components"}
  BY DEF ReadsInv, SummaryFields
<1>3. ASSUME NEW c \in Versions, Ingest(c) PROVE ReadsInv'
  BY <1>3, IngestKeeps
<1>4. ASSUME NEW user \in Users, NEW f \in Windows, SummaryByMedia(user, f) PROVE ReadsInv'
  <2>1. /\ DOMAIN summary' = SummaryFields /\ summary'.pc = "voice"
        /\ summary'.filters = Scoped(user, f)
        /\ summary'.media = ByMedia(Select(store, Scoped(user, f)))
    BY <1>4 DEF SummaryByMedia, NoSummary, SummaryFields
  <2>2. store' = store /\ mixed' \in BOOLEAN
    BY <1>4 DEF SummaryByMedia
  <2>3. SummaryIsOfStore'
    BY <2>1, <2>2 DEF SummaryIsOfStore
  <2>4. QED
    BY <2>1, <2>2, <2>3, QueriesKeep
<1>5. CASE SummaryVoice
  <2>1. /\ DOMAIN summary' = SummaryFields /\ summary'.pc = "averages" /\ summary.pc = "voice"
        /\ summary'.filters = summary.filters /\ summary'.media = summary.media
        /\ summary'.voice = Voice(Select(store, summary.filters))
    BY <1>1, <1>2, <1>5 DEF SummaryVoice
  <2>2. store' = store /\ mixed' = mixed /\ mixed \in BOOLEAN
    BY <1>1, <1>5 DEF SummaryVoice, ReadsTypeOK
  <2>3. SummaryIsOfStore'
    BY <1>2, <2>1, <2>2 DEF SummaryIsOfStore
  <2>4. QED
    BY <2>1, <2>2, <2>3, QueriesKeep
<1>6. CASE SummaryAverages
  <2>1. /\ DOMAIN summary' = SummaryFields /\ summary'.pc = "components" /\ summary.pc = "averages"
        /\ summary'.filters = summary.filters /\ summary'.media = summary.media
        /\ summary'.voice = summary.voice
        /\ summary'.averages = Averages(Select(store, summary.filters))
    BY <1>1, <1>2, <1>6 DEF SummaryAverages
  <2>2. store' = store /\ mixed' = mixed /\ mixed \in BOOLEAN
    BY <1>1, <1>6 DEF SummaryAverages, ReadsTypeOK
  <2>3. SummaryIsOfStore'
    BY <1>2, <2>1, <2>2 DEF SummaryIsOfStore
  <2>4. QED
    BY <2>1, <2>2, <2>3, QueriesKeep
<1>7. CASE SummaryComponents
  <2>1. /\ DOMAIN summary' = SummaryFields /\ summary'.pc = "answered" /\ summary.pc = "components"
        /\ summary'.filters = summary.filters /\ summary'.media = summary.media
        /\ summary'.voice = summary.voice /\ summary'.averages = summary.averages
        /\ summary'.components = Components(Select(store, summary.filters))
    BY <1>1, <1>2, <1>7 DEF SummaryComponents
  <2>2. store' = store /\ mixed' = mixed /\ mixed \in BOOLEAN
    BY <1>1, <1>7 DEF SummaryComponents, ReadsTypeOK
  <2>3. SummaryIsOfStore'
    BY <1>2, <2>1, <2>2 DEF SummaryIsOfStore
  <2>4. QED
    BY <2>1, <2>2, <2>3, QueriesKeep
<1>8. CASE UNCHANGED readsVars
  BY <1>8 DEF readsVars, ReadsInv, ReadsTypeOK, Answering, SummaryIsOfStore
<1>9. QED
  BY <1>3, <1>4, <1>5, <1>6, <1>7, <1>8 DEF ReadsNext

\* What the figures promise each other follows from the invariant.
LEMMA FiguresAddUp == ReadsAssumption /\ ReadsInv => StatisticsAddUp
<1> SUFFICES ASSUME ReadsAssumption, ReadsInv PROVE StatisticsAddUp
  OBVIOUS
<1>1. StoreOK /\ SummaryIsOfStore
  BY DEF StoreOK, ReadsInv, ReadsTypeOK
<1>2. WindowsAdd /\ BreakdownsAdd /\ TalkersCountCalls /\ AveragesFit
  BY <1>1, WindowsAddUp, BreakdownsAddUp, TalkersCount, AveragesLie
<1>3. SummaryFits
  BY <1>1, SummaryAddsUp
<1>4. QED
  BY <1>2, <1>3 DEF StatisticsAddUp

\* In every store that records can be ingested into, and for every request:
\* windows, buckets, platforms, outcomes, rankings and averages count the same
\* calls, and so do the four queries of a summary that nothing was ingested into.
THEOREM StatisticsHold == ASSUME ReadsAssumption PROVE ReadsSpec => []StatisticsAddUp
<1>1. ReadsInv => StatisticsAddUp
  BY FiguresAddUp
<1>2. QED
  BY <1>1, ReadsInitial, ReadsInductive, PTL DEF ReadsSpec

-----------------------------------------------------------------------------
(* Booting.                                                                *)

\* Past the migrations: the replica's own have been committed.
Migrated == {"count calls", "seed", "count users", "create", "print", "prune", "up"}

\* What replica p has found or done where it is.
BootOf(p) ==
    /\ pc[p] = "apply" => /\ pending[p] \subseteq Migrations[p]
                          /\ Migrations[p] \subseteq pending[p] \cup version
    /\ pc[p] \in Migrated => Migrations[p] \subseteq version
    /\ pc[p] = "print" => admin = p
    /\ pc[p] \in {"prune", "up"} => admin # B!Nobody

BootTypes ==
    /\ pc \in [Replicas -> B!Steps]
    /\ pending \in [Replicas -> SUBSET B!Files]
    /\ version \subseteq B!Files
    /\ ran = [m \in B!Files |-> IF m \in version THEN 1 ELSE 0]
    /\ admin \in Replicas \cup {B!Nobody} /\ shown \subseteq Replicas \cap {admin}
    /\ lost \in BOOLEAN

BootInv ==
    /\ BootTypes /\ \A p \in Replicas : BootOf(p)
    /\ admin # B!Nobody => admin \in shown \/ lost \/ pc[admin] = "print"

\* At first nothing has run and nobody is there.
LEMMA BootInitial == B!Init => BootInv
BY DEF B!Init, BootInv, BootTypes, BootOf, Migrated, B!Steps

\* A replica takes one step; the others are where they were, and what they have
\* found still holds, for versions are only added and the admin stays.
LEMMA ReplicaStep ==
  ASSUME B!BootAssumption, BootInv, NEW p \in Replicas, NEW step \in B!Steps,
         B!Goto(p, step),
         pending' \in [Replicas -> SUBSET B!Files],
         \A q \in Replicas \ {p} : pending'[q] = pending[q],
         version \subseteq version', version' \subseteq B!Files,
         ran' = [m \in B!Files |-> IF m \in version' THEN 1 ELSE 0],
         admin' \in Replicas \cup {B!Nobody}, admin # B!Nobody => admin' = admin,
         shown' \subseteq Replicas \cap {admin'}, lost' \in BOOLEAN, lost => lost',
         shown \subseteq shown',
         BootOf(p)',
         admin # B!Nobody => ~(admin = p /\ pc[p] = "print") \/ lost' \/ p \in shown',
         admin' # admin => admin' = p /\ step = "print"
  PROVE  BootInv'
<1>1. /\ pc' = [pc EXCEPT ![p] = step] /\ pc \in [Replicas -> B!Steps]
      /\ pc'[p] = step /\ \A q \in Replicas \ {p} : pc'[q] = pc[q]
  BY DEF B!Goto, BootInv, BootTypes
<1>2. BootTypes'
  BY <1>1 DEF BootTypes
<1>3. ASSUME NEW q \in Replicas \ {p} PROVE BootOf(q)'
  BY <1>1 DEF BootInv, BootOf, BootTypes, B!BootAssumption
<1>4. admin' # B!Nobody => (admin \in shown \/ lost \/ pc[admin] = "print")'
  BY <1>1 DEF BootInv, BootTypes, B!BootAssumption
<1>5. QED
  BY <1>2, <1>3, <1>4 DEF BootInv

\* Every step of every replica keeps the invariant.
LEMMA BootInductive == B!BootAssumption /\ BootInv /\ [B!Next]_(B!vars) => BootInv'
<1> SUFFICES ASSUME B!BootAssumption, BootInv, [B!Next]_(B!vars) PROVE BootInv'
  OBVIOUS
<1> USE DEF B!Steps, Migrated
<1>1. CASE UNCHANGED B!vars
  BY <1>1 DEF B!vars, BootInv, BootTypes, BootOf
<1>2. ASSUME NEW p \in Replicas,
             B!Connect(p) \/ B!CountCalls(p) \/ B!SeedExamples(p) \/ B!CountUsers(p)
             \/ B!Listen(p)
      PROVE  BootInv'
  <2>1. UNCHANGED <<pending, version, ran, admin, shown, lost>> /\ pc[p] # "print"
    BY <1>2 DEF B!Connect, B!CountCalls, B!SeedExamples, B!CountUsers, B!Listen
  <2>2. ASSUME NEW step \in B!Steps \ {"print", "apply"}, B!Goto(p, step),
               step \in Migrated => pc[p] \in Migrated,
               step = "prune" => admin # B!Nobody,
               step = "up" => pc[p] = "prune"
        PROVE  BootInv'
    <3>1. pc'[p] = step
      BY <2>2 DEF B!Goto, BootInv, BootTypes
    <3>2. BootOf(p)'
      BY <2>1, <2>2, <3>1 DEF BootInv, BootOf
    <3>3. QED
      BY <2>1, <2>2, <3>2, ReplicaStep DEF BootInv, BootTypes
  <2>3. CASE B!Connect(p)
    BY <2>2, <2>3 DEF B!Connect
  <2>4. CASE B!CountCalls(p)
    BY <2>2, <2>4 DEF B!CountCalls
  <2>5. CASE B!SeedExamples(p)
    BY <2>2, <2>5 DEF B!SeedExamples
  <2>6. CASE B!CountUsers(p)
    BY <2>2, <2>6 DEF B!CountUsers
  <2>7. CASE B!Listen(p)
    BY <2>2, <2>7 DEF B!Listen
  <2>8. QED
    BY <1>2, <2>3, <2>4, <2>5, <2>6, <2>7
<1>3. ASSUME NEW p \in Replicas, B!ReadVersions(p) PROVE BootInv'
  <2> DEFINE missing == Migrations[p] \ version
             step == IF missing = {} THEN "count calls" ELSE "apply"
  <2>1. /\ UNCHANGED <<version, ran, admin, shown, lost>>
        /\ pc[p] = "migrate" /\ pending' = [pending EXCEPT ![p] = missing]
        /\ pending \in [Replicas -> SUBSET B!Files]
    BY <1>3 DEF B!ReadVersions, BootInv, BootTypes
  <2>2. /\ pending'[p] = missing /\ missing \in SUBSET B!Files
    BY <2>1 DEF B!Files
  <2>3. /\ pending' \in [Replicas -> SUBSET B!Files]
        /\ \A q \in Replicas \ {p} : pending'[q] = pending[q]
    BY <2>1, <2>2
  <2>4. B!Goto(p, step) /\ step \in B!Steps
    BY <1>3, <2>2 DEF B!ReadVersions
  <2>5. pc'[p] = step
    BY <2>4 DEF B!Goto, BootInv, BootTypes
  <2>6. BootOf(p)'
    BY <2>1, <2>2, <2>5 DEF BootOf
  <2>7. QED
    BY <2>1, <2>3, <2>4, <2>6, ReplicaStep DEF BootInv, BootTypes
<1>4. ASSUME NEW p \in Replicas, B!ApplyMigrations(p) PROVE BootInv'
  <2>1. /\ UNCHANGED <<pending, admin, shown, lost>> /\ pc[p] = "apply"
        /\ pending[p] \subseteq Migrations[p] /\ pending[p] \subseteq B!Files
        /\ Migrations[p] \subseteq pending[p] \cup version
        /\ ran = [m \in B!Files |-> IF m \in version THEN 1 ELSE 0]
        /\ version \subseteq B!Files
    BY <1>4 DEF B!ApplyMigrations, BootInv, BootOf, BootTypes
  <2>2. CASE pending[p] \cap version = {}
    <3>1. /\ version' = version \cup pending[p] /\ ran' = B!Executed(pending[p])
          /\ B!Goto(p, "count calls")
      BY <1>4, <2>2 DEF B!ApplyMigrations
    <3>2. ran' = [m \in B!Files |-> IF m \in version' THEN 1 ELSE 0]
      <4>1. \A m \in B!Files :
               (IF m \in pending[p] THEN ran[m] + 1 ELSE ran[m])
                 = IF m \in version' THEN 1 ELSE 0
        <5> SUFFICES ASSUME NEW m \in B!Files
                     PROVE  (IF m \in pending[p] THEN ran[m] + 1 ELSE ran[m])
                              = IF m \in version' THEN 1 ELSE 0
          OBVIOUS
        <5>1. ran[m] = IF m \in version THEN 1 ELSE 0
          BY <2>1
        <5>2. CASE m \in version
          BY <2>2, <3>1, <5>1, <5>2
        <5>3. CASE m \in pending[p] /\ m \notin version
          <6>1. ran[m] = 0 /\ m \in version'
            BY <3>1, <5>1, <5>3
          <6>2. QED
            BY <5>3, <6>1
        <5>4. CASE m \notin pending[p] /\ m \notin version
          BY <3>1, <5>1, <5>4
        <5>5. QED
          BY <5>2, <5>3, <5>4
      <4>2. QED
        BY <3>1, <4>1 DEF B!Executed
    <3>3. pc'[p] = "count calls"
      BY <3>1 DEF B!Goto, BootInv, BootTypes
    <3>4. BootOf(p)'
      BY <2>1, <3>1, <3>3 DEF BootOf
    <3>5. QED
      BY <2>1, <3>1, <3>2, <3>4, ReplicaStep DEF BootInv, BootTypes
  <2>3. CASE pending[p] \cap version # {}
    <3>1. UNCHANGED <<version, ran>> /\ B!Goto(p, "exited")
      BY <1>4, <2>3 DEF B!ApplyMigrations
    <3>2. pc'[p] = "exited"
      BY <3>1 DEF B!Goto, BootInv, BootTypes
    <3>3. BootOf(p)'
      BY <3>2 DEF BootOf
    <3>4. QED
      BY <2>1, <3>1, <3>3, ReplicaStep DEF BootInv, BootTypes
  <2>4. QED
    BY <2>2, <2>3
<1>5. ASSUME NEW p \in Replicas, B!CreateAdmin(p) PROVE BootInv'
  <2>1. /\ UNCHANGED <<pending, version, ran, shown, lost>> /\ pc[p] = "create"
        /\ Migrations[p] \subseteq version
    BY <1>5 DEF B!CreateAdmin, BootInv, BootOf
  <2>2. CASE admin = B!Nobody
    <3>1. admin' = p /\ B!Goto(p, "print")
      BY <1>5, <2>2 DEF B!CreateAdmin
    <3>2. pc'[p] = "print"
      BY <3>1 DEF B!Goto, BootInv, BootTypes
    <3>3. BootOf(p)'
      BY <2>1, <3>1, <3>2 DEF BootOf
    <3>4. shown = {}
      BY <2>2 DEF BootInv, BootTypes, B!BootAssumption
    <3>5. QED
      BY <2>1, <2>2, <3>1, <3>3, <3>4, ReplicaStep DEF BootInv, BootTypes
  <2>3. CASE admin # B!Nobody
    <3>1. admin' = admin /\ B!Goto(p, "exited")
      BY <1>5, <2>3 DEF B!CreateAdmin
    <3>2. pc'[p] = "exited"
      BY <3>1 DEF B!Goto, BootInv, BootTypes
    <3>3. BootOf(p)'
      BY <3>2 DEF BootOf
    <3>4. QED
      BY <2>1, <3>1, <3>3, ReplicaStep DEF BootInv, BootTypes
  <2>4. QED
    BY <2>2, <2>3
<1>6. ASSUME NEW p \in Replicas, B!PrintPassword(p) PROVE BootInv'
  <2>1. /\ UNCHANGED <<pending, version, ran, admin, lost>> /\ pc[p] = "print"
        /\ shown' = shown \cup {p} /\ B!Goto(p, "prune")
        /\ admin = p /\ Migrations[p] \subseteq version
    BY <1>6 DEF B!PrintPassword, BootInv, BootOf
  <2>2. pc'[p] = "prune" /\ p # B!Nobody
    BY <2>1 DEF B!Goto, BootInv, BootTypes, B!BootAssumption
  <2>3. BootOf(p)'
    BY <2>1, <2>2 DEF BootOf
  <2>4. QED
    BY <2>1, <2>3, ReplicaStep DEF BootInv, BootTypes
<1>7. ASSUME NEW p \in Replicas, B!Crash(p) PROVE BootInv'
  <2>1. /\ UNCHANGED <<pending, version, ran, admin, shown>>
        /\ lost' = (lost \/ pc[p] = "print") /\ B!Goto(p, "exited")
    BY <1>7 DEF B!Crash
  <2>2. pc'[p] = "exited"
    BY <2>1 DEF B!Goto, BootInv, BootTypes
  <2>3. BootOf(p)'
    BY <2>2 DEF BootOf
  <2>4. lost' \in BOOLEAN /\ (lost => lost') /\ (pc[p] = "print" => lost')
    BY <2>1 DEF BootInv, BootTypes
  <2>5. QED
    BY <2>1, <2>3, <2>4, ReplicaStep DEF BootInv, BootTypes
<1>8. ASSUME NEW p \in Replicas, B!Restart(p) PROVE BootInv'
  <2>1. /\ UNCHANGED <<version, ran, admin, shown, lost>> /\ pc[p] = "exited"
        /\ B!Goto(p, "connect") /\ pending' = [pending EXCEPT ![p] = {}]
        /\ pending \in [Replicas -> SUBSET B!Files]
    BY <1>8 DEF B!Restart, BootInv, BootTypes
  <2>2. pc'[p] = "connect"
    BY <2>1 DEF B!Goto, BootInv, BootTypes
  <2>3. BootOf(p)'
    BY <2>2 DEF BootOf
  <2>4. /\ pending' \in [Replicas -> SUBSET B!Files]
        /\ \A q \in Replicas \ {p} : pending'[q] = pending[q]
    BY <2>1
  <2>5. QED
    BY <2>1, <2>3, <2>4, ReplicaStep DEF BootInv, BootTypes
<1>9. QED
  BY <1>1, <1>2, <1>3, <1>4, <1>5, <1>6, <1>7, <1>8 DEF B!Next, B!Start

\* The property follows from the invariant.
LEMMA BootIsOnce == BootInv => BootedOnce
BY DEF BootInv, BootTypes, BootOf, Migrated, BootedOnce, B!MigratedOnce, B!AdminCanLogIn

\* The examples are there or not, and crashes are bounded.
BootLimits == examples \in BOOLEAN /\ crashes \in 0..MaxCrashes

\* A step of boot keeps its counters within their bounds.
LEMMA BootStaysWithin ==
    /\ B!BootAssumption /\ B!Init => BootLimits
    /\ B!BootAssumption /\ BootLimits /\ [B!Next]_(B!vars) => BootLimits'
<1>1. ASSUME B!BootAssumption, B!Init PROVE BootLimits
  <2>1. examples \in BOOLEAN
    BY <1>1 DEF B!Init
  <2>2. crashes \in 0..MaxCrashes
    BY <1>1 DEF B!BootAssumption, B!Init
  <2>3. QED
    BY <2>1, <2>2 DEF BootLimits
<1>2. ASSUME B!BootAssumption, BootLimits, NEW p \in Replicas, B!Start(p) PROVE BootLimits'
  <2>1. crashes' = crashes /\ (examples' = examples \/ examples' = TRUE)
    BY <1>2 DEF B!Start, B!Connect, B!ReadVersions, B!ApplyMigrations, B!CountCalls,
         B!SeedExamples, B!CountUsers, B!CreateAdmin, B!PrintPassword, B!Listen, B!Restart
  <2>2. QED
    BY <1>2, <2>1 DEF BootLimits
<1>3. ASSUME B!BootAssumption, BootLimits, NEW p \in Replicas, B!Crash(p) PROVE BootLimits'
  BY <1>3 DEF B!BootAssumption, B!Crash, BootLimits
<1>4. BootLimits /\ UNCHANGED B!vars => BootLimits'
  BY DEF B!vars, BootLimits
<1>5. QED
  BY <1>1, <1>2, <1>3, <1>4 DEF B!Next

\* The variables of boot keep their types.
LEMMA BootTyped == BootInv /\ BootLimits => B!TypeOK
<1> SUFFICES ASSUME BootInv, BootLimits PROVE B!TypeOK
  OBVIOUS
<1>1. ran \in [B!Files -> Nat]
  BY DEF BootInv, BootTypes
<1>2. QED
  BY <1>1 DEF BootInv, BootTypes, BootLimits, B!TypeOK

\* However many replicas boot at once, die and boot again, with whatever images:
\* each migration runs once, and a replica that serves has an admin whose
\* password was printed, or whose maker died before it could.
THEOREM BootsOnce == B!Spec => []BootedOnce
<1>1. B!Init => BootInv
  BY BootInitial, PlatformAssumption
<1>2. BootInv /\ [B!Next]_(B!vars) => BootInv'
  BY BootInductive, PlatformAssumption
<1>3. QED
  BY <1>1, <1>2, BootIsOnce, PTL DEF B!Spec

-----------------------------------------------------------------------------
(* Running a script.                                                       *)

\* Until the output is too large, everything read has been kept; and it takes two
\* chunks to lose a character between them.
ScriptInv ==
    /\ S!TypeOK /\ OutputIsComplete
    /\ garbled => kept > 1
    /\ ~flags.tooLarge => kept = read /\ read <= MaxBytes

\* A script that has ended stays as it is, whoever kills it.
LEMMA KillTypes ==
  ASSUME S!TypeOK, S!KillWithGrace
  PROVE  /\ child' \in S!Ended \cup {"none", "running"} /\ grace' = "armed"
         /\ child # "running" => child' = child
BY DEF S!KillWithGrace, S!TypeOK, S!Ended

\* Every step of the script, of what it started and of the parent keeps it.
LEMMA ScriptInductive == S!OutputAssumption /\ ScriptInv /\ [S!Next]_(S!vars) => ScriptInv'
<1> SUFFICES ASSUME S!OutputAssumption, ScriptInv, [S!Next]_(S!vars) PROVE ScriptInv'
  OBVIOUS
<1> USE DEF S!OutputAssumption, ScriptInv, S!TypeOK, OutputIsComplete, S!OutputIsComplete, S!Ended
<1>1. CASE UNCHANGED S!vars
  BY <1>1 DEF S!vars
<1>2. CASE S!Spawn
  BY <1>2 DEF S!Spawn
<1>3. CASE S!Write
  BY <1>3 DEF S!Write, S!parent
<1>4. CASE S!Fork
  BY <1>4 DEF S!Fork, S!parent
<1>5. CASE S!Exit
  BY <1>5 DEF S!Exit, S!parent
<1>6. CASE S!HeirEnds
  BY <1>6 DEF S!HeirEnds, S!parent
<1>7. CASE S!Timeout
  <2>1. /\ child' \in S!Ended \cup {"none", "running"} /\ grace' = "armed"
        /\ child # "running" => child' = child
    BY <1>7, KillTypes DEF S!Timeout
  <2>2. /\ flags' \in [exited : BOOLEAN, timedOut : BOOLEAN, tooLarge : BOOLEAN]
        /\ flags'.tooLarge = flags.tooLarge
    BY <1>7 DEF S!Timeout
  <2>3. QED
    BY <1>7, <2>1, <2>2 DEF S!Timeout
<1>8. CASE S!GraceEnds
  BY <1>8 DEF S!GraceEnds
<1>9. CASE S!Data
  <2>1. CASE read + 1 <= MaxBytes
    <3>1. kept' = kept + 1 /\ (garbled' => garbled \/ kept > 0)
      BY <1>9, <2>1 DEF S!Data
    <3>2. garbled' \in BOOLEAN
      BY <1>9, <2>1 DEF S!Data
    <3>3. garbled' => kept' > 1
      BY <3>1
    <3>4. QED
      BY <1>9, <2>1, <3>2, <3>3 DEF S!Data
  <2>2. CASE ~(read + 1 <= MaxBytes)
    <3>1. /\ flags' \in [exited : BOOLEAN, timedOut : BOOLEAN, tooLarge : BOOLEAN]
          /\ flags'.tooLarge
      BY <1>9, <2>2 DEF S!Data
    <3>2. /\ child' \in S!Ended \cup {"none", "running"} /\ grace' \in {"off", "armed"}
          /\ child # "running" => child' = child
      BY <1>9, <2>2, KillTypes DEF S!Data
    <3>3. QED
      BY <1>9, <2>2, <3>1, <3>2 DEF S!Data
  <2>3. QED
    BY <2>1, <2>2
<1>10. CASE S!Close
  <2>1. /\ flags' \in [exited : BOOLEAN, timedOut : BOOLEAN, tooLarge : BOOLEAN]
        /\ flags'.tooLarge = flags.tooLarge
    BY <1>10 DEF S!Close, S!Settle
  <2>2. promise' = "resolved" => child = "ok" /\ ~flags.tooLarge
    BY <1>10 DEF S!Close, S!Settle
  <2>3. QED
    BY <1>10, <2>1, <2>2 DEF S!Close, S!Settle
<1>11. QED
  BY <1>1, <1>2, <1>3, <1>4, <1>5, <1>6, <1>7, <1>8, <1>9, <1>10 DEF S!Next

\* At first nothing has been written.
LEMMA ScriptInitial == S!Init => ScriptInv
<1> SUFFICES ASSUME S!Init PROVE ScriptInv
  OBVIOUS
<1>1. S!NoFlags \in [exited : BOOLEAN, timedOut : BOOLEAN, tooLarge : BOOLEAN]
  BY DEF S!NoFlags
<1>2. MaxBytes \in Nat /\ MaxOutput \in Nat
  BY PlatformAssumption DEF S!OutputAssumption
<1>3. S!TypeOK
  <2>1. written \in 0..MaxOutput /\ read \in 0..written /\ kept \in 0..read
    BY <1>2 DEF S!Init
  <2>2. /\ stubborn \in BOOLEAN /\ heir \in BOOLEAN
        /\ child \in S!Ended \cup {"none", "running"}
        /\ timer \in {"armed", "fired", "cleared"} /\ grace \in {"off", "armed"}
        /\ promise \in {"none", "pending", "resolved", "rejected"}
    BY DEF S!Init
  <2>3. QED
    BY <1>1, <2>1, <2>2 DEF S!Init, S!TypeOK
<1>4. kept = read /\ read <= MaxBytes /\ promise # "resolved" /\ ~garbled
  BY <1>2 DEF S!Init
<1>5. QED
  BY <1>3, <1>4 DEF ScriptInv, OutputIsComplete, S!OutputIsComplete

\* Records come from a script that ended by itself with exit code 0, and from
\* every chunk of its output, whatever it forks, ignores, prints or is killed by;
\* only between two chunks can a character be lost.
THEOREM OutputsAreComplete == S!Spec => []OutputIsComplete
<1>1. ScriptInv /\ [S!Next]_(S!vars) => ScriptInv'
  BY ScriptInductive, PlatformAssumption
<1>2. ScriptInv => OutputIsComplete
  BY DEF ScriptInv
<1>3. QED
  BY <1>1, <1>2, ScriptInitial, PTL DEF S!Spec

-----------------------------------------------------------------------------
(* The token cache.                                                        *)

\* How long a token may be in use that is not of the credential now stored.
Overdue(cred, until) == cred = source.cred \/ until <= source.since + MaxFetch + T!LongestLife

PollOK(q) ==
    /\ q.pc = "auth" => q.cred = source.cred \/ source.since = clock
    /\ q.pc = "token" => /\ q.asked <= clock /\ clock <= q.asked + MaxFetch
                         /\ q.cred = source.cred \/ q.asked <= source.since
    /\ q.pc = "pages" => /\ q.token.expires - q.got > Margin \/ q.token.ttl <= Margin
                         /\ q.got <= clock
                         /\ Overdue(q.token.cred, q.got)

TokenInv ==
    /\ T!TypeOK
    /\ source.since <= clock /\ cache.expires <= clock + T!LongestLife
    /\ Overdue(cache.cred, cache.expires)
    /\ PollOK(poll)

\* The longest of the lifetimes is one of them.
LEMMA LongestLifeIs ==
  ASSUME T!TokenAssumption
  PROVE  /\ T!LongestLife \in Nat
         /\ \A ttl \in Lifetimes : ttl \in Nat /\ ttl <= T!LongestLife
<1>1. PICK ttl \in Lifetimes : \A u \in Lifetimes : u <= ttl
  BY DEF T!TokenAssumption
<1>2. /\ T!LongestLife \in Lifetimes
      /\ \A u \in Lifetimes : u <= T!LongestLife
  BY <1>1 DEF T!LongestLife
<1>3. QED
  BY <1>2 DEF T!TokenAssumption

\* The fields of a poll that gets its token now.
LEMMA PollSends ==
  ASSUME T!TokenAssumption, T!TypeOK, NEW token \in T!Token, T!Send(token)
  PROVE  /\ poll' \in [pc : {"idle", "auth", "token", "pages"}, cred : 0..MaxUpdates,
                       asked : T!Times, token : T!Token, got : T!Times]
         /\ poll'.pc = "pages" /\ poll'.token = token /\ poll'.got = clock
<1>1. clock \in T!Times
  BY DEF T!TypeOK, T!Times, T!TokenAssumption
<1>2. QED
  BY <1>1 DEF T!TypeOK, T!Send

\* No poll is under way.
LEMMA NoPollOK ==
  ASSUME T!TokenAssumption
  PROVE  /\ T!NoPoll.pc = "idle"
         /\ T!NoPoll \in [pc : {"idle", "auth", "token", "pages"}, cred : 0..MaxUpdates,
                          asked : T!Times, token : T!Token, got : T!Times]
         /\ T!NoToken \in T!Token /\ T!NoToken.cred = 0 /\ T!NoToken.expires = 0
BY DEF T!NoPoll, T!NoToken, T!Token, T!Times, T!TokenAssumption

\* Every step of the poll, of the admin and of the clock keeps the invariant.
LEMMA TokenInductive == T!TokenAssumption /\ TokenInv /\ [T!Next]_(T!vars) => TokenInv'
<1> SUFFICES ASSUME T!TokenAssumption, TokenInv, [T!Next]_(T!vars) PROVE TokenInv'
  OBVIOUS
<1> DEFINE Life == T!LongestLife
           Polls == [pc : {"idle", "auth", "token", "pages"}, cred : 0..MaxUpdates,
                     asked : T!Times, token : T!Token, got : T!Times]
<1>0. /\ Life \in Nat /\ \A ttl \in Lifetimes : ttl \in Nat /\ ttl <= Life
      /\ clock \in Nat /\ clock \in T!Times /\ Margin \in Nat /\ MaxFetch \in Nat
      /\ MaxClock \in Nat
      /\ source.since \in Nat /\ source.cred \in 0..MaxUpdates
      /\ cache \in T!Token /\ cache.expires \in Nat /\ cache.cred \in 0..MaxUpdates
      /\ poll \in Polls
  BY LongestLifeIs DEF TokenInv, T!TokenAssumption, T!TypeOK, T!Times, T!Token
<1>n. T!LongestLife' = T!LongestLife
  BY DEF T!LongestLife
<1> HIDE DEF Life, Polls
<1>i. poll' = T!NoPoll => PollOK(poll)' /\ poll' \in Polls
  BY NoPollOK DEF PollOK, Polls
<1>1. CASE UNCHANGED T!vars
  BY <1>1, <1>n DEF T!vars, TokenInv, T!TypeOK, PollOK, Overdue, T!Times
<1>2. CASE T!UpdateCredential
  <2>1. /\ source' \in [cred : 0..MaxUpdates, since : T!Times]
        /\ source'.since = clock /\ UNCHANGED <<clock, cache, poll>>
    BY <1>0, <1>2 DEF T!UpdateCredential, TokenInv, T!TypeOK, T!TokenAssumption
  <2>2. T!TypeOK'
    BY <2>1 DEF TokenInv, T!TypeOK
  <2>3. Overdue(cache.cred, cache.expires)'
    BY <1>0, <1>n, <2>1 DEF Overdue, TokenInv, Life
  <2>4. PollOK(poll)'
    <3>1. poll.got \in Nat /\ poll.asked \in Nat
      BY <1>0 DEF Polls, T!Times
    <3>2. poll.pc = "pages" => Overdue(poll.token.cred, poll.got)'
      BY <1>0, <1>n, <2>1, <3>1 DEF Overdue, TokenInv, PollOK, Life
    <3>3. QED
      BY <1>0, <2>1, <3>1, <3>2 DEF TokenInv, PollOK
  <2>5. QED
    BY <1>0, <1>n, <2>1, <2>2, <2>3, <2>4 DEF TokenInv
<1>3. ASSUME UNCHANGED <<clock, source, cache>>, poll' \in Polls, PollOK(poll)'
      PROVE  TokenInv'
  BY <1>3, <1>n DEF TokenInv, T!TypeOK, Overdue, Polls
<1>4. CASE T!ReadSource
  <2>1. poll' \in Polls /\ poll'.pc = "auth" /\ poll'.cred = source.cred
    BY <1>0, <1>4, NoPollOK DEF T!ReadSource, Polls
  <2>2. QED
    BY <1>3, <1>4, <2>1 DEF T!ReadSource, PollOK
<1>5. CASE T!UseCached
  <2>1. /\ poll' \in Polls /\ poll'.pc = "pages" /\ poll'.token = cache /\ poll'.got = clock
        /\ UNCHANGED <<clock, source, cache>>
    BY <1>0, <1>5, PollSends DEF T!UseCached, TokenInv, Polls
  <2>2. cache.expires - Margin > clock
    BY <1>5 DEF T!UseCached, T!Fresh
  <2>3. Overdue(cache.cred, clock)
    BY <1>0, <2>2 DEF TokenInv, Overdue, Life
  <2>4. Overdue(poll.token.cred, poll.got)'
    BY <1>n, <2>1, <2>3 DEF Overdue
  <2>5. PollOK(poll)'
    BY <1>0, <2>1, <2>2, <2>4 DEF PollOK
  <2>6. QED
    BY <1>3, <2>1, <2>5
<1>6. CASE T!RequestToken
  <2>1. /\ poll' \in Polls /\ poll'.pc = "token" /\ poll'.cred = poll.cred
        /\ poll'.asked = clock /\ UNCHANGED <<clock, source, cache>> /\ poll.pc = "auth"
    BY <1>0, <1>6 DEF T!RequestToken, Polls
  <2>2. PollOK(poll)'
    BY <1>0, <2>1 DEF PollOK, TokenInv
  <2>3. QED
    BY <1>3, <2>1, <2>2
<1>7. ASSUME NEW ttl \in Lifetimes, T!TokenArrives(ttl) PROVE TokenInv'
  <2> DEFINE token == [cred |-> poll.cred, expires |-> clock + ttl, ttl |-> ttl]
  <2>1. /\ cache' = token /\ T!Send(token) /\ UNCHANGED <<clock, source>>
        /\ poll.pc = "token"
    BY <1>7 DEF T!TokenArrives
  <2>2. ttl \in Nat /\ ttl <= Life
    BY <1>0
  <2>3. poll.cred \in 0..MaxUpdates /\ poll.asked \in Nat
    BY <1>0 DEF Polls, T!Times
  <2>4. /\ token \in T!Token /\ token.cred = poll.cred /\ token.expires = clock + ttl
        /\ token.ttl = ttl
    BY <1>0, <2>2, <2>3 DEF T!Token
  <2> HIDE DEF token
  <2>5. /\ poll' \in Polls /\ poll'.pc = "pages" /\ poll'.token = token
        /\ poll'.got = clock
    BY <2>1, <2>4, PollSends DEF TokenInv, Polls
  <2>6. Overdue(poll.cred, clock + ttl) /\ Overdue(poll.cred, clock)
    BY <1>0, <2>1, <2>2, <2>3 DEF Overdue, TokenInv, PollOK, Life
  <2>7. Overdue(poll.token.cred, poll.got)' /\ Overdue(cache.cred, cache.expires)'
    BY <1>n, <2>1, <2>4, <2>5, <2>6 DEF Overdue
  <2>8. PollOK(poll)'
    BY <1>0, <2>1, <2>2, <2>4, <2>5, <2>7 DEF PollOK
  <2>9. T!TypeOK'
    BY <2>1, <2>4, <2>5 DEF TokenInv, T!TypeOK, Polls
  <2>10. Overdue(cache.cred, cache.expires)'
    BY <2>7
  <2>11. /\ source'.since <= clock'
         /\ cache'.expires <= clock' + T!LongestLife'
    BY <1>0, <1>n, <2>1, <2>2, <2>4 DEF TokenInv, Life
  <2>12. QED
    BY <2>8, <2>9, <2>10, <2>11 DEF TokenInv
<1>8. CASE T!TokenFails \/ T!PollEnds
  BY <1>3, <1>8, <1>i DEF T!TokenFails, T!PollEnds
<1>9. CASE T!Restart
  <2>1. /\ cache' = T!NoToken /\ cache' \in T!Token /\ cache'.expires = 0
        /\ UNCHANGED <<clock, source>> /\ PollOK(poll)' /\ poll' \in Polls
    BY <1>9, <1>i, NoPollOK DEF T!Restart
  <2>2. Overdue(cache.cred, cache.expires)'
    BY <1>0, <1>n, <2>1 DEF Overdue, Life
  <2>3. T!TypeOK'
    BY <2>1 DEF TokenInv, T!TypeOK, Polls
  <2>4. QED
    BY <1>0, <1>n, <2>1, <2>2, <2>3 DEF TokenInv, Life
<1>10. CASE T!Tick
  <2>1. /\ clock' = clock + 1 /\ clock < MaxClock /\ UNCHANGED <<source, cache, poll>>
        /\ poll.pc = "token" => clock - poll.asked < MaxFetch
        /\ poll.pc # "auth"
    BY <1>10 DEF T!Tick
  <2>2. poll.asked \in Nat /\ poll.got \in Nat
    BY <1>0 DEF Polls, T!Times
  <2>3. T!TypeOK'
    BY <1>0, <2>1 DEF TokenInv, T!TypeOK
  <2>4. Overdue(cache.cred, cache.expires)'
    BY <1>n, <2>1 DEF TokenInv, Overdue
  <2>5. poll.pc = "pages" => Overdue(poll.token.cred, poll.got)'
    BY <1>n, <2>1 DEF TokenInv, PollOK, Overdue
  <2>6. PollOK(poll)'
    BY <1>0, <2>1, <2>2, <2>5 DEF TokenInv, PollOK
  <2>7. QED
    BY <1>0, <1>n, <2>1, <2>3, <2>4, <2>6 DEF TokenInv, Life
<1>11. QED
  BY <1>1, <1>2, <1>4, <1>5, <1>6, <1>7, <1>8, <1>9, <1>10 DEF T!Next

\* At first there is no token.
LEMMA TokenInitial == T!Init => TokenInv
<1> SUFFICES ASSUME T!Init PROVE TokenInv
  OBVIOUS
<1>1. /\ T!LongestLife \in Nat /\ MaxFetch \in Nat /\ MaxClock \in Nat \ {0}
      /\ MaxUpdates \in Nat
  BY LongestLifeIs, PlatformAssumption DEF T!TokenAssumption
<1>2. /\ clock = 1 /\ source = [cred |-> 0, since |-> 0] /\ cache = T!NoToken
      /\ poll = T!NoPoll
  BY DEF T!Init
<1>3. T!TypeOK
  BY <1>1, <1>2, NoPollOK, PlatformAssumption DEF T!TypeOK, T!Times
<1>4. QED
  BY <1>1, <1>2, <1>3, NoPollOK, PlatformAssumption DEF TokenInv, PollOK, Overdue

\* The property follows from the invariant.
LEMMA TokenIsGood == TokenInv => HeaderIsGood
BY DEF TokenInv, PollOK, Overdue, HeaderIsGood, T!HeaderIsGood

\* A poll's header is good when it sets out, and a replaced credential's token
\* is out of use in time, for every margin and whatever lifetimes are issued.
THEOREM HeadersAreGood == T!Spec => []HeaderIsGood
<1>1. TokenInv /\ [T!Next]_(T!vars) => TokenInv'
  BY TokenInductive, PlatformAssumption
<1>2. QED
  BY <1>1, TokenInitial, TokenIsGood, PTL DEF T!Spec

-----------------------------------------------------------------------------
(* Backups.                                                                *)

\* While no two dumps have had the same name: the file of a dump being written
\* is partial, and a scheduled one that has succeeded stays until it is marked,
\* since it is younger than the retention period when it prunes.
DumpOf(d) ==
    /\ dumper[d].pc = "dump" => file[dumper[d].name].state = "partial"
    /\ dumper[d].pc \in {"prune", "mark"} =>
          d = Scheduled /\ file[dumper[d].name].state = "complete"
    /\ dumper[d].pc = "prune" => now - file[dumper[d].name].mtime <= Retention

OwnNames ==
    \A d, e \in Dumpers :
        dumper[d].pc = "dump" /\ dumper[e].pc = "dump" /\ dumper[d].name = dumper[e].name
            => d = e

\* The marker is about a dump no newer than the one that will be marked next.
MarkerIsPast ==
    /\ marker.name <= now /\ \A d \in Dumpers : dumper[d].name <= now
    /\ dumper[Scheduled].pc # "idle" => marker.name <= dumper[Scheduled].name

BackupsInv ==
    /\ U!TypeOK /\ MarkerIsPast /\ DumpSurvives
    /\ ~clash => OwnNames /\ \A d \in Dumpers : DumpOf(d)

Files == [state : {"absent", "partial", "garbled", "complete"}, mtime : 0..MaxTime]
Dumps == [pc : {"idle", "dump", "prune", "mark"}, name : U!Names]

\* Moving a dumper on.
LEMMA DumperMoves ==
  ASSUME dumper \in [Dumpers -> Dumps], NEW d \in Dumpers,
         NEW step \in {"idle", "dump", "prune", "mark"}, U!Goto(d, step)
  PROVE  /\ dumper' \in [Dumpers -> Dumps]
         /\ dumper'[d].pc = step /\ dumper'[d].name = dumper[d].name
         /\ \A e \in Dumpers \ {d} : dumper'[e] = dumper[e]
BY DEF U!Goto, Dumps

\* Writing a file.
LEMMA FileIsPut ==
  ASSUME U!BackupsAssumption, file \in [U!Names -> Files], now \in U!Names,
         NEW t \in U!Names,
         NEW state \in {"absent", "partial", "garbled", "complete"}, U!Put(t, state)
  PROVE  /\ file' \in [U!Names -> Files]
         /\ file'[t].state = state /\ file'[t].mtime = now
         /\ \A u \in U!Names \ {t} : file'[u] = file[u]
<1>1. [state |-> state, mtime |-> now] \in Files
  BY DEF Files, U!Names, U!BackupsAssumption
<1>2. QED
  BY <1>1 DEF U!Put

\* At first there is no file and no dump.
LEMMA BackupsInitial == U!BackupsAssumption /\ U!Init => BackupsInv
<1> SUFFICES ASSUME U!BackupsAssumption, U!Init PROVE BackupsInv
  OBVIOUS
<1>1. /\ 1 \in U!Names /\ MaxTime \in Nat /\ MaxKills \in Nat /\ Scheduled \in Dumpers
      /\ Retention \in Nat
  BY DEF U!BackupsAssumption, U!Names
<1>2. U!Absent \in Files /\ U!Idle \in Dumps /\ U!Idle.pc = "idle" /\ U!Idle.name = 1
  BY <1>1 DEF U!Absent, U!Idle, Files, Dumps
<1>3. \A d \in Dumpers : dumper[d] = U!Idle
  BY DEF U!Init
<1>4. U!TypeOK
  <2>1. /\ file \in [U!Names -> Files] /\ dumper \in [Dumpers -> Dumps]
        /\ now \in U!Names /\ kills \in 0..MaxKills
    BY <1>1, <1>2 DEF U!Init
  <2>2. marker \in [status : {"none", "ok", "failed"}, name : U!Names]
    BY <1>1 DEF U!Init
  <2>3. taken \in BOOLEAN /\ clash \in BOOLEAN
    BY DEF U!Init
  <2>4. QED
    BY <2>1, <2>2, <2>3 DEF U!TypeOK, Files, Dumps
<1>5. MarkerIsPast
  <2>1. marker.name = 1 /\ now = 1
    BY DEF U!Init
  <2>2. QED
    BY <1>1, <1>2, <1>3, <2>1 DEF MarkerIsPast
<1>6. DumpSurvives
  BY DEF U!Init, DumpSurvives, U!DumpSurvives
<1>7. OwnNames /\ \A d \in Dumpers : DumpOf(d)
  BY <1>2, <1>3 DEF OwnNames, DumpOf
<1>8. QED
  BY <1>4, <1>5, <1>6, <1>7 DEF BackupsInv

\* Every step of the dumpers and of the clock keeps the invariant.
LEMMA BackupsInductive ==
  U!BackupsAssumption /\ BackupsInv /\ [U!Next]_(U!vars) => BackupsInv'
<1> SUFFICES ASSUME U!BackupsAssumption, BackupsInv, [U!Next]_(U!vars) PROVE BackupsInv'
  OBVIOUS
<1>0. /\ now \in U!Names /\ now \in Nat
      /\ file \in [U!Names -> Files] /\ dumper \in [Dumpers -> Dumps]
      /\ marker \in [status : {"none", "ok", "failed"}, name : U!Names]
      /\ taken \in BOOLEAN /\ clash \in BOOLEAN /\ kills \in 0..MaxKills
      /\ \A d \in Dumpers : dumper[d].name \in U!Names
      /\ \A t \in U!Names : t \in Nat /\ file[t].mtime \in Nat
      /\ Scheduled \in Dumpers /\ Retention \in Nat \ {0} /\ MaxTime \in Nat
      /\ MaxKills \in Nat
  BY DEF BackupsInv, U!TypeOK, U!Names, Files, Dumps, U!BackupsAssumption
<1>t. ASSUME now' \in U!Names, file' \in [U!Names -> Files], dumper' \in [Dumpers -> Dumps],
             marker' \in [status : {"none", "ok", "failed"}, name : U!Names],
             taken' \in BOOLEAN, clash' \in BOOLEAN, kills' \in 0..MaxKills
      PROVE  U!TypeOK'
  BY <1>t DEF U!TypeOK, Files, Dumps
<1>1. CASE UNCHANGED U!vars
  BY <1>1 DEF U!vars, BackupsInv, U!TypeOK, U!Names, MarkerIsPast, DumpSurvives, U!DumpSurvives,
     U!Complete, OwnNames, DumpOf
<1>2. ASSUME NEW d \in Dumpers, U!StartDump(d) PROVE BackupsInv'
  <2> DEFINE dump == [pc |-> "dump", name |-> now]
  <2>1. /\ dumper' = [dumper EXCEPT ![d] = dump] /\ dumper[d].pc = "idle"
        /\ UNCHANGED <<now, marker, taken, kills>>
        /\ clash' = (clash \/ U!Present(now))
        /\ dump \in Dumps /\ dump.pc = "dump" /\ dump.name = now
    BY <1>0, <1>2 DEF U!StartDump, Dumps
  <2> HIDE DEF dump
  <2>2. /\ dumper' \in [Dumpers -> Dumps]
        /\ dumper'[d].pc = "dump" /\ dumper'[d].name = now
        /\ \A e \in Dumpers \ {d} : dumper'[e] = dumper[e]
    BY <1>0, <2>1
  <2>3. PICK state \in {"partial", "garbled"} :
            U!Put(now, state) /\ (U!Writing(now) = {} => state = "partial")
    BY <1>2 DEF U!StartDump
  <2>4. /\ file' \in [U!Names -> Files]
        /\ file'[now].state = state /\ file'[now].mtime = now
        /\ \A t \in U!Names \ {now} : file'[t] = file[t]
    BY <1>0, <2>3, FileIsPut
  <2>5. U!TypeOK'
    BY <1>0, <1>t, <2>1, <2>2, <2>4
  <2>6. MarkerIsPast'
    BY <1>0, <2>1, <2>2 DEF BackupsInv, MarkerIsPast
  <2>7. ASSUME ~clash' PROVE OwnNames' /\ (\A e \in Dumpers : DumpOf(e)') /\ U!DumpSurvives'
    <3>1. ~clash /\ file[now].state = "absent"
      BY <1>0, <2>1, <2>7 DEF U!Present
    <3>2. \A e \in Dumpers : dumper[e].pc # "idle" => dumper[e].name # now
      BY <1>0, <3>1 DEF BackupsInv, DumpOf, Dumps
    <3>3. U!Writing(now) = {}
      BY <3>2 DEF U!Writing
    <3>4. OwnNames'
      BY <2>2, <3>1, <3>2 DEF BackupsInv, OwnNames
    <3>5. ASSUME NEW e \in Dumpers PROVE DumpOf(e)'
      <4>1. CASE e = d
        BY <1>0, <2>2, <2>3, <2>4, <3>3, <4>1 DEF DumpOf
      <4>2. CASE e # d /\ dumper[e].pc = "idle"
        BY <2>2, <4>2 DEF DumpOf
      <4>3. CASE e # d /\ dumper[e].pc # "idle"
        <5>1. dumper'[e] = dumper[e] /\ file'[dumper[e].name] = file[dumper[e].name]
          BY <1>0, <2>2, <2>4, <3>2, <4>3
        <5>2. DumpOf(e)
          BY <3>1 DEF BackupsInv
        <5>3. QED
          BY <2>1, <5>1, <5>2 DEF DumpOf
      <4>4. QED
        BY <4>1, <4>2, <4>3
    <3>6. \A t \in U!Complete : t \in U!Complete'
      BY <1>0, <2>4, <3>1 DEF U!Complete
    <3>7. U!DumpSurvives'
      BY <2>1, <3>1, <3>6 DEF BackupsInv, DumpSurvives, U!DumpSurvives
    <3>8. QED
      BY <3>4, <3>5, <3>7
  <2>8. QED
    BY <2>5, <2>6, <2>7 DEF BackupsInv, DumpSurvives, U!DumpSurvives
<1>3. ASSUME NEW d \in Dumpers, U!DumpSucceeds(d) PROVE BackupsInv'
  <2> DEFINE t == dumper[d].name
             next == IF d = Scheduled THEN "prune" ELSE "idle"
  <2>1. /\ dumper[d].pc = "dump" /\ U!Goto(d, next) /\ t \in U!Names
        /\ UNCHANGED <<now, marker, clash, kills>>
    BY <1>0, <1>3 DEF U!DumpSucceeds
  <2>2. /\ dumper' \in [Dumpers -> Dumps]
        /\ dumper'[d].pc = next /\ dumper'[d].name = t
        /\ \A e \in Dumpers \ {d} : dumper'[e] = dumper[e]
    BY <1>0, <2>1, DumperMoves
  <2>3. CASE file[t].state = "garbled"
    <3>1. clash /\ UNCHANGED <<file, taken>>
      BY <1>0, <1>3, <2>1, <2>3 DEF U!DumpSucceeds, BackupsInv, DumpOf
    <3>2. U!TypeOK'
      BY <1>0, <1>t, <2>1, <2>2, <3>1
    <3>3. MarkerIsPast'
      BY <1>0, <2>1, <2>2 DEF BackupsInv, MarkerIsPast
    <3>4. QED
      BY <2>1, <3>1, <3>2, <3>3 DEF BackupsInv, DumpSurvives, U!DumpSurvives
  <2>4. CASE file[t].state # "garbled"
    <3>1. U!Put(t, "complete") /\ taken' = TRUE
      BY <1>3, <2>4 DEF U!DumpSucceeds
    <3>2. /\ file' \in [U!Names -> Files]
          /\ file'[t].state = "complete" /\ file'[t].mtime = now
          /\ \A u \in U!Names \ {t} : file'[u] = file[u]
      BY <1>0, <2>1, <3>1, FileIsPut
    <3>3. U!TypeOK'
      BY <1>0, <1>t, <2>1, <2>2, <3>1, <3>2
    <3>4. MarkerIsPast'
      BY <1>0, <2>1, <2>2 DEF BackupsInv, MarkerIsPast
    <3>5. ASSUME ~clash' PROVE OwnNames' /\ (\A e \in Dumpers : DumpOf(e)') /\ U!DumpSurvives'
      <4>1. ~clash
        BY <2>1, <3>5
      <4>2. OwnNames'
        BY <2>1, <2>2, <4>1 DEF BackupsInv, OwnNames
      <4>3. DumpOf(d)'
        BY <1>0, <2>1, <2>2, <3>2 DEF DumpOf
      <4>4. ASSUME NEW e \in Dumpers \ {d} PROVE DumpOf(e)'
        <5>1. DumpOf(e) /\ DumpOf(d) /\ OwnNames
          BY <4>1 DEF BackupsInv
        <5>2. dumper[e].pc = "idle" \/ dumper[e].name # t
          BY <1>0, <2>1, <5>1 DEF DumpOf, OwnNames, Dumps
        <5>3. QED
          BY <1>0, <2>1, <2>2, <3>2, <5>1, <5>2, ZenonT(30) DEF DumpOf
      <4>5. t \in U!Complete' /\ \A u \in U!Complete : u \in U!Complete'
        BY <2>1, <3>2 DEF U!Complete
      <4>6. U!DumpSurvives'
        BY <2>1, <4>1, <4>5 DEF BackupsInv, DumpSurvives, U!DumpSurvives
      <4>7. QED
        BY <4>2, <4>3, <4>4, <4>6
    <3>6. QED
      BY <3>3, <3>4, <3>5 DEF BackupsInv, DumpSurvives, U!DumpSurvives
  <2>5. QED
    BY <2>3, <2>4
<1>4. ASSUME NEW d \in Dumpers, U!Goto(d, "idle"), UNCHANGED <<now, file, taken, clash>>,
             kills' \in 0..MaxKills,
             marker' = marker \/ (d = Scheduled /\ dumper[d].pc = "dump" /\
                                  marker' = [status |-> "failed", name |-> dumper[d].name])
      PROVE  BackupsInv'
  <2>1. /\ dumper' \in [Dumpers -> Dumps]
        /\ dumper'[d].pc = "idle" /\ dumper'[d].name = dumper[d].name
        /\ \A e \in Dumpers \ {d} : dumper'[e] = dumper[e]
    BY <1>0, <1>4, DumperMoves
  <2>2. marker' \in [status : {"none", "ok", "failed"}, name : U!Names]
    BY <1>0, <1>4
  <2>3. U!TypeOK'
    BY <1>0, <1>4, <1>t, <2>1, <2>2
  <2>4. MarkerIsPast'
    <3>1. marker'.name <= now /\ \A e \in Dumpers : dumper'[e].name <= now
      BY <1>4, <2>1 DEF BackupsInv, MarkerIsPast
    <3>2. dumper'[Scheduled].pc # "idle" => d # Scheduled /\ marker' = marker
      BY <1>4, <2>1
    <3>3. dumper'[Scheduled].pc # "idle" => marker'.name <= dumper'[Scheduled].name
      BY <1>0, <2>1, <3>2 DEF BackupsInv, MarkerIsPast
    <3>4. QED
      BY <1>4, <3>1, <3>3 DEF MarkerIsPast
  <2>5. ASSUME ~clash PROVE OwnNames' /\ \A e \in Dumpers : DumpOf(e)'
    <3>1. OwnNames'
      BY <1>4, <2>1, <2>5 DEF BackupsInv, OwnNames
    <3>2. ASSUME NEW e \in Dumpers PROVE DumpOf(e)'
      BY <1>4, <2>1, <2>5 DEF BackupsInv, DumpOf
    <3>3. QED
      BY <3>1, <3>2
  <2>6. DumpSurvives'
    BY <1>4 DEF BackupsInv, DumpSurvives, U!DumpSurvives, U!Complete
  <2>7. QED
    BY <1>4, <2>3, <2>4, <2>5, <2>6 DEF BackupsInv
<1>5. ASSUME NEW d \in Dumpers, U!DumpFails(d) \/ U!Kill(d) PROVE BackupsInv'
  <2>1. kills' \in 0..MaxKills
    BY <1>0, <1>5 DEF U!DumpFails, U!Kill
  <2>2. QED
    BY <1>4, <1>5, <2>1 DEF U!DumpFails, U!Kill
<1>6. CASE U!Prune
  <2> DEFINE t == dumper[Scheduled].name
  <2>1. /\ dumper[Scheduled].pc = "prune" /\ U!Goto(Scheduled, "mark")
        /\ file' = U!Pruned /\ UNCHANGED <<now, marker, taken, clash, kills>>
        /\ t \in U!Names
    BY <1>0, <1>6 DEF U!Prune
  <2>2. /\ dumper' \in [Dumpers -> Dumps]
        /\ dumper'[Scheduled].pc = "mark" /\ dumper'[Scheduled].name = t
        /\ \A e \in Dumpers \ {Scheduled} : dumper'[e] = dumper[e]
    BY <1>0, <2>1, DumperMoves
  <2>3. /\ file' \in [U!Names -> Files]
        /\ \A u \in U!Names : ~U!Expired(u) => file'[u] = file[u]
    <3>1. U!Absent \in Files
      BY <1>0 DEF U!Absent, Files
    <3>2. QED
      BY <1>0, <2>1, <3>1 DEF U!Pruned
  <2>4. U!TypeOK'
    BY <1>0, <1>t, <2>1, <2>2, <2>3
  <2>5. MarkerIsPast'
    BY <1>0, <2>1, <2>2 DEF BackupsInv, MarkerIsPast
  <2>6. ASSUME ~clash' PROVE OwnNames' /\ (\A e \in Dumpers : DumpOf(e)') /\ U!DumpSurvives'
    <3>1. OwnNames /\ \A e \in Dumpers : DumpOf(e)
      BY <2>1, <2>6 DEF BackupsInv
    <3>2. file[t].state = "complete" /\ file'[t] = file[t]
      <4>1. file[t].state = "complete" /\ now - file[t].mtime <= Retention
        BY <1>0, <2>1, <3>1 DEF DumpOf
      <4>2. ~(now - file[t].mtime > Retention)
        <5>1. file[t].mtime \in Nat /\ now \in Nat /\ Retention \in Nat
          BY <1>0, <2>1
        <5>2. \A m, n, k \in Nat : n - m <= k => ~(n - m > k)
          OBVIOUS
        <5>3. QED
          BY <4>1, <5>1, <5>2
      <4>3. ~U!Expired(t)
        BY <4>2 DEF U!Expired
      <4>4. QED
        BY <2>1, <2>3, <4>1, <4>3
    <3>3. OwnNames'
      BY <2>1, <2>2, <3>1 DEF OwnNames
    <3>4. ASSUME NEW e \in Dumpers \ {Scheduled}, dumper[e].pc # "idle" PROVE DumpOf(e)'
      <4>1. dumper[e].pc = "dump"
        BY <1>0, <3>1, <3>4 DEF DumpOf, Dumps
      <4>2. e \in U!Writing(dumper[e].name)
        BY <4>1 DEF U!Writing
      <4>3. file'[dumper[e].name] = file[dumper[e].name]
        BY <1>0, <2>3, <4>2 DEF U!Expired
      <4>4. QED
        BY <2>2, <3>1, <4>1, <4>3 DEF DumpOf
    <3>5. ASSUME NEW e \in Dumpers PROVE DumpOf(e)'
      <4>1. DumpOf(Scheduled)'
        BY <1>0, <2>1, <2>2, <3>2 DEF DumpOf
      <4>2. ASSUME e # Scheduled, dumper[e].pc = "idle" PROVE DumpOf(e)'
        BY <2>2, <4>2 DEF DumpOf
      <4>3. QED
        BY <3>4, <4>1, <4>2
    <3>6. t \in U!Complete' /\ t >= marker'.name
      BY <1>0, <2>1, <3>2 DEF BackupsInv, MarkerIsPast, U!Complete
    <3>7. QED
      BY <3>3, <3>5, <3>6 DEF U!DumpSurvives
  <2>7. QED
    BY <2>4, <2>5, <2>6 DEF BackupsInv, DumpSurvives, U!DumpSurvives
<1>7. CASE U!WriteStatus
  <2> DEFINE t == dumper[Scheduled].name
  <2>1. /\ dumper[Scheduled].pc = "mark" /\ U!Goto(Scheduled, "idle")
        /\ marker' = [status |-> "ok", name |-> t]
        /\ UNCHANGED <<now, file, taken, clash, kills>> /\ t \in U!Names
    BY <1>0, <1>7 DEF U!WriteStatus
  <2>2. /\ dumper' \in [Dumpers -> Dumps]
        /\ dumper'[Scheduled].pc = "idle" /\ dumper'[Scheduled].name = t
        /\ \A e \in Dumpers \ {Scheduled} : dumper'[e] = dumper[e]
    BY <1>0, <2>1, DumperMoves
  <2>3. U!TypeOK'
    BY <1>0, <1>t, <2>1, <2>2
  <2>4. MarkerIsPast'
    BY <1>0, <2>1, <2>2 DEF BackupsInv, MarkerIsPast
  <2>5. ASSUME ~clash' PROVE OwnNames' /\ (\A e \in Dumpers : DumpOf(e)') /\ U!DumpSurvives'
    <3>1. OwnNames /\ (\A e \in Dumpers : DumpOf(e)) /\ U!DumpSurvives
      BY <2>1, <2>5 DEF BackupsInv, DumpSurvives
    <3>2. OwnNames'
      BY <2>1, <2>2, <3>1 DEF OwnNames
    <3>3. ASSUME NEW e \in Dumpers PROVE DumpOf(e)'
      BY <2>1, <2>2, <3>1 DEF DumpOf
    <3>4. t \in U!Complete' /\ t >= marker'.name
      <4>1. marker'.name = t /\ t \in Nat
        BY <1>0, <2>1
      <4>2. t \in U!Complete'
        BY <1>0, <2>1, <3>1 DEF DumpOf, U!Complete
      <4>3. QED
        BY <4>1, <4>2
    <3>5. QED
      BY <3>2, <3>3, <3>4 DEF U!DumpSurvives
  <2>6. QED
    BY <2>3, <2>4, <2>5 DEF BackupsInv, DumpSurvives, U!DumpSurvives
<1>8. CASE U!Tick
  <2>1. /\ now' = now + 1 /\ now < MaxTime
        /\ UNCHANGED <<file, dumper, marker, taken, clash, kills>>
        /\ dumper[Scheduled].pc = "prune" =>
              now - file[dumper[Scheduled].name].mtime < Retention
    BY <1>8 DEF U!Tick
  <2>2. now' \in U!Names
    BY <1>0, <2>1 DEF U!Names
  <2>3. U!TypeOK'
    BY <1>0, <1>t, <2>1, <2>2
  <2>4. MarkerIsPast'
    <3>1. marker.name \in Nat /\ \A d \in Dumpers : dumper[d].name \in Nat
      BY <1>0
    <3>2. QED
      BY <1>0, <2>1, <3>1 DEF BackupsInv, MarkerIsPast
  <2>5. ASSUME ~clash PROVE OwnNames' /\ \A e \in Dumpers : DumpOf(e)'
    <3>1. OwnNames'
      BY <2>1, <2>5 DEF BackupsInv, OwnNames
    <3>2. ASSUME NEW e \in Dumpers PROVE DumpOf(e)'
      <4>1. DumpOf(e) /\ file[dumper[e].name].mtime \in Nat
        BY <1>0, <2>5 DEF BackupsInv
      <4>2. dumper[e].pc = "prune" => now - file[dumper[e].name].mtime < Retention
        BY <2>1, <4>1 DEF DumpOf
      <4>3. dumper[e].pc = "prune" => now' - file[dumper[e].name].mtime <= Retention
        BY <1>0, <2>1, <4>1, <4>2
      <4>4. QED
        BY <2>1, <4>1, <4>3 DEF DumpOf
    <3>3. QED
      BY <3>1, <3>2
  <2>6. DumpSurvives'
    BY <2>1 DEF BackupsInv, DumpSurvives, U!DumpSurvives, U!Complete
  <2>7. QED
    BY <2>1, <2>3, <2>4, <2>5, <2>6 DEF BackupsInv
<1>9. QED
  BY <1>1, <1>2, <1>3, <1>5, <1>6, <1>7, <1>8 DEF U!Next

\* Unless two dumps meet in one second, there is a dump to restore from ever
\* after the first, and "ok" means the marked one or a newer: for any number of
\* requests beside the schedule, any retention, and whatever fails or is killed.
THEOREM DumpsSurvive == U!Spec => []DumpSurvives
<1>1. U!Init => BackupsInv
  BY BackupsInitial, PlatformAssumption
<1>2. BackupsInv /\ [U!Next]_(U!vars) => BackupsInv'
  BY BackupsInductive, PlatformAssumption
<1>3. BackupsInv => DumpSurvives
  BY DEF BackupsInv
<1>4. QED
  BY <1>1, <1>2, <1>3, PTL DEF U!Spec

-----------------------------------------------------------------------------
(* Exporting the audit log.                                                *)

Exports == [pc : {"idle", "rows", "answered", "done"}, page : Nat \ {0}, pages : Nat,
            total : Nat, all : SUBSET E!Entries]

AuditTypes ==
    /\ log \subseteq 1..last /\ inserts \subseteq 1..last /\ start \subseteq 1..last
    /\ last \in 0..MaxEntries /\ added \in Nat
    /\ export \in Exports /\ export.all \subseteq 1..last

\* An entry under way has not been in the log yet.
InsertsAreNew == inserts \cap (log \cup start \cup export.all) = {}

PagesRead == IF export.pc = "rows" THEN export.page - 1 ELSE export.page

\* An entry of the log at the beginning that the pages so far have missed is
\* further down than they reach, for entries are only ever added above or
\* pruned below it; and it is older than every entry that was read.
MissedIsBelow ==
    \A e \in E!Missed :
        /\ E!Rank(e) >= PagesRead * PageSize
        /\ \A f \in start \cap export.all : e < f

\* What the count query of the first page said.
CountedPages ==
    /\ export.total = Cardinality(start)
    /\ export.pc # "rows" => export.pages = E!PageCount(export.total)
    /\ export.pc = "done" => export.page >= export.pages
    /\ export.pc = "rows" /\ export.page # 1 => export.pages = E!PageCount(export.total)

AuditInv ==
    /\ AuditTypes /\ InsertsAreNew
    /\ export.pc # "idle" =>
        /\ MissedIsBelow /\ CountedPages
        /\ Cardinality(log \ start) <= added

Newer(x) == {f \in log : f > x}

\* A set of naturals up to a bound has a largest element.
LEMMA Largest ==
  ASSUME NEW X \in SUBSET Nat, X # {}, NEW n \in Nat, \A x \in X : x <= n
  PROVE  \E x \in X : \A y \in X : y <= x
<1> DEFINE Bounds == {m \in Nat : \A x \in X : x <= m}
           Less == {p \in Nat \X Nat : p[1] < p[2]}
<1>1. IsWellFoundedOn(Less, Nat)
  BY NatLessThanWellFounded DEF OpToRel
<1>2. Bounds \subseteq Nat /\ Bounds # {}
  OBVIOUS
<1> HIDE DEF Less, Bounds
<1>3. PICK m \in Bounds : \A k \in Bounds : ~(<<k, m>> \in Less)
  BY <1>1, <1>2, WFMin
<1>4. m \in Nat /\ \A x \in X : x <= m
  BY DEF Bounds
<1>5. \A k \in Bounds : ~(k < m)
  BY <1>2, <1>3, <1>4 DEF Less
<1>6. ASSUME m \notin X PROVE FALSE
  <2>1. \A x \in X : x <= m - 1 /\ m - 1 \in Nat
    BY <1>4, <1>6
  <2>2. m - 1 \in Bounds
    BY <2>1 DEF Bounds
  <2>3. QED
    BY <1>4, <1>5, <2>2
<1>7. QED
  BY <1>4, <1>6

\* Sets of entries are finite, and more of them count for more.
LEMMA EntriesFinite ==
  ASSUME NEW n \in Nat, NEW X \in SUBSET (1..n)
  PROVE  /\ IsFiniteSet(X) /\ Cardinality(X) \in Nat
         /\ \A Y \in SUBSET X : IsFiniteSet(Y) /\ Cardinality(Y) \in Nat
                                 /\ Cardinality(Y) <= Cardinality(X)
<1>1. IsFiniteSet(1..n)
  BY FS_Interval
<1>2. IsFiniteSet(X)
  BY <1>1, FS_Subset
<1>3. QED
  BY <1>2, FS_Subset, FS_CardinalityType

\* As many pages as the first one said hold everything it counted.
LEMMA PagesHoldAll ==
  ASSUME E!AuditAssumption, NEW n \in Nat, NEW k \in Nat, k >= E!PageCount(n)
  PROVE  k * PageSize >= n
<1>1. PageSize \in Nat /\ PageSize > 0
  BY DEF E!AuditAssumption
<1>2. CASE n = 0
  <2>1. \A a, b \in Nat : a * b \in Nat
    OBVIOUS
  <2>2. k * PageSize \in Nat
    BY <1>1, <2>1
  <2>3. QED
    BY <1>2, <2>2
<1>3. CASE n # 0
  <2> DEFINE q == (n + PageSize - 1) \div PageSize
  <2>1. k >= q /\ q \in Int
    BY <1>1, <1>3 DEF E!PageCount
  <2>2. q * PageSize >= n
    BY <1>1
  <2> HIDE DEF q
  <2>3. \A a, b, c \in Int : a >= b /\ c >= 0 => a * c >= b * c
    OBVIOUS
  <2>4. QED
    BY <1>1, <2>1, <2>2, <2>3
<1>4. QED
  BY <1>2, <1>3

\* The module that is an instance here has its own name for what sets count.
LEMMA SameCount == ASSUME NEW X PROVE E!Cardinality(X) = Cardinality(X)
BY DEF E!Cardinality, Cardinality, E!IsFiniteSet, IsFiniteSet

\* A rank counts the newer entries.
LEMMA RankIs ==
  ASSUME NEW x
  PROVE  E!Rank(x) = Cardinality(Newer(x)) /\ E!Rank(x)' = Cardinality(Newer(x)')
<1>1. E!Rank(x) = Cardinality(Newer(x))
  BY SameCount DEF E!Rank, Newer
<1>2. E!Rank(x)' = Cardinality(Newer(x)')
  BY SameCount DEF E!Rank, Newer
<1>3. QED
  BY <1>1, <1>2

\* Two sets that share nothing count for the sum.
LEMMA Disjoint ==
  ASSUME NEW X, NEW Y, IsFiniteSet(X), IsFiniteSet(Y), X \cap Y = {}
  PROVE  /\ IsFiniteSet(X \cup Y)
         /\ Cardinality(X \cup Y) = Cardinality(X) + Cardinality(Y)
<1>1. /\ IsFiniteSet(X \cup Y)
      /\ Cardinality(X \cup Y) = Cardinality(X) + Cardinality(Y) - Cardinality(X \cap Y)
  BY FS_Union
<1>2. Cardinality(X \cap Y) = 0
  BY FS_EmptySet
<1>3. Cardinality(X) \in Nat /\ Cardinality(Y) \in Nat
  BY FS_CardinalityType
<1>4. QED
  BY <1>1, <1>2, <1>3

\* The log shrinks from below or grows: nobody that stays sinks in rank.
LEMMA RankStays ==
  ASSUME NEW x, \A f \in log : f > x => f \in log', IsFiniteSet(log')
  PROVE  E!Rank(x) \in Nat /\ E!Rank(x)' \in Nat /\ E!Rank(x)' >= E!Rank(x)
<1>1. Newer(x) \subseteq Newer(x)' /\ Newer(x)' \subseteq log'
  BY DEF Newer
<1>2. IsFiniteSet(Newer(x)') /\ Cardinality(Newer(x)') \in Nat
  BY <1>1, FS_Subset, FS_CardinalityType
<1>3. /\ IsFiniteSet(Newer(x)) /\ Cardinality(Newer(x)) \in Nat
      /\ Cardinality(Newer(x)) <= Cardinality(Newer(x)')
  BY <1>1, <1>2, FS_Subset, FS_CardinalityType
<1>4. QED
  BY <1>2, <1>3, RankIs

\* Reading a page leaves unread what is below it.
LEMMA PageStep ==
  ASSUME E!AuditAssumption, AuditTypes, MissedIsBelow, export.pc = "rows",
         NEW e \in E!Missed, e \notin E!OnPage(export.page)
  PROVE  /\ E!Rank(e) >= export.page * PageSize
         /\ \A f \in start \cap (export.all \cup E!OnPage(export.page)) : e < f
<1> DEFINE k == export.page
<1>1. k \in Nat /\ e \in log /\ log \subseteq 1..last /\ last \in Nat /\ e \in Nat
  BY DEF AuditTypes, Exports, E!Missed
<1>2. E!Rank(e) >= (k - 1) * PageSize
  BY DEF MissedIsBelow, PagesRead
<1>3. ASSUME NEW x PROVE E!Rank(x) \in Nat
  <2>1. Newer(x) \in SUBSET (1..last)
    BY <1>1 DEF Newer
  <2>2. Cardinality(Newer(x)) \in Nat
    BY <1>1, <2>1, EntriesFinite
  <2>3. QED
    BY <2>2, RankIs
<1>4. PageSize \in Nat
  BY DEF E!AuditAssumption
<1>5. \A a, b \in Nat : a * b \in Nat
  OBVIOUS
<1>6. k * PageSize \in Nat
  BY <1>1, <1>4, <1>5
<1>7. E!Rank(e) >= k * PageSize
  <2>1. ~(E!Rank(e) < k * PageSize)
    BY <1>1, <1>2 DEF E!OnPage
  <2>2. QED
    BY <1>3, <1>6, <2>1
<1>8. ASSUME NEW f \in start \cap E!OnPage(k) PROVE e < f
  <2>1. f \in log /\ f \in Nat /\ E!Rank(f) < k * PageSize
    <3>1. f \in log /\ E!Rank(f) < k * PageSize
      BY DEF E!OnPage
    <3>2. \A x \in 1..last : x \in Nat
      BY <1>1
    <3>3. QED
      BY <1>1, <3>1, <3>2
  <2>2. ASSUME f <= e PROVE FALSE
    <3>0. \A g \in log : g \in Nat
      BY <1>1
    <3>1. Newer(e) \in SUBSET Newer(f)
      <4>1. \A g \in log : g > e => g > f
        BY <1>1, <2>1, <2>2, <3>0
      <4>2. QED
        BY <4>1 DEF Newer
    <3>2. Newer(f) \in SUBSET (1..last)
      BY <1>1 DEF Newer
    <3>3. Cardinality(Newer(e)) <= Cardinality(Newer(f))
      BY <1>1, <3>1, <3>2, EntriesFinite
    <3>4. E!Rank(e) <= E!Rank(f)
      BY <3>3, RankIs
    <3>5. QED
      BY <1>1, <1>3, <1>6, <1>7, <2>1, <3>4
  <2>3. QED
    BY <1>1, <2>1, <2>2
<1>9. QED
  BY <1>7, <1>8 DEF MissedIsBelow

\* At first there is nothing.
LEMMA AuditInitial == E!AuditAssumption /\ E!Init => AuditInv
<1> SUFFICES ASSUME E!AuditAssumption, E!Init PROVE AuditInv
  OBVIOUS
<1>1. E!NoExport \in Exports /\ E!NoExport.all = {} /\ E!NoExport.pc = "idle"
  BY DEF E!NoExport, Exports, E!Entries
<1>2. AuditTypes /\ InsertsAreNew
  BY <1>1 DEF E!Init, AuditTypes, InsertsAreNew, E!AuditAssumption
<1>3. QED
  BY <1>1, <1>2 DEF E!Init, AuditInv

\* Every step of the log and of the export keeps the invariant.
LEMMA AuditInductive == E!AuditAssumption /\ AuditInv /\ [E!Next]_(E!vars) => AuditInv'
<1> SUFFICES ASSUME E!AuditAssumption, AuditInv, [E!Next]_(E!vars) PROVE AuditInv'
  OBVIOUS
<1>0. /\ AuditTypes /\ InsertsAreNew
      /\ log \subseteq 1..last /\ inserts \subseteq 1..last /\ start \subseteq 1..last
      /\ last \in Nat /\ last <= MaxEntries /\ added \in Nat /\ MaxEntries \in Nat
      /\ export \in Exports /\ export.all \subseteq 1..last
  BY DEF AuditInv, AuditTypes, E!AuditAssumption
<1>i. /\ E!NoExport \in Exports /\ E!NoExport.all = {} /\ E!NoExport.pc = "idle"
      /\ E!NoExport.page = 1
  BY DEF E!NoExport, Exports, E!Entries
<1>ii. PagesRead * PageSize \in Nat
  <2>1. PagesRead \in Nat
    BY <1>0 DEF PagesRead, Exports
  <2>2. PageSize \in Nat
    BY DEF E!AuditAssumption
  <2>3. \A a, b \in Nat : a * b \in Nat
    OBVIOUS
  <2>4. QED
    BY <2>1, <2>2, <2>3
<1>1. ASSUME UNCHANGED <<log, export, start, added>>, AuditTypes', InsertsAreNew'
      PROVE  AuditInv'
  <2>1. \A e : E!Rank(e)' = E!Rank(e)
    <3>1. \A e : Newer(e)' = Newer(e)
      BY <1>1 DEF Newer
    <3>2. QED
      BY <3>1, RankIs
  <2>2. MissedIsBelow => MissedIsBelow'
    BY <1>1, <2>1 DEF MissedIsBelow, E!Missed, PagesRead
  <2>3. CountedPages => CountedPages'
    BY <1>1 DEF CountedPages, E!PageCount
  <2>4. QED
    BY <1>1, <2>2, <2>3 DEF AuditInv
<1>2. CASE UNCHANGED E!vars
  <2>1. AuditTypes' /\ InsertsAreNew'
    BY <1>0, <1>2 DEF E!vars, AuditTypes, InsertsAreNew
  <2>2. QED
    BY <1>1, <1>2, <2>1 DEF E!vars
<1>3. CASE E!LogEvent
  <2>1. AuditTypes' /\ InsertsAreNew'
    BY <1>0, <1>3 DEF E!LogEvent, AuditTypes, InsertsAreNew
  <2>2. QED
    BY <1>1, <1>3, <2>1 DEF E!LogEvent
<1>4. ASSUME NEW e \in E!Entries, E!InsertFails(e) PROVE AuditInv'
  <2>1. AuditTypes' /\ InsertsAreNew'
    BY <1>0, <1>4 DEF E!InsertFails, AuditTypes, InsertsAreNew
  <2>2. QED
    BY <1>1, <1>4, <2>1 DEF E!InsertFails
<1>5. ASSUME NEW e \in E!Entries, E!Commit(e) PROVE AuditInv'
  <2>1. /\ e \in inserts /\ inserts' = inserts \ {e} /\ log' = log \cup {e}
        /\ UNCHANGED <<last, export, start, errors>>
        /\ added' = IF export.pc = "idle" THEN 0 ELSE added + 1
        /\ e \notin log /\ e \notin start /\ e \notin export.all
    BY <1>0, <1>5 DEF E!Commit, InsertsAreNew
  <2>2. AuditTypes' /\ InsertsAreNew'
    BY <1>0, <2>1 DEF AuditTypes, InsertsAreNew
  <2>3. ASSUME export.pc # "idle"
        PROVE  MissedIsBelow' /\ CountedPages' /\ (Cardinality(log \ start) <= added)'
    <3>1. MissedIsBelow /\ CountedPages /\ Cardinality(log \ start) <= added
      BY <2>3 DEF AuditInv
    <3>2. E!Missed' = E!Missed
      BY <2>1 DEF E!Missed
    <3>3. PagesRead' * PageSize = PagesRead * PageSize /\ PagesRead * PageSize \in Nat
      <4>1. PagesRead' = PagesRead
        BY <2>1 DEF PagesRead
      <4>2. QED
        BY <1>0, <1>ii, <4>1
    <3>4. IsFiniteSet(log')
      BY <1>0, <2>1, EntriesFinite, FS_AddElement
    <3>5. ASSUME NEW x \in E!Missed PROVE E!Rank(x)' >= PagesRead' * PageSize
      <4>1. E!Rank(x) \in Nat /\ E!Rank(x)' \in Nat /\ E!Rank(x)' >= E!Rank(x)
        BY <1>0, <2>1, <3>4, RankStays DEF E!Missed
      <4>2. QED
        BY <3>1, <3>3, <4>1 DEF MissedIsBelow
    <3>6. MissedIsBelow'
      BY <2>1, <3>1, <3>2, <3>5 DEF MissedIsBelow
    <3>7. CountedPages'
      BY <2>1, <3>1 DEF CountedPages, E!PageCount
    <3>8. Cardinality((log \cup {e}) \ start) <= added + 1
      <4>1. (log \cup {e}) \ start = (log \ start) \cup {e} /\ e \notin log \ start
        BY <2>1
      <4>2. IsFiniteSet(log \ start) /\ Cardinality(log \ start) \in Nat
        BY <1>0, EntriesFinite
      <4>3. Cardinality((log \ start) \cup {e}) = Cardinality(log \ start) + 1
        BY <4>1, <4>2, FS_AddElement
      <4>4. QED
        BY <1>0, <3>1, <4>1, <4>2, <4>3
    <3>9. QED
      BY <2>1, <2>3, <3>6, <3>7, <3>8
  <2>4. QED
    BY <2>1, <2>2, <2>3 DEF AuditInv
<1>6. ASSUME NEW e \in E!Entries, E!Prune(e) PROVE AuditInv'
  <2>1. /\ log' = {f \in log : f > e} /\ e \in Nat
        /\ UNCHANGED <<inserts, last, export, start, added, errors>>
    BY <1>0, <1>6 DEF E!Prune, E!Entries
  <2>2. AuditTypes' /\ InsertsAreNew'
    BY <1>0, <2>1 DEF AuditTypes, InsertsAreNew
  <2>3. ASSUME export.pc # "idle"
        PROVE  MissedIsBelow' /\ CountedPages' /\ (Cardinality(log \ start) <= added)'
    <3>1. MissedIsBelow /\ CountedPages /\ Cardinality(log \ start) <= added
      BY <2>3 DEF AuditInv
    <3>2. /\ E!Missed' \subseteq E!Missed
          /\ \A x \in E!Missed' : x \in log /\ x \in log' /\ x > e /\ x \in Nat
      BY <1>0, <2>1 DEF E!Missed
    <3>3. PagesRead' * PageSize = PagesRead * PageSize /\ PagesRead * PageSize \in Nat
      <4>1. PagesRead' = PagesRead
        BY <2>1 DEF PagesRead
      <4>2. QED
        BY <1>0, <1>ii, <4>1
    <3>4. IsFiniteSet(log') /\ \A f \in log : f \in Nat
      <4>1. last \in Nat /\ log \in SUBSET (1..last) /\ log' \in SUBSET (1..last)
        BY <1>0, <2>1
      <4>2. IsFiniteSet(log')
        BY <4>1, EntriesFinite
      <4>3. QED
        BY <4>1, <4>2
    <3>5. ASSUME NEW x \in E!Missed' PROVE E!Rank(x)' >= PagesRead' * PageSize
      <4>1. \A f \in log : f > x => f \in log'
        BY <2>1, <3>2, <3>4
      <4>2. E!Rank(x) \in Nat /\ E!Rank(x)' \in Nat /\ E!Rank(x)' >= E!Rank(x)
        BY <1>0, <3>2, <3>4, <4>1, RankStays
      <4>3. QED
        BY <3>1, <3>2, <3>3, <4>2 DEF MissedIsBelow
    <3>6. MissedIsBelow'
      BY <2>1, <3>1, <3>2, <3>5 DEF MissedIsBelow
    <3>7. CountedPages'
      BY <2>1, <3>1 DEF CountedPages, E!PageCount
    <3>8. Cardinality(log' \ start) <= added
      <4>1. log' \ start \in SUBSET (log \ start) /\ log \ start \in SUBSET (1..last)
        BY <1>0, <2>1
      <4>2. /\ Cardinality(log' \ start) <= Cardinality(log \ start)
            /\ Cardinality(log' \ start) \in Nat /\ Cardinality(log \ start) \in Nat
        BY <1>0, <4>1, EntriesFinite
      <4>3. QED
        BY <1>0, <3>1, <4>2
    <3>9. QED
      BY <2>1, <3>6, <3>7, <3>8
  <2>4. QED
    BY <2>1, <2>2, <2>3 DEF AuditInv
<1>7. CASE E!Begin
  <2> DEFINE x == [E!NoExport EXCEPT !.pc = "rows", !.total = Cardinality(log)]
  <2>1. Cardinality(log) \in Nat
    BY <1>0, EntriesFinite
  <2>2. /\ x \in Exports /\ x.pc = "rows" /\ x.page = 1 /\ x.total = Cardinality(log)
        /\ x.all = {}
    BY <2>1, <1>i DEF Exports
  <2>3. /\ export' = x /\ start' = log /\ added' = 0
        /\ UNCHANGED <<log, inserts, last, errors>>
    BY <1>7, SameCount DEF E!Begin
  <2> HIDE DEF x
  <2>4. AuditTypes' /\ InsertsAreNew'
    BY <1>0, <2>2, <2>3 DEF AuditTypes, InsertsAreNew
  <2>5. MissedIsBelow'
    <3>1. PagesRead' = 0 /\ PageSize \in Nat
      BY <2>2, <2>3 DEF PagesRead, E!AuditAssumption
    <3>2. PagesRead' * PageSize = 0
      BY <3>1
    <3>3. ASSUME NEW e PROVE E!Rank(e)' >= PagesRead' * PageSize
      <4>1. Newer(e)' \in SUBSET (1..last)
        BY <1>0, <2>3 DEF Newer
      <4>2. Cardinality(Newer(e)') \in Nat
        BY <1>0, <4>1, EntriesFinite
      <4>3. QED
        BY <3>2, <4>2, RankIs
    <3>4. QED
      BY <2>2, <2>3, <3>3 DEF MissedIsBelow
  <2>6. CountedPages'
    BY <2>2, <2>3 DEF CountedPages
  <2>7. (Cardinality(log \ start) <= added)'
    <3>1. log' \ start' = {}
      BY <2>3
    <3>2. QED
      BY <2>3, <3>1, FS_EmptySet
  <2>8. QED
    BY <2>4, <2>5, <2>6, <2>7 DEF AuditInv
<1>8. CASE E!ReadPage
  <2> DEFINE page == E!OnPage(export.page)
             x == [export EXCEPT !.pc = "answered", !.all = @ \cup page,
                     !.pages = IF export.page = 1 THEN E!PageCount(export.total) ELSE @]
  <2>1. /\ export.pc = "rows" /\ UNCHANGED <<log, start, added, errors>>
        /\ export' = x
        /\ inserts' \subseteq inserts \cup {last + 1} /\ last' \in {last, last + 1}
        /\ last' = last => inserts' = inserts
        /\ last' <= MaxEntries
    BY <1>0, <1>8 DEF E!ReadPage
  <2>2. page \subseteq log /\ page \subseteq 1..last /\ page \subseteq E!Entries
    <3>1. page \subseteq log
      BY DEF E!OnPage
    <3>2. 1..last \subseteq E!Entries
      BY <1>0 DEF E!Entries
    <3> HIDE DEF page
    <3>3. QED
      BY <1>0, <3>1, <3>2
  <2>3. E!PageCount(export.total) \in Nat
    BY <1>0 DEF E!PageCount, Exports, E!AuditAssumption
  <2>4. /\ x \in Exports /\ x.pc = "answered" /\ x.page = export.page
        /\ x.all = export.all \cup page /\ x.total = export.total
        /\ x.pages = IF export.page = 1 THEN E!PageCount(export.total) ELSE export.pages
    <3> HIDE DEF page
    <3>1. QED
      BY <1>0, <2>2, <2>3 DEF Exports
  <2> HIDE DEF x, page
  <2>5. AuditTypes' /\ InsertsAreNew'
    <3>1. 1..last \subseteq 1..last' /\ last' \in 0..MaxEntries
      BY <1>0, <2>1
    <3>2. inserts' \subseteq 1..last' /\ inserts' \cap (log \cup start \cup export.all) = {}
      <4>1. CASE last' = last
        BY <1>0, <2>1, <4>1 DEF InsertsAreNew
      <4>2. CASE last' = last + 1
        <5>1. last + 1 \in 1..last' /\ last + 1 \notin 1..last
          BY <1>0, <4>2
        <5>2. inserts' \cap 1..last \subseteq inserts
          BY <2>1, <5>1
        <5>3. QED
          BY <1>0, <2>1, <3>1, <5>1 DEF InsertsAreNew
      <4>3. QED
        BY <2>1, <4>1, <4>2
    <3>3. AuditTypes'
      BY <1>0, <2>1, <2>2, <2>4, <3>1, <3>2 DEF AuditTypes
    <3>4. InsertsAreNew'
      BY <2>1, <2>2, <2>4, <3>2 DEF InsertsAreNew
    <3>5. QED
      BY <3>3, <3>4
  <2>6. MissedIsBelow /\ CountedPages /\ Cardinality(log \ start) <= added
    BY <2>1 DEF AuditInv
  <2>7. MissedIsBelow'
    <3>1. PagesRead' = export.page
      BY <2>1, <2>4 DEF PagesRead
    <3>2. ASSUME NEW e \in E!Missed'
          PROVE  /\ E!Rank(e)' >= export.page * PageSize
                 /\ \A f \in start' \cap export'.all : e < f
      <4>1. e \in E!Missed /\ e \notin page
        BY <2>1, <2>4, <3>2 DEF E!Missed
      <4>2. /\ E!Rank(e) >= export.page * PageSize
            /\ \A f \in start \cap (export.all \cup page) : e < f
        BY <1>0, <2>1, <2>6, <4>1, PageStep DEF page
      <4>3. Newer(e)' = Newer(e)
        BY <2>1 DEF Newer
      <4>4. QED
        BY <2>1, <2>4, <4>2, <4>3, RankIs
    <3>3. QED
      BY <3>1, <3>2 DEF MissedIsBelow
  <2>8. CountedPages'
    BY <2>1, <2>4, <2>6 DEF CountedPages, E!PageCount
  <2>9. QED
    BY <2>1, <2>5, <2>6, <2>7, <2>8 DEF AuditInv
<1>9. CASE E!NextPage
  <2>1. /\ export.pc = "answered" /\ UNCHANGED <<log, inserts, last, start, added, errors>>
        /\ MissedIsBelow /\ CountedPages /\ Cardinality(log \ start) <= added
    BY <1>9 DEF E!NextPage, AuditInv
  <2>2. /\ export' \in Exports /\ export'.all = export.all /\ export'.total = export.total
        /\ export'.pages = export.pages /\ PagesRead' = export.page
        /\ \/ export'.pc = "rows"
           \/ export'.pc = "done" /\ export'.page = export.page /\ export.page >= export.pages
    <3>1. export.page \in Nat \ {0} /\ export.pages \in Nat
      BY <1>0 DEF Exports
    <3>2. CASE export.page < export.pages
      <4>1. export' = [export EXCEPT !.page = @ + 1, !.pc = "rows"]
        BY <1>9, <3>2 DEF E!NextPage
      <4> DEFINE n == export.page + 1
      <4>n. n \in Nat \ {0} /\ n - 1 = export.page
        BY <3>1
      <4>0. export' = [export EXCEPT !.page = n, !.pc = "rows"]
        BY <4>1
      <4> HIDE DEF n
      <4>2. /\ export' \in Exports /\ export'.pc = "rows" /\ export'.page = n
            /\ export'.all = export.all /\ export'.total = export.total
            /\ export'.pages = export.pages
        BY <1>0, <4>0, <4>n DEF Exports
      <4>3. QED
        BY <4>2, <4>n DEF PagesRead
    <3>3. CASE ~(export.page < export.pages)
      <4>1. export' = [export EXCEPT !.pc = "done"]
        BY <1>9, <3>3 DEF E!NextPage
      <4>2. QED
        BY <1>0, <3>1, <3>3, <4>1 DEF Exports, PagesRead
    <3>4. QED
      BY <3>2, <3>3
  <2>3. AuditTypes' /\ InsertsAreNew'
    BY <1>0, <2>1, <2>2 DEF AuditTypes, InsertsAreNew
  <2>4. MissedIsBelow'
    <3>1. E!Missed' = E!Missed /\ \A e : E!Rank(e)' = E!Rank(e)
      <4>1. \A e : Newer(e)' = Newer(e)
        BY <2>1 DEF Newer
      <4>2. QED
        BY <2>1, <2>2, <4>1, RankIs DEF E!Missed
    <3>2. PagesRead' * PageSize = PagesRead * PageSize
      BY <2>1, <2>2 DEF PagesRead
    <3>3. QED
      BY <2>1, <2>2, <3>1, <3>2 DEF MissedIsBelow
  <2>5. CountedPages'
    BY <2>1, <2>2 DEF CountedPages, E!PageCount
  <2>6. QED
    BY <2>1, <2>3, <2>4, <2>5 DEF AuditInv
<1>10. CASE E!ExportFails \/ E!Download
  <2>1. export' = E!NoExport /\ UNCHANGED <<log, inserts, last, start, added>>
    BY <1>10 DEF E!ExportFails, E!Download
  <2>2. AuditTypes' /\ InsertsAreNew'
    BY <1>0, <1>i, <2>1 DEF AuditTypes, InsertsAreNew
  <2>3. QED
    BY <1>i, <2>1, <2>2 DEF AuditInv
<1>11. QED
  BY <1>2, <1>3, <1>4, <1>5, <1>6, <1>7, <1>8, <1>9, <1>10 DEF E!Next

\* Errors are bounded, and so are the entries.
AuditLimits == errors \in 0..MaxErrors

\* A step of the export keeps its counters within their bounds.
LEMMA AuditStaysWithin ==
    /\ E!AuditAssumption /\ E!Init => AuditLimits
    /\ E!AuditAssumption /\ AuditLimits /\ [E!Next]_(E!vars) => AuditLimits'
<1>1. E!AuditAssumption /\ E!Init => AuditLimits
  BY DEF E!AuditAssumption, E!Init, AuditLimits
<1>2. ASSUME E!AuditAssumption, AuditLimits, [E!Next]_(E!vars) PROVE AuditLimits'
  <2>1. errors' = errors \/ (errors < MaxErrors /\ errors' = errors + 1)
    BY <1>2 DEF E!Next, E!vars, E!LogEvent, E!Commit, E!InsertFails, E!Prune, E!Begin,
         E!ReadPage, E!NextPage, E!ExportFails, E!Download
  <2>2. QED
    BY <1>2, <2>1 DEF E!AuditAssumption, AuditLimits
<1>3. QED
  BY <1>1, <1>2

\* The variables of the export keep their types.
LEMMA AuditTyped == E!AuditAssumption /\ AuditInv /\ AuditLimits => E!TypeOK
<1> SUFFICES ASSUME E!AuditAssumption, AuditInv, AuditLimits PROVE E!TypeOK
  OBVIOUS
<1>1. 1..last \subseteq E!Entries
  BY DEF AuditInv, AuditTypes, E!Entries, E!AuditAssumption
<1>2. QED
  BY <1>1 DEF AuditInv, AuditTypes, Exports, AuditLimits, E!TypeOK

\* What was counted and what is missed add up when the last page has been read.
LEMMA AuditNewest == AuditInv => ExportIsNewest
<1> SUFFICES ASSUME AuditInv, export.pc = "done"
             PROVE  /\ \A e \in E!Missed, f \in start \cap export.all : e < f
                    /\ Cardinality(E!Missed) <= added
  BY SameCount, Zenon DEF ExportIsNewest, E!ExportIsNewest
<1>1. /\ log \subseteq 1..last /\ start \subseteq 1..last /\ last \in Nat /\ added \in Nat
      /\ MissedIsBelow /\ CountedPages /\ Cardinality(log \ start) <= added
      /\ export.page \in Nat /\ export.total \in Nat
  BY DEF AuditInv, AuditTypes, Exports
<1>2. E!Missed \subseteq start /\ E!Missed \subseteq log /\ E!Missed \subseteq 1..last
  BY <1>1 DEF E!Missed
<1>3. CASE E!Missed = {}
  BY <1>1, <1>3, FS_EmptySet
<1>4. CASE E!Missed # {}
  <2>1. PICK e \in E!Missed : \A g \in E!Missed : g <= e
    <3>1. E!Missed \in SUBSET Nat /\ \A g \in E!Missed : g <= last
      BY <1>1, <1>2
    <3>2. QED
      BY <1>1, <1>4, <3>1, Largest
  <2> DEFINE newer == Newer(e)
             both == newer \cap start
  <2>2. E!Rank(e) = Cardinality(newer) /\ Cardinality(newer) >= Cardinality(start)
    <3>1. E!Rank(e) >= export.page * PageSize
      BY <1>1, <2>1 DEF MissedIsBelow, PagesRead
    <3>2. export.page * PageSize >= Cardinality(start)
      <4>1. export.page >= E!PageCount(export.total) /\ export.total = Cardinality(start)
        BY <1>1 DEF CountedPages
      <4>2. QED
        BY <1>1, <4>1, PagesHoldAll, PlatformAssumption
    <3>3. /\ Cardinality(newer) \in Nat /\ Cardinality(start) \in Nat
          /\ PageSize \in Nat
      <4>1. newer \in SUBSET (1..last) /\ start \in SUBSET (1..last)
        BY <1>1 DEF Newer
      <4>2. QED
        BY <1>1, <4>1, EntriesFinite, PlatformAssumption DEF E!AuditAssumption
    <3>4. \A a, b \in Nat : a * b \in Nat
      OBVIOUS
    <3>5. export.page * PageSize \in Nat
      BY <1>1, <3>3, <3>4
    <3>6. E!Rank(e) = Cardinality(newer)
      BY RankIs
    <3>7. QED
      BY <3>1, <3>2, <3>3, <3>5, <3>6
  <2>3. /\ IsFiniteSet(newer) /\ IsFiniteSet(both) /\ IsFiniteSet(log \ start)
        /\ IsFiniteSet(E!Missed) /\ IsFiniteSet(start)
        /\ Cardinality(newer) \in Nat /\ Cardinality(both) \in Nat
        /\ Cardinality(log \ start) \in Nat /\ Cardinality(E!Missed) \in Nat
        /\ Cardinality(start) \in Nat
    <3>1. /\ newer \in SUBSET (1..last) /\ both \in SUBSET (1..last)
          /\ log \ start \in SUBSET (1..last)
      BY <1>1 DEF Newer
    <3> HIDE DEF newer, both
    <3>2. QED
      BY <1>1, <1>2, <3>1, EntriesFinite
  <2>4. Cardinality(newer) <= Cardinality(both) + Cardinality(log \ start)
    <3>1. newer \in SUBSET (both \cup (log \ start)) /\ both \cap (log \ start) = {}
      BY DEF Newer
    <3> DEFINE rest == log \ start
    <3> HIDE DEF newer, both, rest
    <3>r. IsFiniteSet(rest) /\ Cardinality(rest) \in Nat /\ both \cap rest = {}
      BY <2>3, <3>1 DEF rest
    <3>2. /\ IsFiniteSet(both \cup rest)
          /\ Cardinality(both \cup rest) = Cardinality(both) + Cardinality(rest)
      BY <2>3, <3>r, Disjoint
    <3>3. newer \in SUBSET (both \cup rest)
      BY <3>1 DEF rest
    <3>4. QED
      BY <3>2, <3>3, FS_Subset DEF rest
  <2>5. Cardinality(both) + Cardinality(E!Missed) <= Cardinality(start)
    <3>1. both \cup E!Missed \in SUBSET start /\ both \cap E!Missed = {}
      <4>1. \A g \in both : g > e
        BY DEF Newer
      <4>2. \A g \in E!Missed : g <= e /\ g \in Nat
        BY <1>1, <1>2, <2>1
      <4>3. \A g \in both : g \notin E!Missed
        <5> SUFFICES ASSUME NEW g \in both, g \in E!Missed PROVE FALSE
          OBVIOUS
        <5>1. g > e /\ g <= e /\ g \in Nat /\ e \in Nat
          BY <4>1, <4>2, <2>1
        <5>2. QED
          BY <5>1
      <4>4. QED
        BY <1>2, <4>3
    <3> HIDE DEF newer, both
    <3>2. Cardinality(both \cup E!Missed) = Cardinality(both) + Cardinality(E!Missed)
      BY <2>3, <3>1, Disjoint
    <3>3. Cardinality(both \cup E!Missed) <= Cardinality(start)
      BY <2>3, <3>1, FS_Subset
    <3>4. QED
      BY <3>2, <3>3
  <2>6. Cardinality(E!Missed) <= added
    <3> HIDE DEF newer, both
    <3>1. QED
      BY <1>1, <2>2, <2>3, <2>4, <2>5
  <2>7. QED
    BY <1>1, <2>6 DEF MissedIsBelow
<1>5. QED
  BY <1>3, <1>4

\* What the file lacks of the log at the beginning are its oldest entries, and
\* no more of them than were committed meanwhile: for every page size, however
\* entries commit late or out of order and are pruned while pages are read.
THEOREM ExportsAreNewest == E!Spec => []ExportIsNewest
<1>1. E!Init => AuditInv
  BY AuditInitial, PlatformAssumption
<1>2. AuditInv /\ [E!Next]_(E!vars) => AuditInv'
  BY AuditInductive, PlatformAssumption
<1>3. QED
  BY <1>1, <1>2, AuditNewest, PTL DEF E!Spec

-----------------------------------------------------------------------------
(* Sequences.                                                              *)

\* A sequence without its last element.
LEMMA Shorter ==
    ASSUME NEW X, NEW s \in Seq(X), s # <<>>
    PROVE  /\ Len(s) \in Nat \ {0} /\ s[Len(s)] \in X
           /\ SubSeq(s, 1, Len(s) - 1) \in Seq(X)
           /\ Len(SubSeq(s, 1, Len(s) - 1)) = Len(s) - 1
           /\ \A i \in 1..Len(s) - 1 : SubSeq(s, 1, Len(s) - 1)[i] = s[i]
<1>1. Len(s) \in Nat \ {0}
  BY EmptySeq
<1>2. \A i \in 1..Len(s) : s[i] \in X
  BY ElementOfSeq
<1>3. s[Len(s)] \in X /\ \A i \in 1..Len(s) - 1 : s[i] \in X
  BY <1>1, <1>2
<1>4. PICK n \in Nat : n = Len(s) - 1
  BY <1>1
<1>5. \A i \in 1..n : s[i] \in X
  BY <1>3, <1>4
<1>6. /\ SubSeq(s, 1, n) \in Seq(X) /\ Len(SubSeq(s, 1, n)) = n
      /\ \A i \in 1..n : SubSeq(s, 1, n)[i] = s[i]
  BY <1>5, SubSeqProperties
<1>7. QED
  BY <1>1, <1>3, <1>4, <1>6

\* A sequence without its i-th element.
Without(s, i) == SubSeq(s, 1, i - 1) \o SubSeq(s, i + 1, Len(s))
\* What is left of a sequence without one of its positions.
LEMMA Removed ==
    ASSUME NEW X, NEW s \in Seq(X), NEW i \in 1..Len(s)
    PROVE  /\ Without(s, i) \in Seq(X)
           /\ Len(s) \in Nat \ {0} /\ Len(Without(s, i)) = Len(s) - 1
           /\ \A j \in 1..Len(s) - 1 : Without(s, i)[j] = IF j < i THEN s[j] ELSE s[j + 1]
<1> DEFINE front == SubSeq(s, 1, i - 1)
           back == SubSeq(s, i + 1, Len(s))
<1>1. Len(s) \in Nat \ {0} /\ i \in Nat
  BY LenProperties
<1>2. \A j \in 1..Len(s) : s[j] \in X
  BY ElementOfSeq
<1>3. /\ front \in Seq(X) /\ Len(front) = i - 1
      /\ \A j \in 1..i - 1 : front[j] = s[j]
  BY <1>1, <1>2, SubSeqProperties
<1>4. /\ back \in Seq(X) /\ Len(back) = Len(s) - i
      /\ \A j \in 1..Len(s) - i : back[j] = s[i + j]
  <2>1. \A j \in i + 1..Len(s) : s[j] \in X
    BY <1>1, <1>2
  <2>2. /\ back \in Seq(X)
        /\ Len(back) = IF i + 1 <= Len(s) THEN Len(s) - (i + 1) + 1 ELSE 0
        /\ \A j \in 1..Len(s) - (i + 1) + 1 : back[j] = s[i + 1 + j - 1]
    BY <1>1, <2>1, SubSeqProperties
  <2>3. QED
    BY <1>1, <2>2
<1> HIDE DEF front, back
<1>5. /\ front \o back \in Seq(X) /\ Len(front \o back) = Len(s) - 1
      /\ \A j \in 1..Len(s) - 1 : (front \o back)[j] =
            IF j <= i - 1 THEN front[j] ELSE back[j - (i - 1)]
  <2>1. /\ front \o back \in Seq(X) /\ Len(front \o back) = Len(front) + Len(back)
        /\ \A j \in 1..Len(front) + Len(back) : (front \o back)[j] =
              IF j <= Len(front) THEN front[j] ELSE back[j - Len(front)]
    BY <1>3, <1>4, ConcatProperties
  <2>2. Len(front) = i - 1 /\ Len(front) + Len(back) = Len(s) - 1
    BY <1>1, <1>3, <1>4
  <2>3. QED
    BY <2>1, <2>2
<1>6. Without(s, i) = front \o back
  BY DEF Without, front, back
<1>7. ASSUME NEW j \in 1..Len(s) - 1
      PROVE  (front \o back)[j] = IF j < i THEN s[j] ELSE s[j + 1]
  <2>1. CASE j < i
    BY <1>1, <1>3, <1>5, <2>1
  <2>2. CASE ~(j < i)
    <3>1. j - (i - 1) \in 1..Len(s) - i /\ i + (j - (i - 1)) = j + 1 /\ ~(j <= i - 1)
      BY <1>1, <2>2
    <3>2. QED
      BY <1>4, <1>5, <2>2, <3>1
  <2>3. QED
    BY <2>1, <2>2
<1>8. QED
  BY <1>1, <1>5, <1>6, <1>7

-----------------------------------------------------------------------------
(* What the three sections of the menu have in common: Section, with any   *)
(* set R of lists a read may bring and any set Cs of other requests.       *)

Refused == 0 - 1

\* Of a request when the rows are at version v: the first version is nobody's write.
AnswerVersions(v) == (Refused..v) \ {1}

ListSame == UNCHANGED <<list, reads, listing, order>>

SectionTyped(R, Cs, limit, writes) ==
    /\ held \in R /\ held.version \in 1..writes
    /\ list \in R /\ list.version \in 0..held.version
    /\ reads \in Seq(R) /\ \A i \in 1..Len(reads) : reads[i].version \in 0..held.version
    /\ calls \in Seq(Cs) /\ \A i \in 1..Len(calls) : calls[i].version \in AnswerVersions(held.version)
    /\ Len(calls) <= limit /\ Len(calls) + Len(reads) <= limit + 1
    /\ told \in 0..held.version /\ order \in {"pending", "last", "overtaken"}

\* The read begun last brings whatever the section was told of, and once it has
\* ended, the list has it, until another read ends.
SectionCurrent ==
    /\ reads = <<>> => ~listing
    /\ order = "pending" =>
        /\ Len(reads) > 0
        /\ reads[Len(reads)].version = 0 \/ reads[Len(reads)].version >= told
    /\ order = "last" => list.version = 0 \/ list.version >= told

SectionInv(R, Cs, limit, writes) ==
    SectionTyped(R, Cs, limit, writes) /\ listing \in BOOLEAN /\ SectionCurrent

\* What a list and a request look like.
SectionSets(R, Cs, unread, writes) ==
    /\ unread \in R /\ unread.version = 0
    /\ \A c \in Cs :
        /\ [c EXCEPT !.here = FALSE] \in Cs /\ [c EXCEPT !.here = FALSE].version = c.version
        /\ \A v \in Refused..writes :
             [c EXCEPT !.version = v] \in Cs /\ [c EXCEPT !.version = v].version = v

\* The list is left alone, the server's rows may be written, and the requests are
\* what the new state says.
LEMMA ListSameKept ==
    ASSUME NEW R, NEW Cs, NEW limit \in Nat, NEW writes \in Nat,
           SectionInv(R, Cs, limit, writes), ListSame, told' = told,
           held' \in R, held'.version \in held.version..writes,
           calls' \in Seq(Cs), Len(calls') <= limit, Len(calls') + Len(reads) <= limit + 1,
           \A i \in 1..Len(calls') : calls'[i].version \in AnswerVersions(held'.version)
    PROVE  SectionInv(R, Cs, limit, writes)'
<1>1. SectionTyped(R, Cs, limit, writes)'
  <2>1. held.version \in Nat /\ held'.version \in Nat /\ held.version <= held'.version
        /\ held'.version \in 1..writes
    BY DEF SectionInv, SectionTyped
  <2>2. \A v \in 0..held.version : v \in 0..held'.version
    BY <2>1
  <2>3. QED
    BY <2>1, <2>2 DEF SectionInv, SectionTyped, ListSame
<1>2. (listing \in BOOLEAN)' /\ SectionCurrent'
  BY DEF SectionInv, SectionCurrent, ListSame
<1>3. QED
  BY <1>1, <1>2 DEF SectionInv

\* A request is sent.
LEMMA SentKept ==
    ASSUME NEW R, NEW Cs, NEW limit \in Nat, NEW writes \in Nat,
           SectionInv(R, Cs, limit, writes), ListSame, told' = told, held' = held,
           NEW call \in Cs, call.version = 0,
           Len(calls) + Len(reads) < limit, calls' = Append(calls, call)
    PROVE  SectionInv(R, Cs, limit, writes)'
<1>1. /\ held \in R /\ held.version \in 1..writes /\ calls \in Seq(Cs) /\ reads \in Seq(R)
      /\ \A i \in 1..Len(calls) : calls[i].version \in AnswerVersions(held.version)
  BY DEF SectionInv, SectionTyped
<1>2. Len(calls) \in Nat /\ Len(reads) \in Nat
  BY <1>1, LenProperties
<1>3. /\ calls' \in Seq(Cs) /\ Len(calls') = Len(calls) + 1
      /\ \A i \in 1..Len(calls) : calls'[i] = calls[i]
      /\ calls'[Len(calls) + 1] = call
  BY <1>1, AppendProperties
<1>4. ASSUME NEW i \in 1..Len(calls') PROVE calls'[i].version \in AnswerVersions(held'.version)
  <2>1. CASE i = Len(calls) + 1
    BY <1>1, <1>3, <2>1 DEF AnswerVersions, Refused
  <2>2. CASE i \in 1..Len(calls)
    BY <1>1, <1>3, <2>2
  <2>3. QED
    BY <1>2, <1>3, <2>1, <2>2
<1>5. held' \in R /\ held'.version \in held.version..writes
  BY <1>1
<1>6. Len(calls') <= limit /\ Len(calls') + Len(reads) <= limit + 1
  BY <1>2, <1>3
<1>7. QED
  BY <1>3, <1>4, <1>5, <1>6, ListSameKept

\* The server has done with a request.
LEMMA ServedKept ==
    ASSUME NEW R, NEW Cs, NEW unread, NEW limit \in Nat, NEW writes \in Nat,
           SectionSets(R, Cs, unread, writes),
           SectionInv(R, Cs, limit, writes), ListSame, told' = told,
           held' \in R, held'.version \in held.version..writes,
           NEW i \in 1..Len(calls), NEW v \in AnswerVersions(held'.version),
           calls' = [calls EXCEPT ![i].version = v]
    PROVE  SectionInv(R, Cs, limit, writes)'
<1>1. /\ held.version \in 1..writes /\ calls \in Seq(Cs) /\ reads \in Seq(R)
      /\ \A j \in 1..Len(calls) : calls[j].version \in AnswerVersions(held.version)
      /\ Len(calls) <= limit /\ Len(calls) + Len(reads) <= limit + 1
  BY DEF SectionInv, SectionTyped
<1>2. calls[i] \in Cs
  BY <1>1, ElementOfSeq
<1>3. v \in Refused..writes
  BY <1>1 DEF AnswerVersions, Refused
<1>4. [calls[i] EXCEPT !.version = v] \in Cs /\ [calls[i] EXCEPT !.version = v].version = v
  BY <1>2, <1>3 DEF SectionSets
<1>5. calls' = [calls EXCEPT ![i] = [calls[i] EXCEPT !.version = v]]
  BY <1>1, LenProperties
<1>6. /\ calls' \in Seq(Cs) /\ Len(calls') = Len(calls)
      /\ \A j \in 1..Len(calls) : calls'[j] = IF j = i THEN [calls[i] EXCEPT !.version = v] ELSE calls[j]
  BY <1>1, <1>4, <1>5, ExceptSeq
<1>7. ASSUME NEW j \in 1..Len(calls') PROVE calls'[j].version \in AnswerVersions(held'.version)
  <2>1. CASE j = i
    BY <1>4, <1>6, <2>1
  <2>2. CASE j # i
    <3>1. calls'[j] = calls[j] /\ calls[j].version \in AnswerVersions(held.version)
      BY <1>1, <1>6, <2>2
    <3>2. /\ held.version \in Int /\ held'.version \in Int /\ held.version <= held'.version
      BY <1>1
    <3>3. \A m, n \in Int : m <= n => AnswerVersions(m) \subseteq AnswerVersions(n)
      BY DEF AnswerVersions, Refused
    <3>4. QED
      BY <3>1, <3>2, <3>3
  <2>3. QED
    BY <2>1, <2>2
<1>8. QED
  BY <1>1, <1>6, <1>7, ListSameKept

\* A request is forgotten.
LEMMA Dropped ==
    ASSUME NEW R, NEW Cs, NEW limit \in Nat, NEW writes \in Nat,
           SectionInv(R, Cs, limit, writes),
           NEW i \in 1..Len(calls), calls' = Without(calls, i)
    PROVE  /\ calls' \in Seq(Cs) /\ Len(calls) \in Nat \ {0} /\ Len(calls') = Len(calls) - 1
           /\ \A j \in 1..Len(calls') : calls'[j].version \in AnswerVersions(held.version)
<1>1. /\ calls \in Seq(Cs)
      /\ \A j \in 1..Len(calls) : calls[j].version \in AnswerVersions(held.version)
  BY DEF SectionInv, SectionTyped
<1>2. /\ calls' \in Seq(Cs) /\ Len(calls) \in Nat \ {0} /\ Len(calls') = Len(calls) - 1
      /\ \A j \in 1..Len(calls) - 1 : calls'[j] = IF j < i THEN calls[j] ELSE calls[j + 1]
  BY <1>1, Removed
<1>3. ASSUME NEW j \in 1..Len(calls') PROVE calls'[j].version \in AnswerVersions(held.version)
  <2>1. j \in 1..Len(calls) - 1 /\ j \in 1..Len(calls) /\ j + 1 \in 1..Len(calls)
    BY <1>2
  <2>2. calls'[j] = calls[j] \/ calls'[j] = calls[j + 1]
    BY <1>2, <2>1
  <2>3. QED
    BY <1>1, <2>1, <2>2
<1>4. QED
  BY <1>2, <1>3

\* A request fails.
LEMMA DroppedKept ==
    ASSUME NEW R, NEW Cs, NEW limit \in Nat, NEW writes \in Nat,
           SectionInv(R, Cs, limit, writes), ListSame, told' = told, held' = held,
           NEW i \in 1..Len(calls), calls' = Without(calls, i)
    PROVE  SectionInv(R, Cs, limit, writes)'
<1>1. /\ held \in R /\ held.version \in 1..writes /\ reads \in Seq(R)
      /\ Len(calls) <= limit /\ Len(calls) + Len(reads) <= limit + 1
  BY DEF SectionInv, SectionTyped
<1>2. /\ calls' \in Seq(Cs) /\ Len(calls) \in Nat \ {0} /\ Len(calls') = Len(calls) - 1
      /\ \A j \in 1..Len(calls') : calls'[j].version \in AnswerVersions(held.version)
  BY Dropped
<1>3. Len(calls') <= limit /\ Len(calls') + Len(reads) <= limit + 1
  BY <1>1, <1>2, LenProperties
<1>4. held' \in R /\ held'.version \in held.version..writes
  BY <1>1
<1>5. QED
  BY <1>2, <1>3, <1>4, ListSameKept

\* A request is acknowledged: the list is read again.
LEMMA AcknowledgedKept ==
    ASSUME NEW R, NEW Cs, NEW unread, NEW limit \in Nat, NEW writes \in Nat,
           SectionSets(R, Cs, unread, writes), SectionInv(R, Cs, limit, writes),
           held' = held, list' = list, NEW i \in 1..Len(calls), calls' = Without(calls, i),
           told' \in {told, calls[i].version}, calls[i].version > 0,
           reads' = Append(reads, unread), listing' = TRUE, order' = "pending"
    PROVE  SectionInv(R, Cs, limit, writes)'
<1>1. /\ held \in R /\ held.version \in 1..writes
      /\ list \in R /\ list.version \in 0..held.version
      /\ reads \in Seq(R) /\ \A j \in 1..Len(reads) : reads[j].version \in 0..held.version
      /\ calls[i].version \in AnswerVersions(held.version)
      /\ Len(calls) <= limit /\ Len(calls) + Len(reads) <= limit + 1
      /\ told \in 0..held.version
  BY DEF SectionInv, SectionTyped
<1>2. /\ calls' \in Seq(Cs) /\ Len(calls) \in Nat \ {0} /\ Len(calls') = Len(calls) - 1
      /\ \A j \in 1..Len(calls') : calls'[j].version \in AnswerVersions(held.version)
  BY Dropped
<1>3. unread \in R /\ unread.version = 0
  BY DEF SectionSets
<1>4. /\ reads' \in Seq(R) /\ Len(reads') = Len(reads) + 1 /\ Len(reads) \in Nat
      /\ \A j \in 1..Len(reads) : reads'[j] = reads[j]
      /\ reads'[Len(reads) + 1] = unread
  BY <1>1, <1>3, AppendProperties, LenProperties
<1>5. ASSUME NEW j \in 1..Len(reads') PROVE reads'[j].version \in 0..held'.version
  <2>1. CASE j = Len(reads) + 1
    BY <1>1, <1>3, <1>4, <2>1
  <2>2. CASE j \in 1..Len(reads)
    BY <1>1, <1>4, <2>2
  <2>3. QED
    BY <1>4, <2>1, <2>2
<1>6. Len(calls') <= limit /\ Len(calls') + Len(reads') <= limit + 1
  BY <1>1, <1>2, <1>4
<1>7. told' \in 0..held'.version
  BY <1>1, SMTT(30) DEF AnswerVersions, Refused
<1>8. SectionTyped(R, Cs, limit, writes)'
  BY <1>1, <1>2, <1>4, <1>5, <1>6, <1>7 DEF SectionTyped
<1>9. Len(reads') > 0 /\ reads'[Len(reads')].version = 0 /\ reads' # <<>>
  BY <1>3, <1>4, EmptySeq
<1>10. SectionCurrent'
  BY <1>9 DEF SectionCurrent
<1>11. QED
  BY <1>8, <1>10 DEF SectionInv

\* A section is mounted: nothing it asked before is its business any more.
LEMMA RemountKept ==
    ASSUME NEW R, NEW Cs, NEW unread, NEW limit \in Nat, NEW writes \in Nat,
           SectionSets(R, Cs, unread, writes), SectionInv(R, Cs, limit, writes),
           held' = held, list' = unread, reads' = <<unread>>, listing' = TRUE,
           order' = "pending", told' = 0,
           calls' = [i \in DOMAIN calls |-> [calls[i] EXCEPT !.here = FALSE]]
    PROVE  SectionInv(R, Cs, limit, writes)'
<1>1. /\ held \in R /\ held.version \in 1..writes /\ calls \in Seq(Cs) /\ reads \in Seq(R)
      /\ \A j \in 1..Len(calls) : calls[j].version \in AnswerVersions(held.version)
      /\ Len(calls) <= limit
  BY DEF SectionInv, SectionTyped
<1>2. unread \in R /\ unread.version = 0
  BY DEF SectionSets
<1>3. Len(calls) \in Nat /\ DOMAIN calls = 1..Len(calls) /\ \A j \in 1..Len(calls) : calls[j] \in Cs
  BY <1>1, LenProperties, ElementOfSeq
<1>4. \A j \in 1..Len(calls) : /\ [calls[j] EXCEPT !.here = FALSE] \in Cs
                               /\ [calls[j] EXCEPT !.here = FALSE].version = calls[j].version
  BY <1>3 DEF SectionSets
<1>5. /\ calls' \in Seq(Cs) /\ Len(calls') = Len(calls)
      /\ \A j \in 1..Len(calls) : calls'[j] = [calls[j] EXCEPT !.here = FALSE]
  BY <1>3, <1>4
<1>6. \A j \in 1..Len(calls') : calls'[j].version \in AnswerVersions(held'.version)
  BY <1>1, <1>4, <1>5
<1>7. /\ reads' \in Seq(R) /\ Len(reads') = 1 /\ reads'[1] = unread /\ reads' # <<>>
  BY <1>2
<1>8. \A j \in 1..Len(reads') : reads'[j].version \in 0..held'.version
  BY <1>1, <1>2, <1>7
<1>9. told' \in 0..held'.version /\ list'.version \in 0..held'.version
      /\ Len(calls') <= limit /\ Len(calls') + Len(reads') <= limit + 1
  BY <1>1, <1>2, <1>3, <1>5, <1>7
<1>10. SectionTyped(R, Cs, limit, writes)'
  BY <1>1, <1>2, <1>5, <1>6, <1>7, <1>8, <1>9 DEF SectionTyped
<1>11. SectionCurrent'
  BY <1>2, <1>7 DEF SectionCurrent
<1>12. QED
  BY <1>10, <1>11 DEF SectionInv

\* The server reads its rows for a read.
LEMMA ReadRowsKept ==
    ASSUME NEW R, NEW Cs, NEW limit \in Nat, NEW writes \in Nat,
           SectionInv(R, Cs, limit, writes), NEW i \in 1..Len(reads),
           reads' = [reads EXCEPT ![i] = held],
           UNCHANGED <<held, list, listing, calls, told, order>>
    PROVE  SectionInv(R, Cs, limit, writes)'
<1>1. /\ held \in R /\ held.version \in 1..writes /\ reads \in Seq(R) /\ told \in 0..held.version
      /\ \A j \in 1..Len(reads) : reads[j].version \in 0..held.version
  BY DEF SectionInv, SectionTyped
<1>2. /\ reads' \in Seq(R) /\ Len(reads') = Len(reads) /\ Len(reads) \in Nat \ {0}
      /\ \A j \in 1..Len(reads) : reads'[j] = IF j = i THEN held ELSE reads[j]
  BY <1>1, ExceptSeq, LenProperties
<1>3. ASSUME NEW j \in 1..Len(reads') PROVE reads'[j].version \in 0..held'.version
  BY <1>1, <1>2
<1>4. SectionTyped(R, Cs, limit, writes)'
  BY <1>2, <1>3 DEF SectionInv, SectionTyped
<1>5. reads' # <<>> /\ Len(reads) \in 1..Len(reads)
  BY <1>2, EmptySeq
<1>6. order = "pending" => reads[Len(reads)].version = 0 \/ reads[Len(reads)].version >= told
  BY DEF SectionInv, SectionCurrent
<1>7. order' = "pending" =>
        Len(reads') > 0 /\ (reads'[Len(reads')].version = 0 \/ reads'[Len(reads')].version >= told')
  <2>0. told' = told /\ order' = order /\ Len(reads') > 0
    BY <1>2
  <2>1. CASE i = Len(reads)
    <3>1. reads'[Len(reads')] = held
      BY <1>2, <1>5, <2>1
    <3>2. held.version >= told
      BY <1>1
    <3>3. QED
      BY ONLY <2>0, <3>1, <3>2
  <2>2. CASE i # Len(reads)
    <3>1. reads'[Len(reads')] = reads[Len(reads)]
      BY <1>2, <1>5, <2>2
    <3>2. QED
      BY ONLY <1>6, <2>0, <3>1
  <2>3. QED
    BY <2>1, <2>2
<1>8. SectionCurrent'
  <2>1. order' = "last" => list'.version = 0 \/ list'.version >= told'
    BY DEF SectionInv, SectionCurrent
  <2>2. QED
    BY <1>5, <1>7, <2>1 DEF SectionCurrent
<1>9. (listing \in BOOLEAN)'
  BY DEF SectionInv
<1>10. QED
  BY <1>4, <1>8, <1>9 DEF SectionInv

\* A read ends, with rows or without.
LEMMA ReadEndsKept ==
    ASSUME NEW R, NEW Cs, NEW unread, NEW limit \in Nat, NEW writes \in Nat,
           SectionSets(R, Cs, unread, writes), SectionInv(R, Cs, limit, writes),
           NEW i \in 1..Len(reads), reads' = Without(reads, i), listing' = FALSE,
           order' = IF order = "pending" THEN IF i < Len(reads) THEN "pending" ELSE "last"
                    ELSE "overtaken",
           (list' = reads[i] /\ reads[i].version # 0) \/ list' = unread,
           UNCHANGED <<held, calls, told>>
    PROVE  SectionInv(R, Cs, limit, writes)'
<1>1. /\ held \in R /\ held.version \in 1..writes /\ reads \in Seq(R) /\ told \in 0..held.version
      /\ \A j \in 1..Len(reads) : reads[j].version \in 0..held.version
      /\ calls \in Seq(Cs) /\ Len(calls) + Len(reads) <= limit + 1
      /\ order \in {"pending", "last", "overtaken"}
  BY DEF SectionInv, SectionTyped
<1>2. /\ reads' \in Seq(R) /\ Len(reads') = Len(reads) - 1 /\ Len(reads) \in Nat \ {0}
      /\ \A j \in 1..Len(reads) - 1 : reads'[j] = IF j < i THEN reads[j] ELSE reads[j + 1]
  BY <1>1, Removed
<1>3. unread \in R /\ unread.version = 0 /\ reads[i] \in R /\ Len(calls) \in Nat
  BY <1>1, ElementOfSeq, LenProperties DEF SectionSets
<1>4. ASSUME NEW j \in 1..Len(reads') PROVE reads'[j].version \in 0..held'.version
  <2>1. j \in 1..Len(reads) - 1 /\ j \in 1..Len(reads) /\ j + 1 \in 1..Len(reads)
    BY <1>2
  <2>2. reads'[j] = reads[j] \/ reads'[j] = reads[j + 1]
    BY <1>2, <2>1
  <2>3. QED
    BY <1>1, <2>1, <2>2
<1>5. list' \in R /\ list'.version \in 0..held'.version
  BY <1>1, <1>3
<1>6. Len(calls') + Len(reads') <= limit + 1
  BY <1>1, <1>2, <1>3
<1>7. order' \in {"pending", "last", "overtaken"}
  OBVIOUS
<1>8. SectionTyped(R, Cs, limit, writes)'
  BY <1>2, <1>4, <1>5, <1>6, <1>7 DEF SectionInv, SectionTyped
<1>9. order' = "pending" =>
        Len(reads') > 0 /\ (reads'[Len(reads')].version = 0 \/ reads'[Len(reads')].version >= told')
  <2>1. SUFFICES ASSUME order' = "pending"
                 PROVE  Len(reads') > 0
                        /\ (reads'[Len(reads')].version = 0 \/ reads'[Len(reads')].version >= told')
    OBVIOUS
  <2>2. order = "pending" /\ i < Len(reads)
    BY <1>1, <2>1
  <2>3. Len(reads') \in 1..Len(reads) - 1 /\ ~(Len(reads') < i) /\ Len(reads') + 1 = Len(reads)
    BY <1>2, <2>2
  <2>4. reads'[Len(reads')] = reads[Len(reads)]
    BY <1>2, <2>3
  <2>5. QED
    BY <2>2, <2>3, <2>4 DEF SectionInv, SectionCurrent
<1>10. order' = "last" => list'.version = 0 \/ list'.version >= told'
  <2>1. SUFFICES ASSUME order' = "last" PROVE list'.version = 0 \/ list'.version >= told'
    OBVIOUS
  <2>2. order = "pending" /\ i = Len(reads)
    BY <1>1, <1>2, <2>1
  <2>3. QED
    BY <1>3, <2>2 DEF SectionInv, SectionCurrent
<1>11. SectionCurrent'
  BY <1>9, <1>10 DEF SectionCurrent
<1>12. QED
  BY <1>8, <1>11 DEF SectionInv

\* Nothing happens to the section.
LEMMA SectionStays ==
    ASSUME NEW R, NEW Cs, NEW limit \in Nat, NEW writes \in Nat,
           SectionInv(R, Cs, limit, writes),
           UNCHANGED <<held, list, reads, listing, calls, told, order>>
    PROVE  SectionInv(R, Cs, limit, writes)'
<1>1. SectionTyped(R, Cs, limit, writes)'
  BY DEF SectionInv, SectionTyped
<1>2. SectionCurrent' /\ (listing \in BOOLEAN)'
  BY DEF SectionInv, SectionCurrent
<1>3. QED
  BY <1>1, <1>2 DEF SectionInv

\* The menu opens: a list to read, nothing sent.
LEMMA SectionOpens ==
    ASSUME NEW R, NEW Cs, NEW unread, NEW limit \in Nat, NEW writes \in Nat \ {0},
           SectionSets(R, Cs, unread, writes),
           held \in R, held.version = 1, list = unread, reads = <<unread>>, listing = TRUE,
           order = "pending", calls = <<>>, told = 0
    PROVE  SectionInv(R, Cs, limit, writes)
<1>1. unread \in R /\ unread.version = 0
  BY DEF SectionSets
<1>2. reads \in Seq(R) /\ Len(reads) = 1 /\ reads[1] = unread /\ reads # <<>>
  BY <1>1
<1>3. calls \in Seq(Cs) /\ Len(calls) = 0
  BY EmptySeq
<1>4. SectionTyped(R, Cs, limit, writes)
  BY <1>1, <1>2, <1>3 DEF SectionTyped
<1>5. SectionCurrent
  BY <1>1, <1>2 DEF SectionCurrent
<1>6. QED
  BY <1>4, <1>5 DEF SectionInv

-----------------------------------------------------------------------------
(* API keys.                                                               *)

KeyRows == [rows : SUBSET K!Keys, version : 0..KeyWrites]
KeyCalls == [kind : {"create", "delete"}, key : K!Keys \cup {K!None},
             revealed : K!Keys \cup {K!None}, here : BOOLEAN, version : Refused..KeyWrites]

KeyInv ==
    /\ SectionInv(KeyRows, KeyCalls, KeyPending, KeyWrites)
    /\ form \in [showAdd : BOOLEAN, revealed : K!Keys \cup {K!None}]
    /\ past \in [unsaved : K!Keys \cup {K!None}, hidden : BOOLEAN]
    /\ K!ValueStays

\* What the lemmas about sections need to know of this one.
LEMMA KeySets ==
    /\ KeyPending \in Nat \ {0} /\ KeyWrites \in Nat \ {0}
    /\ SectionSets(KeyRows, KeyCalls, K!Unread, KeyWrites)
<1>1. KeyPending \in Nat \ {0} /\ KeyWrites \in Nat \ {0}
  BY MenuAssumption DEF K!SectionAssumption
<1>2. K!Unread \in KeyRows /\ K!Unread.version = 0
  BY <1>1 DEF K!Unread, KeyRows
<1>3. ASSUME NEW c \in KeyCalls
      PROVE  [c EXCEPT !.here = FALSE] \in KeyCalls /\ [c EXCEPT !.here = FALSE].version = c.version
  BY DEF KeyCalls
<1>4. ASSUME NEW c \in KeyCalls, NEW v \in Refused..KeyWrites
      PROVE  [c EXCEPT !.version = v] \in KeyCalls /\ [c EXCEPT !.version = v].version = v
  BY DEF KeyCalls
<1>5. QED
  BY <1>1, <1>2, <1>3, <1>4 DEF SectionSets

\* What is sent.
KeyCall(kind, key, revealed) ==
    [kind |-> kind, key |-> key, revealed |-> revealed, here |-> TRUE, version |-> 0]
\* A request for the keys that is sent from the section.
LEMMA KeySent ==
    ASSUME NEW kind \in {"create", "delete"}, NEW key \in K!Keys \cup {K!None},
           NEW revealed \in K!Keys \cup {K!None}
    PROVE  KeyCall(kind, key, revealed) \in KeyCalls /\ KeyCall(kind, key, revealed).version = 0
<1>1. 0 \in Refused..KeyWrites
  BY KeySets DEF Refused
<1>2. QED
  BY <1>1 DEF KeyCalls, KeyCall

\* No key, nothing revealed.
LEMMA KeyInitially == K!Init => KeyInv
<1> SUFFICES ASSUME K!Init PROVE KeyInv
  OBVIOUS
<1>1. /\ held = [rows |-> {}, version |-> 1] /\ list = K!Unread /\ reads = <<K!Unread>>
      /\ listing = TRUE /\ order = "pending" /\ calls = <<>> /\ told = 0
      /\ form = [showAdd |-> FALSE, revealed |-> K!None]
      /\ past = [unsaved |-> K!None, hidden |-> FALSE]
  BY DEF K!Init, K!Mounted
<1>2. held \in KeyRows /\ held.version = 1
  BY <1>1, KeySets DEF KeyRows
<1>3. SectionInv(KeyRows, KeyCalls, KeyPending, KeyWrites)
  BY <1>1, <1>2, KeySets, SectionOpens
<1>4. QED
  BY <1>1, <1>3 DEF KeyInv, K!ValueStays

\* The server has done with a request, or refused it.
LEMMA KeyServed == ASSUME KeyInv, NEW i \in DOMAIN calls, K!Serve(i) PROVE KeyInv'
<1>1. /\ SectionInv(KeyRows, KeyCalls, KeyPending, KeyWrites) /\ held \in KeyRows
      /\ held.version \in 1..KeyWrites /\ held.rows \subseteq K!Keys /\ i \in 1..Len(calls)
      /\ calls[i] \in KeyCalls
  BY ElementOfSeq DEF KeyInv, SectionInv, SectionTyped, KeyRows
<1>2. UNCHANGED <<form, past, told>> /\ ListSame
  BY DEF K!Serve, K!Writes, K!Refuses, K!KeepList, ListSame
<1>3. ASSUME NEW new \in SUBSET K!Keys, K!Writes(i, new)
      PROVE  SectionInv(KeyRows, KeyCalls, KeyPending, KeyWrites)'
  <2>1. /\ held' = [rows |-> new, version |-> held.version + 1] /\ held.version < KeyWrites
        /\ calls' = [calls EXCEPT ![i].version = held.version + 1]
    BY <1>3 DEF K!Writes, K!Served
  <2>2. /\ held' \in KeyRows /\ held'.version \in held.version..KeyWrites
        /\ held.version + 1 \in AnswerVersions(held'.version)
    BY <1>1, <2>1, KeySets DEF KeyRows, AnswerVersions, Refused
  <2>3. QED
    BY <1>1, <1>2, <2>1, <2>2, KeySets, ServedKept
<1>4. ASSUME K!Refuses(i) PROVE SectionInv(KeyRows, KeyCalls, KeyPending, KeyWrites)'
  <2>1. held' = held /\ calls' = [calls EXCEPT ![i].version = Refused]
    BY <1>4 DEF K!Refuses, K!Served, K!Refused, Refused
  <2>2. held' \in KeyRows /\ held'.version \in held.version..KeyWrites /\ Refused \in AnswerVersions(held'.version)
    BY <1>1, <2>1, KeySets DEF AnswerVersions, Refused
  <2>3. QED
    BY <1>1, <1>2, <2>1, <2>2, KeySets, ServedKept
<1>5. SectionInv(KeyRows, KeyCalls, KeyPending, KeyWrites)'
  <2>1. CASE K!Writes(i, held.rows \cup {held.version + 1})
    <3>1. held.rows \cup {held.version + 1} \in SUBSET K!Keys
      BY <1>1, <2>1, KeySets DEF K!Writes, K!Keys
    <3>2. QED
      BY <1>3, <2>1, <3>1
  <2>2. CASE K!Writes(i, held.rows \ {calls[i].key})
    BY <1>1, <1>3, <2>2
  <2>3. QED
    BY <1>4, <2>1, <2>2 DEF K!Serve
<1>6. QED
  BY <1>2, <1>5 DEF KeyInv, K!ValueStays

\* A key was made, or revoked: what is on screen then is not the section's to say.
LEMMA KeyAcknowledged ==
    ASSUME KeyInv, NEW i \in DOMAIN calls, K!Acknowledged(i)
    PROVE  /\ SectionInv(KeyRows, KeyCalls, KeyPending, KeyWrites)'
           /\ calls[i] \in KeyCalls /\ calls[i].version \in K!Keys
<1>1. /\ SectionInv(KeyRows, KeyCalls, KeyPending, KeyWrites) /\ held.version \in 1..KeyWrites
      /\ i \in 1..Len(calls) /\ calls[i] \in KeyCalls /\ calls[i].version \in AnswerVersions(held.version)
  BY ElementOfSeq DEF KeyInv, SectionInv, SectionTyped
<1>2. /\ calls' = Without(calls, i) /\ calls[i].version > 0 /\ held' = held /\ list' = list
      /\ told' \in {told, calls[i].version} /\ reads' = Append(reads, K!Unread)
      /\ listing' = TRUE /\ order' = "pending"
  BY DEF K!Acknowledged, K!Refresh, K!Without, Without
<1>3. SectionInv(KeyRows, KeyCalls, KeyPending, KeyWrites)'
  BY <1>1, <1>2, KeySets, AcknowledgedKept
<1>4. calls[i].version \in K!Keys
  BY <1>1, <1>2, KeySets DEF AnswerVersions, Refused, K!Keys
<1>5. QED
  BY <1>1, <1>3, <1>4

\* Each step of the section keeps KeyInv.
LEMMA KeyKept == KeyInv /\ [K!Next]_sectionVars => KeyInv'
<1> SUFFICES ASSUME KeyInv, [K!Next]_sectionVars PROVE KeyInv'
  OBVIOUS
<1>1. /\ SectionInv(KeyRows, KeyCalls, KeyPending, KeyWrites)
      /\ held \in KeyRows /\ calls \in Seq(KeyCalls) /\ reads \in Seq(KeyRows)
      /\ form \in [showAdd : BOOLEAN, revealed : K!Keys \cup {K!None}]
      /\ past \in [unsaved : K!Keys \cup {K!None}, hidden : BOOLEAN]
      /\ ~past.hidden => form.revealed = past.unsaved
  BY DEF KeyInv, SectionInv, SectionTyped, K!ValueStays
<1>2. ASSUME UNCHANGED K!sectionVars PROVE SectionInv(KeyRows, KeyCalls, KeyPending, KeyWrites)'
  BY <1>1, <1>2, KeySets, SectionStays DEF K!sectionVars
<1>3. ASSUME NEW call \in KeyCalls, call.version = 0, K!Send(call)
      PROVE  SectionInv(KeyRows, KeyCalls, KeyPending, KeyWrites)'
  <2>1. /\ ListSame /\ told' = told /\ held' = held /\ Len(calls) + Len(reads) < KeyPending
        /\ calls' = Append(calls, call)
    BY <1>3 DEF K!Send, K!SendWithin, K!KeepList, ListSame
  <2>2. QED
    BY <1>1, <1>3, <2>1, KeySets, SentKept
<1>4. ASSUME SectionInv(KeyRows, KeyCalls, KeyPending, KeyWrites)', UNCHANGED <<form, past>>
      PROVE  KeyInv'
  BY <1>1, <1>4 DEF KeyInv, K!ValueStays
<1>5. CASE K!ToggleAdd
  BY <1>1, <1>2, <1>5 DEF K!ToggleAdd, K!PutAway, KeyInv, K!ValueStays
<1>6. CASE K!HandleAdd
  <2>1. K!Send(KeyCall("create", K!None, K!None)) /\ UNCHANGED <<form, past>>
    BY <1>6 DEF K!HandleAdd, KeyCall
  <2>2. QED
    BY <1>3, <1>4, <2>1, KeySent
<1>7. ASSUME NEW k \in K!Keys, K!HandleDelete(k) PROVE KeyInv'
  <2>1. K!Send(KeyCall("delete", k, form.revealed)) /\ UNCHANGED <<form, past>>
    BY <1>7 DEF K!HandleDelete, KeyCall
  <2>2. form.revealed \in K!Keys \cup {K!None}
    BY <1>1
  <2>3. QED
    BY <1>3, <1>4, <2>1, <2>2, KeySent
<1>8. CASE K!Reopen
  <2>1. /\ held' = held /\ list' = K!Unread /\ reads' = <<K!Unread>> /\ listing' = TRUE
        /\ order' = "pending" /\ told' = 0
        /\ calls' = [i \in DOMAIN calls |-> [calls[i] EXCEPT !.here = FALSE]]
        /\ form' = [showAdd |-> FALSE, revealed |-> K!None]
        /\ past' = [unsaved |-> K!None, hidden |-> FALSE]
    BY <1>8 DEF K!Reopen, K!Remount, K!PutAway
  <2>2. SectionInv(KeyRows, KeyCalls, KeyPending, KeyWrites)'
    BY <1>1, <2>1, KeySets, RemountKept
  <2>3. QED
    BY <2>1, <2>2 DEF KeyInv, K!ValueStays
<1>9. ASSUME NEW i \in DOMAIN calls, K!CreateAnswers(i) PROVE KeyInv'
  <2>1. /\ SectionInv(KeyRows, KeyCalls, KeyPending, KeyWrites)' /\ calls[i].version \in K!Keys
    BY <1>9, KeyAcknowledged DEF K!CreateAnswers
  <2>2. QED
    BY <1>9, <2>1 DEF K!CreateAnswers, KeyInv, K!ValueStays
<1>10. ASSUME NEW i \in DOMAIN calls, K!DeleteAnswers(i) PROVE KeyInv'
  <2>1. SectionInv(KeyRows, KeyCalls, KeyPending, KeyWrites)' /\ calls[i] \in KeyCalls
    BY <1>10, KeyAcknowledged DEF K!DeleteAnswers
  <2>2. CASE calls[i].revealed = K!None
    BY <1>4, <1>10, <2>1, <2>2 DEF K!DeleteAnswers
  <2>3. CASE calls[i].revealed # K!None /\ calls[i].revealed = past.unsaved
    BY <1>1, <1>10, <2>1, <2>3 DEF K!DeleteAnswers, KeyInv, K!ValueStays
  <2>4. CASE calls[i].revealed # K!None /\ calls[i].revealed # past.unsaved
    BY <1>1, <1>10, <2>1, <2>4 DEF K!DeleteAnswers, KeyInv, K!ValueStays
  <2>5. QED
    BY <2>2, <2>3, <2>4
<1>11. ASSUME NEW i \in DOMAIN calls, K!CallFails(i), UNCHANGED <<form, past>> PROVE KeyInv'
  <2>1. ListSame /\ told' = told /\ held' = held /\ calls' = Without(calls, i) /\ i \in 1..Len(calls)
    BY <1>1, <1>11 DEF K!CallFails, K!KeepList, ListSame, K!Without, Without
  <2>2. QED
    BY <1>1, <1>4, <1>11, <2>1, KeySets, DroppedKept
<1>12. ASSUME NEW i \in DOMAIN reads, K!ReadRows(i), UNCHANGED <<form, past>> PROVE KeyInv'
  <2>1. /\ reads' = [reads EXCEPT ![i] = held] /\ i \in 1..Len(reads)
        /\ UNCHANGED <<held, list, listing, calls, told, order>>
    BY <1>1, <1>12 DEF K!ReadRows
  <2>2. QED
    BY <1>1, <1>4, <1>12, <2>1, KeySets, ReadRowsKept
<1>13. ASSUME NEW i \in DOMAIN reads, K!ReadAnswers(i) \/ K!ReadFails(i), UNCHANGED <<form, past>>
       PROVE  KeyInv'
  <2>1. K!ReadEnds(i) /\ ((list' = reads[i] /\ reads[i].version # 0) \/ list' = K!Unread)
    BY <1>13 DEF K!ReadAnswers, K!ReadFails
  <2>2. /\ reads' = Without(reads, i) /\ i \in 1..Len(reads) /\ listing' = FALSE
        /\ order' = IF order = "pending" THEN IF i < Len(reads) THEN "pending" ELSE "last"
                    ELSE "overtaken"
        /\ UNCHANGED <<held, calls, told>>
    BY <1>1, <2>1 DEF K!ReadEnds, K!Without, Without
  <2>3. QED
    BY <1>1, <1>4, <1>13, <2>1, <2>2, KeySets, ReadEndsKept
<1>14. CASE UNCHANGED sectionVars
  BY <1>2, <1>4, <1>14 DEF sectionVars, K!sectionVars
<1>15. QED
  BY <1>5, <1>6, <1>7, <1>8, <1>9, <1>10, <1>11, <1>12, <1>13, <1>14, KeyServed DEF K!Next

\* What was promised of the keys.
LEMMA KeysAreHeld == KeyInv => K!TypeOK /\ K!KeysHold
<1> SUFFICES ASSUME KeyInv PROVE K!TypeOK /\ K!KeysHold
  OBVIOUS
<1>1. SectionTyped(KeyRows, KeyCalls, KeyPending, KeyWrites) /\ SectionCurrent /\ listing \in BOOLEAN
  BY DEF KeyInv, SectionInv
<1>2. \A v \in Nat : AnswerVersions(v) \subseteq K!Refused..v
  BY DEF AnswerVersions, Refused, K!Refused
<1>3. K!SectionTypeOK(KeyPending)
  <2>1. /\ DOMAIN reads = 1..Len(reads) /\ DOMAIN calls = 1..Len(calls)
        /\ held.version \in Nat
    BY <1>1 DEF SectionTyped
  <2>2. QED
    BY <1>1, <1>2, <2>1 DEF SectionTyped, K!SectionTypeOK
<1>4. K!ListIsCurrent
  BY <1>1 DEF SectionCurrent, K!ListIsCurrent
<1>5. held.rows \subseteq K!Keys /\ list.rows \subseteq K!Keys
  BY <1>1 DEF SectionTyped, KeyRows
<1>6. QED
  BY <1>3, <1>4, <1>5 DEF KeyInv, K!TypeOK, K!KeysHold

-----------------------------------------------------------------------------
(* Users.                                                                  *)

UserTable == [People -> V!UserRows \cup V!NoRows]
UserLists == {V!Unread} \cup [rows : UserTable, version : 1..UserWrites]

\* The fields nobody typed into are the row's.
FilledIn(fields, base, typed) ==
    /\ "role" \notin typed => fields.role = base.role
    /\ "scope" \notin typed => fields.scope = V!ParseScope(base.scope)

UserRequests ==
    [kind : {"create", "delete", "reset", "update"}, user : People \cup {V!None},
     row : V!UserRows \cup {V!Absent}, base : V!UserRows \cup {V!Absent},
     typed : SUBSET {"role", "scope"}, here : BOOLEAN, version : Refused..UserWrites]
UserCalls == {c \in UserRequests :
                 /\ c.kind \in {"create", "update"} => c.row \in V!UserRows
                 /\ c.kind = "update" => FilledIn(c.row, c.base, c.typed)}
UserSection == SectionInv(UserLists, UserCalls, UserPending, UserWrites)
UserForm == [showAdd : BOOLEAN, editing : People \cup {V!None}, role : {"admin", "viewer"},
             scope : V!Typable]
UserPast == [base : V!UserRows \cup {V!Absent}, typed : SUBSET {"role", "scope"}, spilt : {FALSE}]

\* What a form or a request would write, of what was not typed, is what the row
\* held when "Edit" was pressed.
UserInv ==
    /\ UserSection /\ form \in UserForm /\ past \in UserPast
    /\ form.editing # V!None => past.base \in V!UserRows /\ FilledIn(form, past.base, past.typed)
    /\ form.editing # V!None => form.showAdd = FALSE

\* Rows and scopes.
LEMMA UserFacts ==
    /\ Unlimited \notin SUBSET Groups /\ {} \in V!Scopes /\ Self \in People /\ V!None \notin People
    /\ V!Absent \notin V!UserRows /\ V!Deleted \notin V!UserRows
    /\ \A scope \in V!Scopes : V!ParseScope(scope) \in V!Typable
    /\ V!Typable \subseteq V!Scopes /\ Unlimited \in V!Typable
    /\ \A role \in {"admin", "viewer"}, scope \in V!Scopes :
           [role |-> role, scope |-> scope, mfa |-> FALSE] \in V!UserRows
    /\ \A r \in V!UserRows, role \in {"admin", "viewer"}, scope \in V!Scopes :
           [r EXCEPT !.role = role, !.scope = scope] \in V!UserRows
    /\ \A r \in V!UserRows : [r EXCEPT !.mfa = FALSE] \in V!UserRows
<1>1. Unlimited \notin SUBSET Groups /\ Self \in People /\ V!None \notin People
  BY MenuAssumption DEF V!UsersAssumption
<1>2. {} \in V!Scopes /\ Unlimited \in V!Scopes /\ Unlimited # {}
  BY <1>1 DEF V!Scopes
<1>3. V!Absent \notin V!UserRows /\ V!Deleted \notin V!UserRows
  BY DEF V!Absent, V!Deleted, V!NoRow, V!UserRows
<1>4. /\ \A scope \in V!Scopes : V!ParseScope(scope) \in V!Typable
      /\ V!Typable \subseteq V!Scopes /\ Unlimited \in V!Typable
  <2>1. ASSUME NEW scope \in V!Scopes, scope # Unlimited PROVE V!Names(scope) \in V!Scopes
    <3>1. \A g \in scope : g \in Groups /\ ReadsAs[g] \subseteq Groups
      BY <2>1, MenuAssumption DEF V!Scopes, V!UsersAssumption
    <3>2. V!Names(scope) \subseteq Groups
      BY <3>1 DEF V!Names
    <3>3. QED
      BY <3>2 DEF V!Scopes
  <2>2. \A scope \in V!Scopes : V!ParseScope(scope) \in V!Scopes
    BY <1>2, <2>1 DEF V!ParseScope
  <2>3. V!ParseScope(Unlimited) = Unlimited
    BY DEF V!ParseScope
  <2>4. QED
    BY <1>2, <2>2, <2>3 DEF V!Typable
<1>5. QED
  BY <1>1, <1>2, <1>3, <1>4 DEF V!UserRows

\* What the lemmas about sections need to know of this one.
LEMMA UserSets ==
    /\ UserPending \in Nat \ {0} /\ UserWrites \in Nat \ {0}
    /\ SectionSets(UserLists, UserCalls, V!Unread, UserWrites)
<1>1. UserPending \in Nat \ {0} /\ UserWrites \in Nat \ {0}
  BY MenuAssumption DEF V!UsersAssumption, V!SectionAssumption
<1>2. V!Unread \in UserLists /\ V!Unread.version = 0
  BY DEF V!Unread, UserLists
<1>3. ASSUME NEW c \in UserCalls
      PROVE  [c EXCEPT !.here = FALSE] \in UserCalls /\ [c EXCEPT !.here = FALSE].version = c.version
  <2>1. /\ [c EXCEPT !.here = FALSE] \in UserRequests
        /\ [c EXCEPT !.here = FALSE].kind = c.kind /\ [c EXCEPT !.here = FALSE].row = c.row
        /\ [c EXCEPT !.here = FALSE].base = c.base /\ [c EXCEPT !.here = FALSE].typed = c.typed
        /\ [c EXCEPT !.here = FALSE].version = c.version
    BY DEF UserCalls, UserRequests
  <2>2. QED
    BY <2>1 DEF UserCalls
<1>4. ASSUME NEW c \in UserCalls, NEW v \in Refused..UserWrites
      PROVE  [c EXCEPT !.version = v] \in UserCalls /\ [c EXCEPT !.version = v].version = v
  <2>1. /\ [c EXCEPT !.version = v] \in UserRequests
        /\ [c EXCEPT !.version = v].kind = c.kind /\ [c EXCEPT !.version = v].row = c.row
        /\ [c EXCEPT !.version = v].base = c.base /\ [c EXCEPT !.version = v].typed = c.typed
        /\ [c EXCEPT !.version = v].version = v
    BY DEF UserCalls, UserRequests
  <2>2. QED
    BY <2>1 DEF UserCalls
<1>5. QED
  BY <1>1, <1>2, <1>3, <1>4 DEF SectionSets

\* What is sent.
UserCall(kind, u, r, base, typed) ==
    [kind |-> kind, user |-> u, row |-> r, base |-> base, typed |-> typed, here |-> TRUE,
     version |-> 0]
\* A request for the users that is sent from the section.
LEMMA UserSent ==
    ASSUME NEW kind \in {"create", "delete", "reset", "update"}, NEW u \in People \cup {V!None},
           NEW r \in V!UserRows \cup {V!Absent}, NEW base \in V!UserRows \cup {V!Absent},
           NEW typed \in SUBSET {"role", "scope"},
           kind \in {"create", "update"} => r \in V!UserRows,
           kind = "update" => FilledIn(r, base, typed),
           UserSection, V!Call(kind, u, r, base, typed)
    PROVE  UserSection'
<1>1. 0 \in Refused..UserWrites
  BY UserSets DEF Refused
<1>2. /\ UserCall(kind, u, r, base, typed) \in UserRequests
      /\ UserCall(kind, u, r, base, typed).kind = kind /\ UserCall(kind, u, r, base, typed).row = r
      /\ UserCall(kind, u, r, base, typed).base = base
      /\ UserCall(kind, u, r, base, typed).typed = typed
  BY <1>1 DEF UserRequests, UserCall
<1>3. UserCall(kind, u, r, base, typed).version = 0
  BY DEF UserCall
<1>4. UserCall(kind, u, r, base, typed) \in UserCalls
  BY <1>2 DEF UserCalls
<1>5. V!Send(UserCall(kind, u, r, base, typed))
  BY DEF V!Call, UserCall
<1>6. /\ ListSame /\ told' = told /\ held' = held /\ Len(calls) + Len(reads) < UserPending
      /\ calls' = Append(calls, UserCall(kind, u, r, base, typed))
  BY <1>5 DEF V!Send, V!SendWithin, V!KeepList, ListSame
<1>7. QED
  BY <1>3, <1>4, <1>6, UserSets, SentKept DEF UserSection

\* The server writes: at a request, or at somebody else's.
LEMMA UserWritten ==
    ASSUME UserSection, NEW rows \in UserTable, NEW i,
           (i \in DOMAIN calls /\ V!Writes(i, rows)) \/ V!Elsewhere(rows)
    PROVE  UserSection'
<1>1. /\ held \in UserLists /\ held.version \in 1..UserWrites /\ calls \in Seq(UserCalls)
      /\ Len(calls) <= UserPending /\ Len(calls) + Len(reads) <= UserPending + 1
      /\ \A j \in 1..Len(calls) : calls[j].version \in AnswerVersions(held.version)
  BY DEF UserSection, SectionInv, SectionTyped
<1>2. /\ held.version < UserWrites /\ held' = [rows |-> rows, version |-> held.version + 1]
      /\ told' = told /\ ListSame
  BY DEF V!Writes, V!Elsewhere, V!KeepList, ListSame
<1>3. held' \in UserLists /\ held'.version \in held.version..UserWrites
  BY <1>1, <1>2, UserSets DEF UserLists
<1>4. \A j \in 1..Len(calls) : calls[j].version \in AnswerVersions(held'.version)
  BY <1>1, <1>2 DEF AnswerVersions, Refused
<1>5. CASE i \in DOMAIN calls /\ V!Writes(i, rows)
  <2>1. calls' = [calls EXCEPT ![i].version = held.version + 1] /\ i \in 1..Len(calls)
    BY <1>1, <1>5 DEF V!Writes, V!Served
  <2>2. held.version + 1 \in AnswerVersions(held'.version)
    BY <1>1, <1>2 DEF AnswerVersions, Refused
  <2>3. QED
    BY <1>2, <1>3, <2>1, <2>2, UserSets, ServedKept DEF UserSection
<1>6. CASE V!Elsewhere(rows)
  <2>1. calls' = calls
    BY <1>6 DEF V!Elsewhere
  <2>2. QED
    BY <1>1, <1>2, <1>3, <1>4, <2>1, UserSets, ListSameKept DEF UserSection
<1>7. QED
  BY <1>5, <1>6

\* The server refuses.
LEMMA UserRefused ==
    ASSUME UserSection, NEW i \in DOMAIN calls, V!Refuses(i)
    PROVE  UserSection'
<1>1. held \in UserLists /\ held.version \in 1..UserWrites /\ calls \in Seq(UserCalls)
  BY DEF UserSection, SectionInv, SectionTyped
<1>2. /\ held' = held /\ calls' = [calls EXCEPT ![i].version = Refused] /\ told' = told /\ ListSame
      /\ i \in 1..Len(calls)
  BY <1>1 DEF V!Refuses, V!Served, V!Refused, Refused, V!KeepList, ListSame
<1>3. /\ held' \in UserLists /\ held'.version \in held.version..UserWrites
      /\ Refused \in AnswerVersions(held'.version)
  BY <1>1, <1>2, UserSets DEF AnswerVersions, Refused
<1>4. QED
  BY <1>2, <1>3, UserSets, ServedKept DEF UserSection

\* A change was made: the list is read again.
LEMMA UserAcknowledged ==
    ASSUME UserSection, NEW i \in DOMAIN calls, V!Acknowledged(i) PROVE UserSection'
<1>1. i \in 1..Len(calls)
  BY DEF UserSection, SectionInv, SectionTyped
<1>2. /\ calls' = Without(calls, i) /\ calls[i].version > 0 /\ held' = held /\ list' = list
      /\ told' \in {told, calls[i].version} /\ reads' = Append(reads, V!Unread)
      /\ listing' = TRUE /\ order' = "pending"
  BY DEF V!Acknowledged, V!Refresh, V!Without, Without
<1>3. QED
  BY <1>1, <1>2, UserSets, AcknowledgedKept DEF UserSection

\* Reads, failures, a menu opened again.
LEMMA UserListKept ==
    ASSUME UserSection
    PROVE  /\ UNCHANGED V!sectionVars => UserSection'
           /\ V!Remount => UserSection'
           /\ \A i \in DOMAIN calls : V!CallFails(i) => UserSection'
           /\ \A i \in DOMAIN reads : V!ReadRows(i) \/ V!ReadAnswers(i) \/ V!ReadFails(i) => UserSection'
<1>1. DOMAIN calls = 1..Len(calls) /\ DOMAIN reads = 1..Len(reads)
  BY DEF UserSection, SectionInv, SectionTyped
<1>2. ASSUME UNCHANGED V!sectionVars PROVE UserSection'
  BY <1>2, UserSets, SectionStays DEF V!sectionVars, UserSection
<1>3. ASSUME V!Remount PROVE UserSection'
  <2>1. /\ held' = held /\ list' = V!Unread /\ reads' = <<V!Unread>> /\ listing' = TRUE
        /\ order' = "pending" /\ told' = 0
        /\ calls' = [i \in DOMAIN calls |-> [calls[i] EXCEPT !.here = FALSE]]
    BY <1>3 DEF V!Remount
  <2>2. QED
    BY <2>1, UserSets, RemountKept DEF UserSection
<1>4. ASSUME NEW i \in DOMAIN calls, V!CallFails(i) PROVE UserSection'
  <2>1. ListSame /\ told' = told /\ held' = held /\ calls' = Without(calls, i) /\ i \in 1..Len(calls)
    BY <1>1, <1>4 DEF V!CallFails, V!KeepList, ListSame, V!Without, Without
  <2>2. QED
    BY <2>1, UserSets, DroppedKept DEF UserSection
<1>5. ASSUME NEW i \in DOMAIN reads, V!ReadRows(i) PROVE UserSection'
  <2>1. /\ reads' = [reads EXCEPT ![i] = held] /\ i \in 1..Len(reads)
        /\ UNCHANGED <<held, list, listing, calls, told, order>>
    BY <1>1, <1>5 DEF V!ReadRows
  <2>2. QED
    BY <2>1, UserSets, ReadRowsKept DEF UserSection
<1>6. ASSUME NEW i \in DOMAIN reads, V!ReadAnswers(i) \/ V!ReadFails(i) PROVE UserSection'
  <2>1. V!ReadEnds(i) /\ ((list' = reads[i] /\ reads[i].version # 0) \/ list' = V!Unread)
    BY <1>6 DEF V!ReadAnswers, V!ReadFails
  <2>2. /\ reads' = Without(reads, i) /\ i \in 1..Len(reads) /\ listing' = FALSE
        /\ order' = IF order = "pending" THEN IF i < Len(reads) THEN "pending" ELSE "last"
                    ELSE "overtaken"
        /\ UNCHANGED <<held, calls, told>>
    BY <1>1, <2>1 DEF V!ReadEnds, V!Without, Without
  <2>3. QED
    BY <2>1, <2>2, UserSets, ReadEndsKept DEF UserSection
<1>7. QED
  BY <1>2, <1>3, <1>4, <1>5, <1>6

\* The list has a row for the id of a button.
LEMMA UserRow ==
    ASSUME UserSection, NEW u \in People, V!Listed(u)
    PROVE  list.rows[u] \in V!UserRows
<1>1. list \in UserLists /\ list.version # 0
  BY DEF UserSection, SectionInv, SectionTyped, V!Listed, V!Offered
<1>2. list.rows \in UserTable
  BY <1>1 DEF UserLists, V!Unread
<1>3. QED
  BY <1>2 DEF UserTable, V!Listed

\* A form is closed, a row edited.
LEMMA UserFormKept ==
    ASSUME UserInv
    PROVE  /\ \A b \in BOOLEAN : UserSection' /\ form' = V!Closed(b) /\ past' = V!Left => UserInv'
           /\ UserSection' /\ UNCHANGED <<form, past>> => UserInv'
           /\ \A u \in People : V!StartEdit(u) => UserInv'
<1>1. form \in UserForm /\ past \in UserPast /\ UserSection
  BY DEF UserInv
<1>2. ASSUME NEW b \in BOOLEAN, UserSection', form' = V!Closed(b), past' = V!Left PROVE UserInv'
  <2>1. form' \in UserForm /\ form'.editing = V!None
    BY <1>2, UserFacts DEF V!Closed, UserForm
  <2>2. past' \in UserPast
    BY <1>1, <1>2 DEF V!Left, UserPast
  <2>3. QED
    BY <1>2, <2>1, <2>2 DEF UserInv
<1>3. ASSUME UserSection', UNCHANGED <<form, past>> PROVE UserInv'
  BY <1>3 DEF UserInv
<1>4. ASSUME NEW u \in People, V!StartEdit(u) PROVE UserInv'
  <2>1. UserSection'
    BY <1>1, <1>4, UserListKept DEF V!StartEdit
  <2>2. PICK r : r = list.rows[u]
    OBVIOUS
  <2>3. r \in V!UserRows
    BY <1>1, <1>4, <2>2, UserRow DEF V!StartEdit, V!Row
  <2>4. /\ form' = [showAdd |-> FALSE, editing |-> u, role |-> r.role,
                    scope |-> V!ParseScope(r.scope)]
        /\ past' = [past EXCEPT !.base = r, !.typed = {}]
    BY <1>4, <2>2 DEF V!StartEdit
  <2>5. r.role \in {"admin", "viewer"} /\ V!ParseScope(r.scope) \in V!Typable
    BY <2>3, UserFacts DEF V!UserRows
  <2>6. form' \in UserForm
    BY <2>4, <2>5 DEF UserForm
  <2>7. past' \in UserPast /\ past'.base = r /\ past'.typed = {}
    BY <1>1, <2>3, <2>4 DEF UserPast
  <2>8. FilledIn(form', past'.base, past'.typed) /\ form'.showAdd = FALSE
    BY <2>4, <2>7 DEF FilledIn
  <2>9. QED
    BY <2>1, <2>3, <2>6, <2>7, <2>8 DEF UserInv
<1>5. QED
  BY <1>2, <1>3, <1>4

\* A field is typed into.
LEMMA UserTypes ==
    ASSUME UserInv, NEW field \in {"role", "scope"}, NEW value,
           IF field = "role" THEN value \in {"admin", "viewer"} ELSE value \in V!Typable,
           V!Type(field, value)
    PROVE  UserInv'
<1>1. form \in UserForm /\ past \in UserPast /\ UserSection /\ form.editing # V!None
  BY DEF UserInv, V!Type
<1>2. /\ past.base \in V!UserRows /\ FilledIn(form, past.base, past.typed) /\ form.showAdd = FALSE
  BY <1>1 DEF UserInv
<1>3. /\ form' = [form EXCEPT ![field] = value]
      /\ past' = [past EXCEPT !.typed = IF value = V!Filled(past.base)[field]
                                        THEN past.typed \ {field} ELSE past.typed \cup {field}]
      /\ UNCHANGED V!sectionVars
  BY DEF V!Type
<1>4. UserSection'
  BY <1>1, <1>3, UserListKept
<1>5. past' \in UserPast /\ past'.base = past.base
      /\ past'.typed = IF value = V!Filled(past.base)[field]
                       THEN past.typed \ {field} ELSE past.typed \cup {field}
  BY <1>1, <1>3 DEF UserPast
<1>6. CASE field = "role"
  <2>1. /\ form' \in UserForm /\ form'.role = value /\ form'.scope = form.scope
        /\ form'.editing = form.editing /\ form'.showAdd = form.showAdd
    BY <1>1, <1>3, <1>6 DEF UserForm
  <2>2. V!Filled(past.base)[field] = past.base.role
    BY <1>2, <1>6 DEF V!Filled, V!UserRows
  <2>3. FilledIn(form', past'.base, past'.typed)
    BY <1>2, <1>5, <1>6, <2>1, <2>2 DEF FilledIn
  <2>4. QED
    BY <1>2, <1>4, <1>5, <2>1, <2>3 DEF UserInv
<1>7. CASE field = "scope"
  <2>1. /\ form' \in UserForm /\ form'.scope = value /\ form'.role = form.role
        /\ form'.editing = form.editing /\ form'.showAdd = form.showAdd
    BY <1>1, <1>3, <1>7 DEF UserForm
  <2>2. V!Filled(past.base)[field] = V!ParseScope(past.base.scope)
    BY <1>2, <1>7 DEF V!Filled, V!UserRows
  <2>3. FilledIn(form', past'.base, past'.typed)
    BY <1>2, <1>5, <1>7, <2>1, <2>2 DEF FilledIn
  <2>4. QED
    BY <1>2, <1>4, <1>5, <2>1, <2>3 DEF UserInv
<1>8. QED
  BY <1>6, <1>7

\* The server has done with a request that is no edit.
LEMMA UserServed == ASSUME UserInv, NEW i \in DOMAIN calls, V!Serve(i) PROVE UserInv'
<1>1. /\ UserSection /\ held \in UserLists /\ held.version # 0 /\ calls[i] \in UserCalls
  BY ElementOfSeq DEF UserInv, UserSection, SectionInv, SectionTyped
<1>2. held.rows \in UserTable
  BY <1>1 DEF UserLists, V!Unread
<1>3. UNCHANGED <<form, past>>
  BY DEF V!Serve
<1>4. UserSection'
  <2>1. CASE calls[i].kind = "create" /\ \E u \in People : V!Writes(i, V!Put(u, calls[i].row))
    <3>1. PICK u \in People : V!Writes(i, V!Put(u, calls[i].row))
      BY <2>1
    <3>2. calls[i].row \in V!UserRows
      BY <1>1, <2>1 DEF UserCalls
    <3>3. V!Put(u, calls[i].row) \in UserTable
      BY <1>2, <3>2 DEF V!Put, UserTable
    <3>4. QED
      BY <1>1, <3>1, <3>3, UserWritten
  <2>2. CASE V!There(calls[i].user) /\ V!Writes(i, V!Put(calls[i].user, V!Deleted))
    <3>1. V!Put(calls[i].user, V!Deleted) \in UserTable
      BY <1>2, <2>2 DEF V!Put, UserTable, V!There, V!NoRows
    <3>2. QED
      BY <1>1, <2>2, <3>1, UserWritten
  <2>3. CASE V!There(calls[i].user) /\ V!Writes(i, [held.rows EXCEPT ![calls[i].user].mfa = FALSE])
    <3>1. PICK u \in People : u = calls[i].user
      BY <2>3 DEF V!There
    <3>2. held.rows[u] \in V!UserRows
      BY <1>2, <2>3, <3>1 DEF V!There, UserTable
    <3>3. [held.rows[u] EXCEPT !.mfa = FALSE] \in V!UserRows
      BY <3>2, UserFacts
    <3>4. [held.rows EXCEPT ![u] = [held.rows[u] EXCEPT !.mfa = FALSE]] \in UserTable
      BY <1>2, <3>3 DEF UserTable
    <3>5. [held.rows EXCEPT ![u].mfa = FALSE] = [held.rows EXCEPT ![u] = [held.rows[u] EXCEPT !.mfa = FALSE]]
      BY <1>2 DEF UserTable
    <3>6. QED
      BY <1>1, <2>3, <3>1, <3>4, <3>5, UserWritten
  <2>4. CASE V!Refuses(i)
    BY <1>1, <2>4, UserRefused
  <2>5. QED
    BY <2>1, <2>2, <2>3, <2>4 DEF V!Serve
<1>5. QED
  BY <1>3, <1>4, UserFormKept

\* An edit writes what was typed, and nothing else.
LEMMA UserUpdated == ASSUME UserInv, NEW i \in DOMAIN calls, V!Update(i) PROVE UserInv'
<1>1. /\ UserSection /\ held \in UserLists /\ held.version # 0 /\ calls[i] \in UserCalls
      /\ past \in UserPast
  BY ElementOfSeq DEF UserInv, UserSection, SectionInv, SectionTyped
<1>2. held.rows \in UserTable
  BY <1>1 DEF UserLists, V!Unread
<1> DEFINE c == calls[i]
           r == held.rows[c.user]
           new == [r EXCEPT !.role = c.row.role, !.scope = c.row.scope]
           spilt == \E f \in {"role", "scope"} \ c.typed : new[f] # r[f] /\ ~V!Excused(r, c, f)
<1>3. /\ c.kind = "update" /\ V!There(c.user) /\ V!Writes(i, V!Put(c.user, new))
      /\ past' = [past EXCEPT !.spilt = past.spilt \/ spilt]
      /\ form' = form
  BY DEF V!Update
<1>4. c.row \in V!UserRows /\ FilledIn(c.row, c.base, c.typed) /\ c \in UserRequests
  BY <1>1, <1>3 DEF UserCalls
<1>5. c.user \in People /\ r \in V!UserRows
  BY <1>2, <1>3 DEF V!There, UserTable
<1>6. c.row.role \in {"admin", "viewer"} /\ c.row.scope \in V!Scopes
  BY <1>4 DEF V!UserRows
<1>7. new \in V!UserRows /\ new.role = c.row.role /\ new.scope = c.row.scope
  <2>1. new \in V!UserRows
    BY <1>5, <1>6, UserFacts
  <2>2. new.role = c.row.role /\ new.scope = c.row.scope
    BY <1>5 DEF V!UserRows
  <2>3. QED
    BY <2>1, <2>2
<1>8. V!Put(c.user, new) \in UserTable
  BY <1>2, <1>5, <1>7 DEF V!Put, UserTable
<1>9. UserSection'
  BY <1>1, <1>3, <1>8, UserWritten
<1>10. ~spilt
  <2>1. ASSUME "role" \notin c.typed, r.role = c.base.role PROVE new.role = r.role
    BY <1>4, <1>7, <2>1 DEF FilledIn
  <2>2. ASSUME "scope" \notin c.typed, r.scope = c.base.scope,
               V!ParseScope(c.base.scope) = c.base.scope
        PROVE  new.scope = r.scope
    BY <1>4, <1>7, <2>2 DEF FilledIn
  <2> HIDE DEF new, r, c
  <2>3. QED
    BY <2>1, <2>2 DEF V!Excused, spilt
<1> HIDE DEF spilt
<1>11. past' = past
  <2>1. past.spilt = FALSE /\ past = [base |-> past.base, typed |-> past.typed, spilt |-> past.spilt]
    BY <1>1 DEF UserPast
  <2>2. (past.spilt \/ spilt) = FALSE
    BY <1>10, <2>1
  <2>3. [past EXCEPT !.spilt = FALSE] = past
    BY <2>1
  <2>4. QED
    BY <1>3, <2>2, <2>3
<1>12. QED
  BY <1>3, <1>9, <1>11, UserFormKept

\* Each step of the section keeps UserInv.
LEMMA UserKept == UserInv /\ [V!Next]_sectionVars => UserInv'
<1> SUFFICES ASSUME UserInv, [V!Next]_sectionVars PROVE UserInv'
  OBVIOUS
<1>1. /\ UserSection /\ form \in UserForm /\ past \in UserPast /\ form.showAdd \in BOOLEAN
      /\ (~form.showAdd) \in BOOLEAN
  BY DEF UserInv, UserForm
<1>2. ASSUME V!ToggleAdd \/ V!CancelEdit PROVE UserInv'
  <2>1. UNCHANGED V!sectionVars /\ past' = V!Left
    BY <1>2 DEF V!ToggleAdd, V!CancelEdit
  <2>2. form' = V!Closed(form.showAdd) \/ form' = V!Closed(~form.showAdd)
    BY <1>2 DEF V!ToggleAdd, V!CancelEdit
  <2>3. QED
    BY <1>1, <2>1, <2>2, UserListKept, UserFormKept
<1>3. CASE V!HandleEditSubmit
  <2>1. /\ form.editing \in People /\ past.base \in V!UserRows
        /\ FilledIn(form, past.base, past.typed) /\ past.typed \in SUBSET {"role", "scope"}
        /\ form.role \in {"admin", "viewer"} /\ form.scope \in V!Scopes
    BY <1>1, <1>3, UserFacts DEF V!HandleEditSubmit, UserInv, UserForm, UserPast
  <2>2. PICK r : r = [role |-> form.role, scope |-> form.scope, mfa |-> FALSE]
    OBVIOUS
  <2>3. r \in V!UserRows
    BY <2>1, <2>2, UserFacts
  <2>4. FilledIn(r, past.base, past.typed)
    BY <2>1, <2>2 DEF FilledIn
  <2>5. V!Call("update", form.editing, r, past.base, past.typed) /\ UNCHANGED <<form, past>>
    BY <1>3, <2>2 DEF V!HandleEditSubmit
  <2>6. UserSection'
    BY <1>1, <2>1, <2>3, <2>4, <2>5, UserSent
  <2>7. QED
    BY <2>5, <2>6, UserFormKept
<1>4. CASE V!Reopen
  BY <1>1, <1>4, UserListKept, UserFormKept DEF V!Reopen
<1>5. CASE V!OtherAdmin
  <2>1. PICK change \in OtherRows : V!There(change[1]) /\ V!Elsewhere(V!Put(change[1], change[2]))
    BY <1>5 DEF V!OtherAdmin
  <2>2. change[1] \in People /\ change[2] \in V!UserRows
    BY <2>1, MenuAssumption DEF V!UsersAssumption
  <2>3. held \in UserLists /\ held.version # 0
    BY <1>1 DEF UserSection, SectionInv, SectionTyped
  <2>4. V!Put(change[1], change[2]) \in UserTable
    BY <2>2, <2>3 DEF V!Put, UserTable, UserLists, V!Unread
  <2>5. UserSection'
    BY <1>1, <2>1, <2>4, UserWritten
  <2>6. QED
    BY <1>5, <2>5, UserFormKept DEF V!OtherAdmin
<1>6. ASSUME NEW u \in People, V!HandleDelete(u) \/ V!HandleResetMfa(u) PROVE UserInv'
  <2>1. /\ UNCHANGED <<form, past>>
        /\ V!Call("delete", u, V!Absent, V!Absent, {}) \/ V!Call("reset", u, V!Absent, V!Absent, {})
    BY <1>6 DEF V!HandleDelete, V!HandleResetMfa
  <2>2. UserSection'
    BY <1>1, <2>1, UserSent
  <2>3. QED
    BY <2>1, <2>2, UserFormKept
<1>7. ASSUME NEW scope \in V!Typable, V!HandleAdd("viewer", scope) PROVE UserInv'
  <2>1. PICK r : r = [role |-> "viewer", scope |-> scope, mfa |-> FALSE]
    OBVIOUS
  <2>2. r \in V!UserRows
    BY <2>1, UserFacts
  <2>3. V!Call("create", V!None, r, V!Absent, {}) /\ UNCHANGED <<form, past>>
    BY <1>7, <2>1 DEF V!HandleAdd
  <2>4. UserSection'
    BY <1>1, <2>2, <2>3, UserSent
  <2>5. QED
    BY <2>3, <2>4, UserFormKept
<1>8. ASSUME NEW i \in DOMAIN calls, V!CreateAnswers(i) PROVE UserInv'
  <2>1. UserSection' /\ form' = [form EXCEPT !.showAdd = FALSE] /\ past' = past
    BY <1>1, <1>8, UserAcknowledged DEF V!CreateAnswers
  <2>2. /\ form' \in UserForm /\ form'.showAdd = FALSE /\ form'.editing = form.editing
        /\ form'.role = form.role /\ form'.scope = form.scope
    BY <1>1, <2>1 DEF UserForm
  <2>3. QED
    BY <2>1, <2>2 DEF UserInv, FilledIn
<1>9. ASSUME NEW i \in DOMAIN calls, V!RowAnswers(i) PROVE UserInv'
  BY <1>1, <1>9, UserAcknowledged, UserFormKept DEF V!RowAnswers
<1>10. ASSUME NEW i \in DOMAIN calls, V!UpdateAnswers(i) PROVE UserInv'
  BY <1>1, <1>10, UserAcknowledged, UserFormKept DEF V!UpdateAnswers
<1>11. ASSUME NEW i \in DOMAIN calls, V!CallFails(i), UNCHANGED <<form, past>> PROVE UserInv'
  BY <1>1, <1>11, UserListKept, UserFormKept
<1>12. ASSUME NEW i \in DOMAIN reads, V!ReadUsers(i) \/ V!ReadAnswers(i) \/ V!ReadFails(i),
              UNCHANGED <<form, past>>
       PROVE  UserInv'
  BY <1>1, <1>12, UserListKept, UserFormKept DEF V!ReadUsers
<1>13. CASE UNCHANGED sectionVars
  BY <1>1, <1>13, UserListKept, UserFormKept DEF sectionVars, V!sectionVars
<1>14. ASSUME NEW r \in {"admin", "viewer"}, V!Type("role", r) PROVE UserInv'
  BY <1>14, UserTypes
<1>15. ASSUME NEW scope \in V!Typable, V!Type("scope", scope) PROVE UserInv'
  BY <1>15, UserTypes
<1>16. QED
  BY <1>2, <1>3, <1>4, <1>5, <1>6, <1>7, <1>8, <1>9, <1>10, <1>11, <1>12, <1>13, <1>14, <1>15,
     UserFormKept, UserServed, UserUpdated DEF V!Next

\* The section opens with nothing edited.
LEMMA UserInitially == V!Init => UserInv
<1> SUFFICES ASSUME V!Init PROVE UserInv
  OBVIOUS
<1>1. /\ held = [rows |-> FirstPeople, version |-> 1] /\ list = V!Unread /\ reads = <<V!Unread>>
      /\ listing = TRUE /\ order = "pending" /\ calls = <<>> /\ told = 0
      /\ form = V!Closed(FALSE) /\ past = [base |-> V!Absent, typed |-> {}, spilt |-> FALSE]
  BY DEF V!Init, V!Mounted
<1>2. FirstPeople \in UserTable
  BY MenuAssumption DEF V!UsersAssumption, UserTable
<1>3. held \in UserLists /\ held.version = 1
  BY <1>1, <1>2, UserSets DEF UserLists
<1>4. UserSection
  BY <1>1, <1>3, UserSets, SectionOpens DEF UserSection
<1>5. form \in UserForm /\ form.editing = V!None
  BY <1>1, UserFacts DEF V!Closed, UserForm
<1>6. past \in UserPast
  BY <1>1 DEF UserPast
<1>7. QED
  BY <1>4, <1>5, <1>6 DEF UserInv

\* What was promised of the users.
LEMMA UsersAreHeld == UserInv => V!TypeOK /\ V!UsersHold
<1> SUFFICES ASSUME UserInv PROVE V!TypeOK /\ V!UsersHold
  OBVIOUS
<1>1. SectionTyped(UserLists, UserCalls, UserPending, UserWrites) /\ SectionCurrent /\ listing \in BOOLEAN
  BY DEF UserInv, UserSection, SectionInv
<1>2. \A v \in Nat : AnswerVersions(v) \subseteq V!Refused..v
  BY DEF AnswerVersions, Refused, V!Refused
<1>3. V!SectionTypeOK(UserPending)
  <2>1. /\ DOMAIN reads = 1..Len(reads) /\ DOMAIN calls = 1..Len(calls)
        /\ held.version \in Nat
    BY <1>1 DEF SectionTyped
  <2>2. QED
    BY <1>1, <1>2, <2>1 DEF SectionTyped, V!SectionTypeOK
<1>4. V!ListIsCurrent
  BY <1>1 DEF SectionCurrent, V!ListIsCurrent
<1>5. held.rows \in UserTable
  BY <1>1 DEF SectionTyped, UserLists, V!Unread
<1>6. V!TypeOK
  BY <1>3, <1>5 DEF UserInv, V!TypeOK, UserTable, UserForm, UserPast
<1>7. V!OneForm /\ V!EditsOnlyTheTyped
  BY DEF UserInv, V!OneForm, V!EditsOnlyTheTyped, UserPast
<1>8. QED
  BY <1>4, <1>6, <1>7 DEF V!UsersHold

-----------------------------------------------------------------------------
(* Remote sources.                                                         *)

\* Of the source itself: its credential, and the tick for its script.
Owns(s, auth) ==
    auth.secret \in {s, W!New} /\ (auth.type = "script" => auth.accepted \in {s, W!New})
SourceRows == [enabled : BOOLEAN, auth : W!Auths, why : {"there"}]
SourceTable ==
    {t \in [Sources -> {W!Absent, W!Deleted} \cup SourceRows] :
        \A s \in Sources : t[s].why = "there" => Owns(s, t[s].auth)}
SourceLists == {W!Unread} \cup [rows : SourceTable, version : 1..SourceWrites]

\* As a form leaves it: maybe without a credential.
FilledFor(s, auth) ==
    /\ auth.secret \in {s, W!None}
    /\ auth.type = "script" => auth.accepted = s
SourceRequests ==
    [kind : {"create", "delete", "toggle", "poll", "rotate", "update"},
     source : Sources \cup {W!None}, row : {W!Deleted} \cup SourceRows,
     here : BOOLEAN, version : Refused..SourceWrites]
SourceCalls ==
    {c \in SourceRequests :
        /\ c.kind = "create" => c.row \in SourceRows /\ FilledFor(W!New, c.row.auth)
        /\ c.kind = "rotate" =>
             c.source \in Sources /\ c.row \in SourceRows /\ FilledFor(c.source, c.row.auth)
        /\ c.kind = "toggle" => c.row \in SourceRows}
SourceLimit == SourcePending + 1
SourceSection == SectionInv(SourceLists, SourceCalls, SourceLimit, SourceWrites)

SourceEdits ==
    {e \in [editing : Sources \cup {W!None}, type : W!Types, filled : [W!Types -> W!Owners],
            accepted : W!Owners] :
        e.editing # W!None =>
            /\ \A t \in W!Types : e.filled[t] \in {e.editing, W!None}
            /\ e.accepted \in {e.editing, W!None}}
SourceForm == [showAdd : BOOLEAN, polling : Sources \cup {W!None}, edit : SourceEdits]

\* What a form or a request would write of a source was typed for that source.
SourceInv ==
    /\ SourceSection /\ form \in SourceForm
    /\ form.edit.editing # W!None => form.showAdd = FALSE
    /\ W!PollingIsTrue

\* Rows.
LEMMA SourceFacts ==
    /\ W!None \notin Sources /\ W!New \notin Sources /\ W!None # W!New
    /\ W!NoAuth \in W!Auths /\ W!Absent.why # "there" /\ W!Deleted.why # "there"
    /\ W!NewRow \in SourceRows /\ Owns(W!New, W!NewRow.auth)
    /\ \A enabled \in BOOLEAN, auth \in W!Auths : W!Row(enabled, auth) \in SourceRows
                                                  /\ W!Row(enabled, auth).auth = auth
    /\ \A r \in SourceRows, enabled \in BOOLEAN :
           [r EXCEPT !.enabled = enabled] \in SourceRows /\ [r EXCEPT !.enabled = enabled].auth = r.auth
    /\ \A r \in SourceRows, auth \in W!Auths :
           [r EXCEPT !.auth = auth] \in SourceRows /\ [r EXCEPT !.auth = auth].auth = auth
<1>1. W!None \notin Sources /\ W!New \notin Sources
  BY MenuAssumption DEF W!SourcesAssumption
<1>2. W!NoAuth \in W!Auths
  BY DEF W!NoAuth, W!Auths, W!Owners, W!Types
<1>3. W!Absent.why # "there" /\ W!Deleted.why # "there" /\ W!None # W!New
  BY DEF W!Absent, W!Deleted, W!NoRow, W!None, W!New
<1>4. /\ [W!NoAuth EXCEPT !.secret = W!New] \in W!Auths
      /\ [W!NoAuth EXCEPT !.secret = W!New].secret = W!New
      /\ [W!NoAuth EXCEPT !.secret = W!New].type = "key"
  BY DEF W!NoAuth, W!Auths, W!Owners, W!Types
<1>5. \A enabled \in BOOLEAN, auth \in W!Auths :
        W!Row(enabled, auth) \in SourceRows /\ W!Row(enabled, auth).auth = auth
  BY DEF W!Row, SourceRows
<1>6. TRUE \in BOOLEAN
  OBVIOUS
<1>7. W!NewRow \in SourceRows /\ W!NewRow.auth = [W!NoAuth EXCEPT !.secret = W!New]
  BY <1>4, <1>5, <1>6 DEF W!NewRow
<1>8. Owns(W!New, W!NewRow.auth)
  BY <1>4, <1>7 DEF Owns
<1>9. \A r \in SourceRows, enabled \in BOOLEAN :
        [r EXCEPT !.enabled = enabled] \in SourceRows /\ [r EXCEPT !.enabled = enabled].auth = r.auth
  BY DEF SourceRows
<1>10. \A r \in SourceRows, auth \in W!Auths :
        [r EXCEPT !.auth = auth] \in SourceRows /\ [r EXCEPT !.auth = auth].auth = auth
  BY DEF SourceRows
<1>11. QED
  BY <1>1, <1>2, <1>3, <1>5, <1>7, <1>8, <1>9, <1>10

\* What the lemmas about sections need to know of this one.
LEMMA SourceSets ==
    /\ SourceLimit \in Nat \ {0} /\ SourceWrites \in Nat \ {0} /\ SourcePending \in Nat
    /\ SectionSets(SourceLists, SourceCalls, W!Unread, SourceWrites)
<1>1. SourceLimit \in Nat \ {0} /\ SourceWrites \in Nat \ {0} /\ SourcePending \in Nat
  BY MenuAssumption DEF W!SourcesAssumption, W!SectionAssumption, SourceLimit
<1>2. W!Unread \in SourceLists /\ W!Unread.version = 0
  BY DEF W!Unread, SourceLists
<1>3. ASSUME NEW c \in SourceCalls
      PROVE  [c EXCEPT !.here = FALSE] \in SourceCalls /\ [c EXCEPT !.here = FALSE].version = c.version
  <2>1. /\ [c EXCEPT !.here = FALSE] \in SourceRequests
        /\ [c EXCEPT !.here = FALSE].kind = c.kind /\ [c EXCEPT !.here = FALSE].row = c.row
        /\ [c EXCEPT !.here = FALSE].source = c.source
        /\ [c EXCEPT !.here = FALSE].version = c.version
    BY DEF SourceCalls, SourceRequests
  <2>2. QED
    BY <2>1 DEF SourceCalls
<1>4. ASSUME NEW c \in SourceCalls, NEW v \in Refused..SourceWrites
      PROVE  [c EXCEPT !.version = v] \in SourceCalls /\ [c EXCEPT !.version = v].version = v
  <2>1. /\ [c EXCEPT !.version = v] \in SourceRequests
        /\ [c EXCEPT !.version = v].kind = c.kind /\ [c EXCEPT !.version = v].row = c.row
        /\ [c EXCEPT !.version = v].source = c.source /\ [c EXCEPT !.version = v].version = v
    BY DEF SourceCalls, SourceRequests
  <2>2. QED
    BY <2>1 DEF SourceCalls
<1>5. QED
  BY <1>1, <1>2, <1>3, <1>4 DEF SectionSets

\* What is sent.
SourceCall(kind, s, r) == [kind |-> kind, source |-> s, row |-> r, here |-> TRUE, version |-> 0]
\* A request for the sources that is sent from the section.
LEMMA SourceSent ==
    ASSUME NEW kind \in {"create", "delete", "toggle", "poll", "rotate", "update"},
           NEW s \in Sources \cup {W!None}, NEW r \in {W!Deleted} \cup SourceRows,
           kind = "create" => r \in SourceRows /\ FilledFor(W!New, r.auth),
           kind = "rotate" => s \in Sources /\ r \in SourceRows /\ FilledFor(s, r.auth),
           kind = "toggle" => r \in SourceRows,
           NEW limit \in {SourcePending, SourceLimit},
           SourceSection, W!SendWithin(limit, W!Request(kind, s, r))
    PROVE  SourceSection' /\ calls' = Append(calls, SourceCall(kind, s, r))
<1>1. 0 \in Refused..SourceWrites
  BY SourceSets DEF Refused
<1>2. /\ SourceCall(kind, s, r) \in SourceRequests
      /\ SourceCall(kind, s, r).kind = kind /\ SourceCall(kind, s, r).row = r
      /\ SourceCall(kind, s, r).source = s
  BY <1>1 DEF SourceRequests, SourceCall
<1>3. SourceCall(kind, s, r).version = 0
  BY DEF SourceCall
<1>4. SourceCall(kind, s, r) \in SourceCalls
  BY <1>2 DEF SourceCalls
<1>5. W!SendWithin(limit, SourceCall(kind, s, r))
  BY DEF W!Request, SourceCall
<1>6. /\ ListSame /\ told' = told /\ held' = held /\ Len(calls) + Len(reads) < limit
      /\ calls' = Append(calls, SourceCall(kind, s, r))
  BY <1>5 DEF W!SendWithin, W!KeepList, ListSame
<1>7. Len(calls) + Len(reads) < SourceLimit
  <2>1. Len(calls) \in Nat /\ Len(reads) \in Nat
    BY LenProperties DEF SourceSection, SectionInv, SectionTyped
  <2>2. QED
    BY <1>6, <2>1, SourceSets DEF SourceLimit
<1>8. QED
  BY <1>3, <1>4, <1>6, <1>7, SourceSets, SentKept DEF SourceSection

\* The server writes: at a request, or at somebody else's.
LEMMA SourceWritten ==
    ASSUME SourceSection, NEW rows \in SourceTable, NEW i,
           (i \in DOMAIN calls /\ W!Writes(i, rows)) \/ W!Elsewhere(rows)
    PROVE  SourceSection'
<1>1. /\ held \in SourceLists /\ held.version \in 1..SourceWrites /\ calls \in Seq(SourceCalls)
      /\ Len(calls) <= SourceLimit /\ Len(calls) + Len(reads) <= SourceLimit + 1
      /\ \A j \in 1..Len(calls) : calls[j].version \in AnswerVersions(held.version)
  BY DEF SourceSection, SectionInv, SectionTyped
<1>2. /\ held.version < SourceWrites /\ held' = [rows |-> rows, version |-> held.version + 1]
      /\ told' = told /\ ListSame
  BY DEF W!Writes, W!Elsewhere, W!KeepList, ListSame
<1>3. held' \in SourceLists /\ held'.version \in held.version..SourceWrites
  BY <1>1, <1>2, SourceSets DEF SourceLists
<1>4. \A j \in 1..Len(calls) : calls[j].version \in AnswerVersions(held'.version)
  BY <1>1, <1>2 DEF AnswerVersions, Refused
<1>5. CASE i \in DOMAIN calls /\ W!Writes(i, rows)
  <2>1. calls' = [calls EXCEPT ![i].version = held.version + 1] /\ i \in 1..Len(calls)
    BY <1>1, <1>5 DEF W!Writes, W!Served
  <2>2. held.version + 1 \in AnswerVersions(held'.version)
    BY <1>1, <1>2 DEF AnswerVersions, Refused
  <2>3. QED
    BY <1>2, <1>3, <2>1, <2>2, SourceSets, ServedKept DEF SourceSection
<1>6. CASE W!Elsewhere(rows)
  <2>1. calls' = calls
    BY <1>6 DEF W!Elsewhere
  <2>2. QED
    BY <1>1, <1>2, <1>3, <1>4, <2>1, SourceSets, ListSameKept DEF SourceSection
<1>7. QED
  BY <1>5, <1>6

\* The server refuses.
LEMMA SourceRefused ==
    ASSUME SourceSection, NEW i \in DOMAIN calls, W!Refuses(i)
    PROVE  SourceSection'
<1>1. held \in SourceLists /\ held.version \in 1..SourceWrites /\ calls \in Seq(SourceCalls)
  BY DEF SourceSection, SectionInv, SectionTyped
<1>2. /\ held' = held /\ calls' = [calls EXCEPT ![i].version = Refused] /\ told' = told /\ ListSame
      /\ i \in 1..Len(calls)
  BY <1>1 DEF W!Refuses, W!Served, W!Refused, Refused, W!KeepList, ListSame
<1>3. /\ held' \in SourceLists /\ held'.version \in held.version..SourceWrites
      /\ Refused \in AnswerVersions(held'.version)
  BY <1>1, <1>2, SourceSets DEF AnswerVersions, Refused
<1>4. QED
  BY <1>2, <1>3, SourceSets, ServedKept DEF SourceSection

\* A change was made: the list is read again.
LEMMA SourceAcknowledged ==
    ASSUME SourceSection, NEW i \in DOMAIN calls, W!Acknowledged(i) PROVE SourceSection'
<1>1. i \in 1..Len(calls)
  BY DEF SourceSection, SectionInv, SectionTyped
<1>2. /\ calls' = Without(calls, i) /\ calls[i].version > 0 /\ held' = held /\ list' = list
      /\ told' \in {told, calls[i].version} /\ reads' = Append(reads, W!Unread)
      /\ listing' = TRUE /\ order' = "pending"
  BY DEF W!Acknowledged, W!Refresh, W!Without, Without
<1>3. QED
  BY <1>1, <1>2, SourceSets, AcknowledgedKept DEF SourceSection

\* Reads, failures, a menu opened again.
LEMMA SourceListKept ==
    ASSUME SourceSection
    PROVE  /\ UNCHANGED W!sectionVars => SourceSection'
           /\ W!Remount => SourceSection'
           /\ \A i \in DOMAIN calls : W!CallFails(i) => SourceSection'
           /\ \A i \in DOMAIN reads : W!ReadRows(i) \/ W!ReadAnswers(i) \/ W!ReadFails(i) => SourceSection'
<1>1. DOMAIN calls = 1..Len(calls) /\ DOMAIN reads = 1..Len(reads)
  BY DEF SourceSection, SectionInv, SectionTyped
<1>2. ASSUME UNCHANGED W!sectionVars PROVE SourceSection'
  BY <1>2, SourceSets, SectionStays DEF W!sectionVars, SourceSection
<1>3. ASSUME W!Remount PROVE SourceSection'
  <2>1. /\ held' = held /\ list' = W!Unread /\ reads' = <<W!Unread>> /\ listing' = TRUE
        /\ order' = "pending" /\ told' = 0
        /\ calls' = [i \in DOMAIN calls |-> [calls[i] EXCEPT !.here = FALSE]]
    BY <1>3 DEF W!Remount
  <2>2. QED
    BY <2>1, SourceSets, RemountKept DEF SourceSection
<1>4. ASSUME NEW i \in DOMAIN calls, W!CallFails(i) PROVE SourceSection'
  <2>1. ListSame /\ told' = told /\ held' = held /\ calls' = Without(calls, i) /\ i \in 1..Len(calls)
    BY <1>1, <1>4 DEF W!CallFails, W!KeepList, ListSame, W!Without, Without
  <2>2. QED
    BY <2>1, SourceSets, DroppedKept DEF SourceSection
<1>5. ASSUME NEW i \in DOMAIN reads, W!ReadRows(i) PROVE SourceSection'
  <2>1. /\ reads' = [reads EXCEPT ![i] = held] /\ i \in 1..Len(reads)
        /\ UNCHANGED <<held, list, listing, calls, told, order>>
    BY <1>1, <1>5 DEF W!ReadRows
  <2>2. QED
    BY <2>1, SourceSets, ReadRowsKept DEF SourceSection
<1>6. ASSUME NEW i \in DOMAIN reads, W!ReadAnswers(i) \/ W!ReadFails(i) PROVE SourceSection'
  <2>1. W!ReadEnds(i) /\ ((list' = reads[i] /\ reads[i].version # 0) \/ list' = W!Unread)
    BY <1>6 DEF W!ReadAnswers, W!ReadFails
  <2>2. /\ reads' = Without(reads, i) /\ i \in 1..Len(reads) /\ listing' = FALSE
        /\ order' = IF order = "pending" THEN IF i < Len(reads) THEN "pending" ELSE "last"
                    ELSE "overtaken"
        /\ UNCHANGED <<held, calls, told>>
    BY <1>1, <2>1 DEF W!ReadEnds, W!Without, Without
  <2>3. QED
    BY <2>1, <2>2, SourceSets, ReadEndsKept DEF SourceSection
<1>7. QED
  BY <1>2, <1>3, <1>4, <1>5, <1>6
\* The list has a row for the id of a button.
LEMMA SourceRow ==
    ASSUME SourceSection, NEW s \in Sources, W!Listed(s)
    PROVE  list.rows[s] \in SourceRows
<1>1. list \in SourceLists /\ list.version # 0
  BY DEF SourceSection, SectionInv, SectionTyped, W!Listed, W!Offered
<1>2. list.rows \in SourceTable /\ list.rows[s].why = "there"
  BY <1>1 DEF SourceLists, W!Unread, W!Listed
<1>3. list.rows[s] \in {W!Absent, W!Deleted} \cup SourceRows
  BY <1>2 DEF SourceTable
<1>4. QED
  BY <1>2, <1>3, SourceFacts

\* One row of the server's is written.
LEMMA SourcePut ==
    ASSUME NEW t \in SourceTable, NEW s \in Sources, NEW r \in {W!Absent, W!Deleted} \cup SourceRows,
           r.why = "there" => Owns(s, r.auth)
    PROVE  [t EXCEPT ![s] = r] \in SourceTable
<1>1. t \in [Sources -> {W!Absent, W!Deleted} \cup SourceRows]
      /\ \A x \in Sources : t[x].why = "there" => Owns(x, t[x].auth)
  BY DEF SourceTable
<1>2. [t EXCEPT ![s] = r] \in [Sources -> {W!Absent, W!Deleted} \cup SourceRows]
  BY <1>1
<1>3. ASSUME NEW x \in Sources, [t EXCEPT ![s] = r][x].why = "there"
      PROVE  Owns(x, [t EXCEPT ![s] = r][x].auth)
  <2>1. CASE x = s
    <3>1. [t EXCEPT ![s] = r][x] = r
      BY <1>1, <2>1
    <3>2. QED
      BY <1>3, <2>1, <3>1
  <2>2. CASE x # s
    <3>1. [t EXCEPT ![s] = r][x] = t[x]
      BY <1>1, <2>2
    <3>2. QED
      BY <1>1, <1>3, <3>1
  <2>3. QED
    BY <2>1, <2>2
<1>4. QED
  BY <1>2, <1>3 DEF SourceTable

\* A source that is there has a credential of its own.
LEMMA SourceThere ==
    ASSUME SourceSection, NEW s, W!There(s)
    PROVE  held.rows \in SourceTable /\ s \in Sources /\ held.rows[s] \in SourceRows
           /\ Owns(s, held.rows[s].auth)
<1>1. held \in SourceLists /\ held.version # 0 /\ s \in Sources /\ held.rows[s].why = "there"
  BY DEF SourceSection, SectionInv, SectionTyped, W!There
<1>2. held.rows \in SourceTable
  BY <1>1 DEF SourceLists, W!Unread
<1>3. held.rows[s] \in {W!Absent, W!Deleted} \cup SourceRows /\ Owns(s, held.rows[s].auth)
  BY <1>1, <1>2 DEF SourceTable
<1>4. QED
  BY <1>1, <1>2, <1>3, SourceFacts

\* The server has done with a request: whatever it writes stays the source's own.
LEMMA SourceServed ==
    ASSUME SourceSection, NEW i \in DOMAIN calls, W!Serve(i) PROVE SourceSection'
<1> DEFINE c == calls[i]
           Set(r) == W!Writes(i, [held.rows EXCEPT ![c.source] = r])
<1>1. c \in SourceCalls /\ held \in SourceLists /\ held.version # 0
  BY ElementOfSeq DEF SourceSection, SectionInv, SectionTyped
<1>2. held.rows \in SourceTable
  BY <1>1 DEF SourceLists, W!Unread
<1>3. c \in SourceRequests
  BY <1>1 DEF SourceCalls
<1>4. ASSUME NEW r \in {W!Absent, W!Deleted} \cup SourceRows, W!There(c.source),
             r.why = "there" => Owns(c.source, r.auth), Set(r)
      PROVE  SourceSection'
  <2>1. [held.rows EXCEPT ![c.source] = r] \in SourceTable
    BY <1>4, SourceThere, SourcePut
  <2>2. QED
    BY <1>4, <2>1, SourceWritten
<1>5. CASE /\ c.kind = "create" /\ c.row.auth.secret # W!None
           /\ \E s \in Sources : W!Writes(i, [held.rows EXCEPT ![s] = c.row])
  <2>1. PICK s \in Sources : W!Writes(i, [held.rows EXCEPT ![s] = c.row])
    BY <1>5
  <2>2. c.row \in SourceRows /\ FilledFor(W!New, c.row.auth)
    BY <1>1, <1>5 DEF SourceCalls
  <2>3. Owns(s, c.row.auth)
    BY <1>5, <2>2 DEF FilledFor, Owns
  <2>4. [held.rows EXCEPT ![s] = c.row] \in SourceTable
    BY <1>2, <2>2, <2>3, SourcePut
  <2>5. QED
    BY <2>1, <2>4, SourceWritten
<1>6. CASE W!There(c.source) /\ Set(W!Deleted)
  <2>1. W!Deleted.why # "there"
    BY SourceFacts
  <2>2. QED
    BY <1>4, <1>6, <2>1
<1>7. CASE c.kind = "toggle" /\ W!There(c.source)
           /\ Set([held.rows[c.source] EXCEPT !.enabled = c.row.enabled])
  <2>1. PICK r : r = [held.rows[c.source] EXCEPT !.enabled = c.row.enabled]
    OBVIOUS
  <2>2. c.row \in SourceRows
    BY <1>1, <1>7 DEF SourceCalls
  <2>3. c.row.enabled \in BOOLEAN
    BY <2>2 DEF SourceRows
  <2>4. held.rows[c.source] \in SourceRows /\ Owns(c.source, held.rows[c.source].auth)
    BY <1>7, SourceThere
  <2>5. r \in SourceRows /\ r.auth = held.rows[c.source].auth
    BY <2>1, <2>3, <2>4, SourceFacts
  <2>6. Set(r)
    BY <1>7, <2>1
  <2>7. QED
    BY <1>4, <1>7, <2>4, <2>5, <2>6
<1>8. CASE c.kind = "rotate" /\ W!There(c.source) /\ c.row.auth.secret # W!None
           /\ Set([held.rows[c.source] EXCEPT !.auth = c.row.auth])
  <2>1. PICK r : r = [held.rows[c.source] EXCEPT !.auth = c.row.auth]
    OBVIOUS
  <2>2. c.row \in SourceRows /\ FilledFor(c.source, c.row.auth)
    BY <1>1, <1>8 DEF SourceCalls
  <2>3. c.row.auth \in W!Auths /\ Owns(c.source, c.row.auth)
    BY <1>8, <2>2 DEF SourceRows, FilledFor, Owns
  <2>4. held.rows[c.source] \in SourceRows
    BY <1>8, SourceThere
  <2>5. r \in SourceRows /\ r.auth = c.row.auth
    BY <2>1, <2>3, <2>4, SourceFacts
  <2>6. Set(r)
    BY <1>8, <2>1
  <2>7. QED
    BY <1>4, <1>8, <2>3, <2>5, <2>6
<1>9. CASE W!There(c.source) /\ Set(held.rows[c.source])
  BY <1>4, <1>9, SourceThere
<1>10. CASE W!Refuses(i)
  BY <1>10, SourceRefused
<1>11. QED
  BY <1>5, <1>6, <1>7, <1>8, <1>9, <1>10 DEF W!Serve

\* Somebody else's change.
LEMMA SourceElsewhere == ASSUME SourceSection, W!OtherAdmin PROVE SourceSection'
<1>1. PICK s \in Sources :
        /\ W!There(s)
        /\ \/ W!Elsewhere([held.rows EXCEPT ![s] = W!Deleted])
           \/ W!Elsewhere([held.rows EXCEPT ![s].enabled = ~held.rows[s].enabled])
  BY DEF W!OtherAdmin
<1>2. /\ held.rows \in SourceTable /\ held.rows[s] \in SourceRows /\ Owns(s, held.rows[s].auth)
  BY <1>1, SourceThere
<1>3. CASE W!Elsewhere([held.rows EXCEPT ![s] = W!Deleted])
  <2>1. [held.rows EXCEPT ![s] = W!Deleted] \in SourceTable
    BY <1>2, SourceFacts, SourcePut
  <2>2. QED
    BY <1>3, <2>1, SourceWritten
<1>4. CASE W!Elsewhere([held.rows EXCEPT ![s].enabled = ~held.rows[s].enabled])
  <2>1. PICK b \in BOOLEAN : b = ~held.rows[s].enabled
    BY <1>2 DEF SourceRows
  <2>2. PICK r : r = [held.rows[s] EXCEPT !.enabled = b]
    OBVIOUS
  <2>3. r \in SourceRows /\ r.auth = held.rows[s].auth
    BY <1>2, <2>1, <2>2, SourceFacts
  <2>4. [held.rows EXCEPT ![s] = r] \in SourceTable
    BY <1>2, <2>3, SourcePut
  <2>5. [held.rows EXCEPT ![s].enabled = ~held.rows[s].enabled] = [held.rows EXCEPT ![s] = r]
    BY <1>2, <2>1, <2>2 DEF SourceTable
  <2>6. QED
    BY <1>4, <2>4, <2>5, SourceWritten
<1>5. QED
  BY <1>1, <1>3, <1>4

-----------------------------------------------------------------------------
(* "Polling..."                                                            *)

Polls(i, s) == calls[i].here /\ calls[i].kind = "poll" /\ calls[i].source = s

\* While nothing is polled by hand there is nothing to show; a poll under way
\* stays under way until its own answer.
LEMMA PollShown ==
    ASSUME SourceSection, W!PollingIsTrue, form'.polling = form.polling
    PROVE  /\ calls' = calls => W!PollingIsTrue'
           /\ \A call : calls' = Append(calls, call) => W!PollingIsTrue'
           /\ \A i \in DOMAIN calls : \A v : calls' = [calls EXCEPT ![i].version = v] => W!PollingIsTrue'
           /\ \A i \in DOMAIN calls :
                calls' = Without(calls, i) /\ ~(calls[i].here /\ calls[i].kind = "poll")
                => W!PollingIsTrue'
<1>1. calls \in Seq(SourceCalls) /\ DOMAIN calls = 1..Len(calls) /\ Len(calls) \in Nat
  BY LenProperties DEF SourceSection, SectionInv, SectionTyped
<1>2. CASE form.polling = W!None
  BY <1>2 DEF W!PollingIsTrue
<1>3. CASE form.polling # W!None
  <2>1. PICK k \in DOMAIN calls : Polls(k, form.polling)
    BY <1>3 DEF W!PollingIsTrue, Polls
  <2>2. SUFFICES /\ calls' = calls => \E j \in DOMAIN calls' : Polls(j, form.polling)'
                 /\ \A call : calls' = Append(calls, call) => \E j \in DOMAIN calls' : Polls(j, form.polling)'
                 /\ \A i \in DOMAIN calls : \A v : calls' = [calls EXCEPT ![i].version = v]
                      => \E j \in DOMAIN calls' : Polls(j, form.polling)'
                 /\ \A i \in DOMAIN calls :
                      calls' = Without(calls, i) /\ ~(calls[i].here /\ calls[i].kind = "poll")
                      => \E j \in DOMAIN calls' : Polls(j, form.polling)'
    BY DEF W!PollingIsTrue, Polls
  <2>3. ASSUME NEW j \in DOMAIN calls', calls'[j] = calls[k]
        PROVE  \E x \in DOMAIN calls' : Polls(x, form.polling)'
    BY <2>1, <2>3 DEF Polls
  <2>4. ASSUME calls' = calls PROVE \E j \in DOMAIN calls' : Polls(j, form.polling)'
    BY <2>3, <2>4
  <2>5. ASSUME NEW call, calls' = Append(calls, call)
        PROVE  \E j \in DOMAIN calls' : Polls(j, form.polling)'
    <3>1. k \in DOMAIN calls' /\ calls'[k] = calls[k]
      BY <1>1, <2>5
    <3>2. QED
      BY <2>3, <3>1
  <2>6. ASSUME NEW i \in DOMAIN calls, NEW v, calls' = [calls EXCEPT ![i].version = v]
        PROVE  \E j \in DOMAIN calls' : Polls(j, form.polling)'
    <3>1. DOMAIN calls' = DOMAIN calls
      BY <2>6
    <3>2. CASE k # i
      <4>1. calls'[k] = calls[k]
        BY <2>6, <3>2
      <4>2. QED
        BY <2>3, <3>1, <4>1
    <3>3. CASE k = i
      <4>1. calls'[k] = [calls[k] EXCEPT !.version = v] /\ calls[k] \in SourceRequests
        BY <1>1, <2>6, <3>3, ElementOfSeq DEF SourceCalls
      <4>2. /\ calls'[k].here = calls[k].here /\ calls'[k].kind = calls[k].kind
            /\ calls'[k].source = calls[k].source
        BY <4>1 DEF SourceRequests
      <4>3. QED
        BY <2>1, <3>1, <4>2 DEF Polls
    <3>4. QED
      BY <3>2, <3>3
  <2>7. ASSUME NEW i \in DOMAIN calls, calls' = Without(calls, i),
               ~(calls[i].here /\ calls[i].kind = "poll")
        PROVE  \E j \in DOMAIN calls' : Polls(j, form.polling)'
    <3>1. k # i
      BY <2>1, <2>7 DEF Polls
    <3>2. /\ i \in 1..Len(calls) /\ calls' \in Seq(SourceCalls) /\ Len(calls') = Len(calls) - 1
          /\ \A j \in 1..Len(calls) - 1 : calls'[j] = IF j < i THEN calls[j] ELSE calls[j + 1]
      BY <1>1, <2>7, Removed
    <3>3. DOMAIN calls' = 1..Len(calls) - 1
      BY <3>2
    <3>4. CASE k < i
      <4>1. k \in 1..Len(calls) - 1 /\ calls'[k] = calls[k]
        BY <1>1, <3>2, <3>4
      <4>2. QED
        BY <2>3, <3>3, <4>1
    <3>5. CASE ~(k < i)
      <4>1. /\ k \in 1..Len(calls) /\ i \in 1..Len(calls) /\ Len(calls) \in Nat /\ k # i
            /\ ~(k < i)
        BY <1>1, <3>1, <3>2, <3>5
      <4>2. k - 1 \in 1..Len(calls) - 1 /\ k - 1 + 1 = k /\ ~(k - 1 < i)
        BY ONLY <4>1
      <4>3. calls'[k - 1] = calls[k]
        BY <3>2, <4>2
      <4>4. QED
        BY <2>3, <3>3, <4>2, <4>3
    <3>6. QED
      BY <3>4, <3>5
  <2>8. QED
    BY <2>4, <2>5, <2>6, <2>7
<1>4. QED
  BY <1>2, <1>3

-----------------------------------------------------------------------------
(* The section of the sources, step by step.                               *)

SourceFormOf(b, p, e) == [showAdd |-> b, polling |-> p, edit |-> e]

\* The form taken apart.
LEMMA SourceFields ==
    ASSUME form \in SourceForm
    PROVE  /\ form.showAdd \in BOOLEAN /\ form.polling \in Sources \cup {W!None}
           /\ form.edit \in SourceEdits
           /\ form = SourceFormOf(form.showAdd, form.polling, form.edit)
           /\ \A b, e : [form EXCEPT !.showAdd = b, !.edit = e] = SourceFormOf(b, form.polling, e)
           /\ \A e : [form EXCEPT !.edit = e] = SourceFormOf(form.showAdd, form.polling, e)
           /\ \A p : [form EXCEPT !.polling = p] = SourceFormOf(form.showAdd, p, form.edit)
           /\ \A b : [form EXCEPT !.showAdd = b] = SourceFormOf(b, form.polling, form.edit)
<1>1. /\ form.showAdd \in BOOLEAN /\ form.polling \in Sources \cup {W!None}
      /\ form.edit \in SourceEdits
  BY DEF SourceForm
<1>2. form = SourceFormOf(form.showAdd, form.polling, form.edit)
  BY DEF SourceForm, SourceFormOf
<1>3. ASSUME NEW e PROVE [form EXCEPT !.edit = e] = SourceFormOf(form.showAdd, form.polling, e)
  BY DEF SourceForm, SourceFormOf
<1>4. ASSUME NEW p PROVE [form EXCEPT !.polling = p] = SourceFormOf(form.showAdd, p, form.edit)
  BY DEF SourceForm, SourceFormOf
<1>5. ASSUME NEW b PROVE [form EXCEPT !.showAdd = b] = SourceFormOf(b, form.polling, form.edit)
  BY DEF SourceForm, SourceFormOf
<1>6. ASSUME NEW b, NEW e
      PROVE  [form EXCEPT !.showAdd = b, !.edit = e] = SourceFormOf(b, form.polling, e)
  <2>1. PICK opened : opened = [form EXCEPT !.showAdd = b]
    OBVIOUS
  <2>2. opened = SourceFormOf(b, form.polling, form.edit)
    BY <1>5, <2>1
  <2>3. [opened EXCEPT !.edit = e] = SourceFormOf(b, form.polling, e)
    BY <2>2 DEF SourceFormOf
  <2>4. QED
    BY <2>1, <2>3
<1>7. QED
  BY <1>1, <1>2, <1>3, <1>4, <1>5, <1>6, Zenon

\* And put together again.
LEMMA SourceFormKept ==
    ASSUME SourceSection', W!PollingIsTrue', NEW b \in BOOLEAN, NEW p \in Sources \cup {W!None},
           NEW e \in SourceEdits, form' = SourceFormOf(b, p, e), e.editing # W!None => b = FALSE
    PROVE  SourceInv'
<1>1. form' \in SourceForm
  BY DEF SourceForm, SourceFormOf
<1>2. form'.edit = e /\ form'.showAdd = b
  BY DEF SourceFormOf
<1>3. QED
  BY <1>1, <1>2 DEF SourceInv

\* A form newly filled in has nothing of another source's.
LEMMA SourceEmpty ==
    ASSUME NEW s \in Sources \cup {W!None}, NEW type \in W!Types
    PROVE  W!EmptyFields(s, type) \in SourceEdits /\ W!EmptyFields(s, type).editing = s
BY DEF W!EmptyFields, SourceEdits, W!Owners

\* A field of the form: the type chosen, a credential, the tick.
LEMMA SourceTypes ==
    ASSUME NEW e \in SourceEdits, e.editing # W!None
    PROVE  /\ \A type \in W!Types : [e EXCEPT !.type = type] \in SourceEdits
                                    /\ [e EXCEPT !.type = type].editing = e.editing
           /\ [e EXCEPT !.filled = [e.filled EXCEPT ![e.type] = e.editing]] \in SourceEdits
           /\ [e EXCEPT !.filled = [e.filled EXCEPT ![e.type] = e.editing]].editing = e.editing
           /\ \A owner1 \in {e.editing, W!None} : [e EXCEPT !.accepted = owner1] \in SourceEdits
                                    /\ [e EXCEPT !.accepted = owner1].editing = e.editing
<1>1. /\ e.editing \in Sources /\ e.type \in W!Types /\ e.filled \in [W!Types -> W!Owners]
      /\ \A t \in W!Types : e.filled[t] \in {e.editing, W!None}
      /\ e.accepted \in {e.editing, W!None} /\ e.editing \in W!Owners /\ W!None \in W!Owners
  BY DEF SourceEdits, W!Owners
<1>2. /\ [e.filled EXCEPT ![e.type] = e.editing] \in [W!Types -> W!Owners]
      /\ \A t \in W!Types : [e.filled EXCEPT ![e.type] = e.editing][t] \in {e.editing, W!None}
  BY <1>1
<1>3. ASSUME NEW type \in W!Types
      PROVE  [e EXCEPT !.type = type] \in SourceEdits /\ [e EXCEPT !.type = type].editing = e.editing
  BY DEF SourceEdits
<1>4. ASSUME NEW owner1 \in {e.editing, W!None}
      PROVE  /\ [e EXCEPT !.accepted = owner1] \in SourceEdits
             /\ [e EXCEPT !.accepted = owner1].editing = e.editing
  BY <1>1 DEF SourceEdits
<1>5. PICK filled : filled = [e.filled EXCEPT ![e.type] = e.editing]
  OBVIOUS
<1>6. [e EXCEPT !.filled = filled] \in SourceEdits /\ [e EXCEPT !.filled = filled].editing = e.editing
  BY <1>2, <1>5 DEF SourceEdits
<1>7. QED
  BY <1>3, <1>4, <1>5, <1>6

\* Steps that leave the form alone, or close it.
LEMMA SourceAlone ==
    ASSUME SourceInv, SourceSection', W!PollingIsTrue'
    PROVE  /\ form' = form => SourceInv'
           /\ \A b \in BOOLEAN : form' = [form EXCEPT !.showAdd = b, !.edit = W!Closed] => SourceInv'
           /\ form' = [form EXCEPT !.edit = W!Closed] => SourceInv'
           /\ form' = [form EXCEPT !.showAdd = FALSE] => SourceInv'
           /\ \A p \in Sources \cup {W!None} : form' = [form EXCEPT !.polling = p] => SourceInv'
<1>1. form \in SourceForm /\ (form.edit.editing # W!None => form.showAdd = FALSE)
  BY DEF SourceInv
<1>2. /\ form.showAdd \in BOOLEAN /\ form.polling \in Sources \cup {W!None}
      /\ form.edit \in SourceEdits
      /\ form = SourceFormOf(form.showAdd, form.polling, form.edit)
      /\ \A b, e : [form EXCEPT !.showAdd = b, !.edit = e] = SourceFormOf(b, form.polling, e)
      /\ \A e : [form EXCEPT !.edit = e] = SourceFormOf(form.showAdd, form.polling, e)
      /\ \A p : [form EXCEPT !.polling = p] = SourceFormOf(form.showAdd, p, form.edit)
      /\ \A b : [form EXCEPT !.showAdd = b] = SourceFormOf(b, form.polling, form.edit)
  BY <1>1, SourceFields
<1>3. W!Closed \in SourceEdits /\ W!Closed.editing = W!None
  BY SourceEmpty DEF W!Closed, W!Types
<1>4. ASSUME form' = form PROVE SourceInv'
  <2>1. form' = SourceFormOf(form.showAdd, form.polling, form.edit)
    BY <1>2, <1>4
  <2>2. QED
    BY <1>1, <1>2, <2>1, SourceFormKept
<1>5. ASSUME NEW b \in BOOLEAN, form' = [form EXCEPT !.showAdd = b, !.edit = W!Closed] PROVE SourceInv'
  <2>1. form' = SourceFormOf(b, form.polling, W!Closed)
    BY <1>2, <1>5
  <2>2. QED
    BY <1>2, <1>3, <2>1, SourceFormKept
<1>6. ASSUME form' = [form EXCEPT !.edit = W!Closed] PROVE SourceInv'
  <2>1. form' = SourceFormOf(form.showAdd, form.polling, W!Closed)
    BY <1>2, <1>6
  <2>2. QED
    BY <1>2, <1>3, <2>1, SourceFormKept
<1>7. ASSUME form' = [form EXCEPT !.showAdd = FALSE] PROVE SourceInv'
  <2>1. form' = SourceFormOf(FALSE, form.polling, form.edit)
    BY <1>2, <1>7
  <2>2. QED
    BY <1>2, <2>1, SourceFormKept
<1>8. ASSUME NEW p \in Sources \cup {W!None}, form' = [form EXCEPT !.polling = p] PROVE SourceInv'
  <2>1. form' = SourceFormOf(form.showAdd, p, form.edit)
    BY <1>2, <1>8
  <2>2. QED
    BY <1>1, <1>2, <2>1, SourceFormKept
<1>9. QED
  BY <1>4, <1>5, <1>6, <1>7, <1>8

\* The form is opened for a row, or typed into.
LEMMA SourceEdited ==
    ASSUME SourceInv,
           \/ \E s \in Sources : W!StartEdit(s)
           \/ W!Fill \/ W!Accept \/ \E type \in W!Types : W!ChooseType(type)
    PROVE  SourceInv'
<1>1. /\ form \in SourceForm /\ SourceSection /\ W!PollingIsTrue
      /\ (form.edit.editing # W!None => form.showAdd = FALSE)
  BY DEF SourceInv
<1>2. /\ form.showAdd \in BOOLEAN /\ form.polling \in Sources \cup {W!None}
      /\ form.edit \in SourceEdits
      /\ \A b, e : [form EXCEPT !.showAdd = b, !.edit = e] = SourceFormOf(b, form.polling, e)
      /\ \A e : [form EXCEPT !.edit = e] = SourceFormOf(form.showAdd, form.polling, e)
  BY <1>1, SourceFields
<1>3. UNCHANGED W!sectionVars
  BY DEF W!StartEdit, W!Fill, W!Accept, W!ChooseType
<1>4. SourceSection'
  BY <1>1, <1>3, SourceListKept
<1>5. ASSUME NEW b \in BOOLEAN, NEW e \in SourceEdits, form' = SourceFormOf(b, form.polling, e),
             e.editing # W!None => b = FALSE
      PROVE  SourceInv'
  <2>1. form'.polling = form.polling /\ calls' = calls
    BY <1>3, <1>5 DEF SourceFormOf, W!sectionVars
  <2>2. W!PollingIsTrue'
    BY <1>1, <2>1, PollShown
  <2>3. QED
    BY <1>2, <1>4, <1>5, <2>2, SourceFormKept
<1>6. ASSUME NEW s \in Sources, W!StartEdit(s) PROVE SourceInv'
  <2>1. list.rows[s] \in SourceRows
    BY <1>1, <1>6, SourceRow DEF W!StartEdit, W!Buttons
  <2>2. PICK type \in W!Types : type = list.rows[s].auth.type
    BY <2>1 DEF SourceRows, W!Auths
  <2>3. form' = SourceFormOf(FALSE, form.polling, W!EmptyFields(s, type))
    BY <1>2, <1>6, <2>2 DEF W!StartEdit
  <2>4. W!EmptyFields(s, type) \in SourceEdits
    BY SourceEmpty
  <2>5. QED
    BY <1>5, <2>3, <2>4
<1>7. ASSUME NEW new \in SourceEdits, form.edit.editing # W!None, new.editing = form.edit.editing,
             form' = [form EXCEPT !.edit = new]
      PROVE  SourceInv'
  <2>1. form' = SourceFormOf(form.showAdd, form.polling, new) /\ form.showAdd = FALSE
    BY <1>1, <1>2, <1>7
  <2>2. QED
    BY <1>2, <1>5, <1>7, <2>1
<1>8. CASE W!Fill
  <2>1. PICK new : new = [form.edit EXCEPT !.filled = [form.edit.filled EXCEPT ![form.edit.type] = form.edit.editing]]
    OBVIOUS
  <2>2. form.edit.editing # W!None
    BY <1>8 DEF W!Fill, W!EditForm, W!edit
  <2>3. new \in SourceEdits /\ new.editing = form.edit.editing
    BY <1>2, <2>1, <2>2, SourceTypes
  <2>4. form' = [form EXCEPT !.edit.filled[form.edit.type] = form.edit.editing]
    BY <1>8 DEF W!Fill, W!edit
  <2>5. [form EXCEPT !.edit.filled[form.edit.type] = form.edit.editing] = [form EXCEPT !.edit = new]
    BY <1>1, <1>2, <2>1 DEF SourceForm, SourceEdits
  <2>6. QED
    BY <1>7, <2>2, <2>3, <2>4, <2>5
<1>9. CASE W!Accept
  <2>1. PICK to \in {form.edit.editing, W!None} :
            to = IF form.edit.accepted = W!None THEN form.edit.editing ELSE W!None
    OBVIOUS
  <2>2. form.edit.editing # W!None
    BY <1>9 DEF W!Accept, W!EditForm, W!edit
  <2>3. /\ [form.edit EXCEPT !.accepted = to] \in SourceEdits
        /\ [form.edit EXCEPT !.accepted = to].editing = form.edit.editing
    BY <1>2, <2>1, <2>2, SourceTypes
  <2>4. form' = [form EXCEPT !.edit.accepted = to]
    BY <1>9, <2>1 DEF W!Accept, W!edit
  <2>5. [form EXCEPT !.edit.accepted = to] = [form EXCEPT !.edit = [form.edit EXCEPT !.accepted = to]]
    BY <1>1 DEF SourceForm
  <2>6. QED
    BY <1>7, <2>2, <2>3, <2>4, <2>5
<1>10. ASSUME NEW type \in W!Types, W!ChooseType(type) PROVE SourceInv'
  <2>1. form.edit.editing # W!None /\ form' = [form EXCEPT !.edit.type = type]
    BY <1>10 DEF W!ChooseType, W!EditForm, W!edit
  <2>2. /\ [form.edit EXCEPT !.type = type] \in SourceEdits
        /\ [form.edit EXCEPT !.type = type].editing = form.edit.editing
    BY <1>2, <2>1, SourceTypes
  <2>3. [form EXCEPT !.edit.type = type] = [form EXCEPT !.edit = [form.edit EXCEPT !.type = type]]
    BY <1>1 DEF SourceForm
  <2>4. QED
    BY <1>7, <2>1, <2>2, <2>3
<1>11. QED
  BY <1>6, <1>8, <1>9, <1>10

\* The edit form is sent: the credential with it, or not.
LEMMA SourceSubmitted ==
    ASSUME SourceInv, NEW rotate \in BOOLEAN, W!HandleEditSubmit(rotate)
    PROVE  SourceInv'
<1>1. /\ form \in SourceForm /\ SourceSection /\ W!PollingIsTrue /\ form.edit \in SourceEdits
  BY DEF SourceInv, SourceForm
<1> DEFINE e == form.edit
<1>2. /\ e.editing \in Sources /\ e.type \in W!Types /\ e.filled[e.type] \in {e.editing, W!None}
      /\ e.accepted \in {e.editing, W!None} /\ e.editing \in W!Owners /\ W!None \in W!Owners
  BY <1>1 DEF W!HandleEditSubmit, W!EditForm, W!edit, SourceEdits, W!Owners
<1>3. form' = form
  BY DEF W!HandleEditSubmit
<1>4. CASE rotate
  <2>1. PICK auth : auth = [type |-> e.type, secret |-> e.filled[e.type],
                            accepted |-> IF e.type = "script" THEN e.accepted ELSE W!None]
    OBVIOUS
  <2>2. auth \in W!Auths
    BY <1>2, <2>1 DEF W!Auths
  <2>3. W!BuildAuth = auth
    BY <2>1 DEF W!BuildAuth, W!edit
  <2>4. e.type = "script" => e.accepted # W!None
    BY <1>4 DEF W!HandleEditSubmit, W!edit
  <2>5. FilledFor(e.editing, auth)
    BY <1>2, <2>1, <2>4 DEF FilledFor
  <2>6. PICK r : r = W!Row(FALSE, auth)
    OBVIOUS
  <2>7. r \in SourceRows /\ r.auth = auth
    BY <2>2, <2>6, SourceFacts
  <2>8. W!SendWithin(SourcePending, W!Request("rotate", e.editing, r))
    BY <1>4, <2>3, <2>6 DEF W!HandleEditSubmit, W!Call, W!Send, W!edit
  <2>9. SourceSection' /\ calls' = Append(calls, SourceCall("rotate", e.editing, r))
    BY <1>1, <1>2, <2>5, <2>7, <2>8, SourceSent
  <2>10. W!PollingIsTrue'
    BY <1>1, <1>3, <2>9, PollShown
  <2>11. QED
    BY <1>3, <2>9, <2>10, SourceAlone
<1>5. CASE ~rotate
  <2>1. W!SendWithin(SourcePending, W!Request("update", e.editing, W!Deleted))
    BY <1>5 DEF W!HandleEditSubmit, W!Call, W!Send, W!edit
  <2>2. SourceSection' /\ calls' = Append(calls, SourceCall("update", e.editing, W!Deleted))
    BY <1>1, <1>2, <2>1, SourceSent
  <2>3. W!PollingIsTrue'
    BY <1>1, <1>3, <2>2, PollShown
  <2>4. QED
    BY <1>3, <2>2, <2>3, SourceAlone
<1>6. QED
  BY <1>4, <1>5

\* A source is added, deleted, switched on or off.
LEMMA SourceAsked ==
    ASSUME SourceInv,
           \/ \E auth \in W!AddFormAuths : W!HandleAdd(auth)
           \/ \E s \in Sources : W!HandleDelete(s) \/ W!HandleToggleEnabled(s)
    PROVE  SourceInv'
<1>1. form \in SourceForm /\ SourceSection /\ W!PollingIsTrue
  BY DEF SourceInv
<1>2. form' = form
  BY DEF W!HandleAdd, W!HandleDelete, W!HandleToggleEnabled
<1>3. \E call : SourceSection' /\ calls' = Append(calls, call)
  <2>1. ASSUME NEW auth \in W!AddFormAuths, W!HandleAdd(auth)
        PROVE  \E call : SourceSection' /\ calls' = Append(calls, call)
    <3>1. auth \in W!Auths /\ FilledFor(W!New, auth)
      BY SourceFacts DEF W!AddFormAuths, W!Auths, W!Owners, W!Types, FilledFor
    <3>2. PICK r : r = W!Row(TRUE, auth)
      OBVIOUS
    <3>3. TRUE \in BOOLEAN
      OBVIOUS
    <3>4. r \in SourceRows /\ r.auth = auth
      BY <3>1, <3>2, <3>3, SourceFacts
    <3>5. W!SendWithin(SourcePending, W!Request("create", W!None, r))
      BY <2>1, <3>2 DEF W!HandleAdd, W!Call, W!Send
    <3>6. SourceSection' /\ calls' = Append(calls, SourceCall("create", W!None, r))
      BY <1>1, <3>1, <3>4, <3>5, SourceSent
    <3>7. QED
      BY <3>6
  <2>2. ASSUME NEW s \in Sources, W!HandleDelete(s)
        PROVE  \E call : SourceSection' /\ calls' = Append(calls, call)
    <3>1. W!SendWithin(SourcePending, W!Request("delete", s, W!Deleted))
      BY <2>2 DEF W!HandleDelete, W!Call, W!Send
    <3>2. SourceSection' /\ calls' = Append(calls, SourceCall("delete", s, W!Deleted))
      BY <1>1, <3>1, SourceSent
    <3>3. QED
      BY <3>2
  <2>3. ASSUME NEW s \in Sources, W!HandleToggleEnabled(s)
        PROVE  \E call : SourceSection' /\ calls' = Append(calls, call)
    <3>1. list.rows[s] \in SourceRows
      BY <1>1, <2>3, SourceRow DEF W!HandleToggleEnabled, W!Buttons
    <3>2. PICK b \in BOOLEAN : b = ~list.rows[s].enabled
      BY <3>1 DEF SourceRows
    <3>3. PICK r : r = W!Row(b, W!NoAuth)
      OBVIOUS
    <3>4. r \in SourceRows
      BY <3>3, SourceFacts
    <3>5. W!SendWithin(SourcePending, W!Request("toggle", s, r))
      BY <2>3, <3>2, <3>3 DEF W!HandleToggleEnabled, W!Call, W!Send
    <3>6. SourceSection' /\ calls' = Append(calls, SourceCall("toggle", s, r))
      BY <1>1, <3>4, <3>5, SourceSent
    <3>7. QED
      BY <3>6
  <2>4. QED
    BY <2>1, <2>2, <2>3
<1>4. W!PollingIsTrue'
  BY <1>1, <1>2, <1>3, PollShown
<1>5. QED
  BY <1>2, <1>3, <1>4, SourceAlone

\* A source is polled by hand: its button says so.
LEMMA SourcePolled == ASSUME SourceInv, NEW s \in Sources, W!HandlePollNow(s) PROVE SourceInv'
<1>1. form \in SourceForm /\ SourceSection
  BY DEF SourceInv
<1>2. PICK limit \in {SourcePending, SourceLimit} : W!SendWithin(limit, W!Request("poll", s, W!Deleted))
  BY DEF W!HandlePollNow, SourceLimit
<1>3. SourceSection' /\ calls' = Append(calls, SourceCall("poll", s, W!Deleted))
  BY <1>1, <1>2, SourceSent
<1>4. form' = [form EXCEPT !.polling = s]
  BY DEF W!HandlePollNow
<1>5. calls \in Seq(SourceCalls) /\ Len(calls) \in Nat
  BY <1>1, LenProperties DEF SourceSection, SectionInv, SectionTyped
<1>6. Len(calls) + 1 \in DOMAIN calls' /\ calls'[Len(calls) + 1] = SourceCall("poll", s, W!Deleted)
  BY <1>3, <1>5
<1>7. form'.polling = s
  BY <1>1, <1>4 DEF SourceForm
<1>8. /\ SourceCall("poll", s, W!Deleted).here /\ SourceCall("poll", s, W!Deleted).kind = "poll"
      /\ SourceCall("poll", s, W!Deleted).source = s
  BY DEF SourceCall
<1>9. W!PollingIsTrue'
  BY <1>6, <1>7, <1>8 DEF W!PollingIsTrue
<1>10. QED
  BY <1>3, <1>4, <1>9, SourceAlone

\* An answer comes, or none does.
LEMMA SourceAnswered ==
    ASSUME SourceInv, NEW i \in DOMAIN calls,
           W!CreateAnswers(i) \/ W!RowAnswers(i) \/ W!EditAnswers(i) \/ W!PollAnswers(i)
             \/ W!AnswerFails(i)
    PROVE  SourceInv'
<1>1. form \in SourceForm /\ SourceSection /\ W!PollingIsTrue
  BY DEF SourceInv
<1>2. SourceSection' /\ calls' = Without(calls, i)
  <2>1. CASE W!Acknowledged(i)
    BY <1>1, <2>1, SourceAcknowledged DEF W!Acknowledged, W!Without, Without
  <2>2. CASE W!CallFails(i)
    BY <1>1, <2>2, SourceListKept DEF W!CallFails, W!Without, Without
  <2>3. QED
    BY <2>1, <2>2 DEF W!CreateAnswers, W!RowAnswers, W!EditAnswers, W!PollAnswers, W!AnswerFails
<1>3. CASE form' = [form EXCEPT !.polling = W!None]
  <2>1. form'.polling = W!None
    BY <1>1, <1>3 DEF SourceForm
  <2>2. W!PollingIsTrue'
    BY <2>1 DEF W!PollingIsTrue
  <2>3. QED
    BY <1>2, <1>3, <2>2, SourceAlone
<1>4. CASE /\ ~(calls[i].here /\ calls[i].kind = "poll")
           /\ \/ form' = [form EXCEPT !.showAdd = FALSE] \/ form' = form
              \/ form' = [form EXCEPT !.edit = W!Closed]
  <2>1. form'.polling = form.polling
    BY <1>1, <1>4 DEF SourceForm
  <2>2. W!PollingIsTrue'
    BY <1>1, <1>2, <1>4, <2>1, PollShown
  <2>3. QED
    BY <1>2, <1>4, <2>2, SourceAlone
<1>5. QED
  BY <1>3, <1>4 DEF W!CreateAnswers, W!RowAnswers, W!EditAnswers, W!PollAnswers, W!AnswerFails

\* Each step of the section keeps SourceInv.
LEMMA SourceKept == SourceInv /\ [W!Next]_sectionVars => SourceInv'
<1> SUFFICES ASSUME SourceInv, [W!Next]_sectionVars PROVE SourceInv'
  OBVIOUS
<1>1. /\ form \in SourceForm /\ SourceSection /\ W!PollingIsTrue /\ form.showAdd \in BOOLEAN
      /\ (~form.showAdd) \in BOOLEAN
  BY DEF SourceInv, SourceForm
<1>2. ASSUME UNCHANGED W!sectionVars, UNCHANGED form PROVE SourceInv'
  <2>1. SourceSection' /\ calls' = calls
    BY <1>1, <1>2, SourceListKept DEF W!sectionVars
  <2>2. QED
    BY <1>1, <1>2, <2>1, PollShown, SourceAlone
<1>3. ASSUME W!ToggleAdd \/ W!CancelEdit PROVE SourceInv'
  <2>1. UNCHANGED W!sectionVars
    BY <1>3 DEF W!ToggleAdd, W!CancelEdit
  <2>2. SourceSection' /\ calls' = calls
    BY <1>1, <2>1, SourceListKept DEF W!sectionVars
  <2>3. \/ form' = [form EXCEPT !.showAdd = ~form.showAdd, !.edit = W!Closed]
        \/ form' = [form EXCEPT !.edit = W!Closed]
    BY <1>3 DEF W!ToggleAdd, W!CancelEdit
  <2>4. form'.polling = form.polling
    BY <1>1, <2>3 DEF SourceForm
  <2>5. W!PollingIsTrue'
    BY <1>1, <2>2, <2>4, PollShown
  <2>6. QED
    BY <1>1, <2>2, <2>3, <2>5, SourceAlone
<1>4. CASE W!Reopen
  <2>1. SourceSection'
    BY <1>1, <1>4, SourceListKept DEF W!Reopen
  <2>2. form' = SourceFormOf(FALSE, W!None, W!Closed)
    BY <1>4 DEF W!Reopen, SourceFormOf
  <2>3. W!Closed \in SourceEdits
    BY SourceEmpty DEF W!Closed, W!Types
  <2>4. form'.polling = W!None
    BY <2>2 DEF SourceFormOf
  <2>5. W!PollingIsTrue'
    BY <2>4 DEF W!PollingIsTrue
  <2>6. QED
    BY <2>1, <2>2, <2>3, <2>5, SourceFormKept
<1>5. CASE W!OtherAdmin
  <2>1. SourceSection' /\ form' = form
    BY <1>1, <1>5, SourceElsewhere DEF W!OtherAdmin
  <2>2. calls' = calls
    BY <1>5 DEF W!OtherAdmin, W!Elsewhere
  <2>3. QED
    BY <1>1, <2>1, <2>2, PollShown, SourceAlone
<1>6. ASSUME NEW i \in DOMAIN calls, W!Serve(i) PROVE SourceInv'
  <2>1. SourceSection' /\ form' = form
    BY <1>1, <1>6, SourceServed DEF W!Serve
  <2>2. \E v : calls' = [calls EXCEPT ![i].version = v]
    BY <1>6 DEF W!Serve, W!Writes, W!Refuses, W!Served
  <2>3. W!PollingIsTrue'
    BY <1>1, <2>1, <2>2, PollShown
  <2>4. QED
    BY <2>1, <2>3, SourceAlone
<1>7. ASSUME NEW i \in DOMAIN reads, W!ReadRows(i) \/ W!ReadAnswers(i) \/ W!ReadFails(i),
             UNCHANGED form
      PROVE  SourceInv'
  <2>1. SourceSection' /\ calls' = calls
    BY <1>1, <1>7, SourceListKept DEF W!ReadRows, W!ReadAnswers, W!ReadFails, W!ReadEnds
  <2>2. QED
    BY <1>1, <1>7, <2>1, PollShown, SourceAlone
<1>8. CASE UNCHANGED sectionVars
  BY <1>2, <1>8 DEF sectionVars, W!sectionVars
<1>9. QED
  BY <1>3, <1>4, <1>5, <1>6, <1>7, <1>8, SourceEdited, SourceSubmitted, SourceAsked, SourcePolled,
     SourceAnswered DEF W!Next

\* The section opens with nothing edited and nothing polled.
LEMMA SourceInitially == W!Init => SourceInv
<1> SUFFICES ASSUME W!Init PROVE SourceInv
  OBVIOUS
<1>1. /\ list = W!Unread /\ reads = <<W!Unread>> /\ listing = TRUE /\ order = "pending"
      /\ calls = <<>> /\ told = 0 /\ form = SourceFormOf(FALSE, W!None, W!Closed)
  BY DEF W!Init, W!Mounted, SourceFormOf
<1>2. PICK first : first = [s \in Sources |-> IF s \in FirstSources THEN W!NewRow ELSE W!Absent]
  OBVIOUS
<1>3. first \in SourceTable
  <2>1. first \in [Sources -> {W!Absent, W!Deleted} \cup SourceRows]
    BY <1>2, SourceFacts
  <2>2. \A s \in Sources : first[s].why = "there" => first[s] = W!NewRow
    BY <1>2, SourceFacts
  <2>3. \A s \in Sources : Owns(s, W!NewRow.auth)
    BY SourceFacts DEF Owns
  <2>4. QED
    BY <2>1, <2>2, <2>3 DEF SourceTable
<1>4. held = [rows |-> first, version |-> 1]
  BY <1>2 DEF W!Init, W!Mounted
<1>5. held \in SourceLists /\ held.version = 1
  BY <1>3, <1>4, SourceSets DEF SourceLists
<1>6. SourceSection
  BY <1>1, <1>5, SourceSets, SectionOpens DEF SourceSection
<1>7. W!Closed \in SourceEdits /\ W!Closed.editing = W!None
  BY SourceEmpty DEF W!Closed, W!Types
<1>8. form \in SourceForm /\ form.edit = W!Closed /\ form.polling = W!None
  BY <1>1, <1>7 DEF SourceForm, SourceFormOf
<1>9. QED
  BY <1>6, <1>7, <1>8 DEF SourceInv, W!PollingIsTrue

\* What was promised of the sources.
LEMMA SourcesAreHeld == SourceInv => W!TypeOK /\ W!SourcesHold
<1> SUFFICES ASSUME SourceInv PROVE W!TypeOK /\ W!SourcesHold
  OBVIOUS
<1>1. SectionTyped(SourceLists, SourceCalls, SourceLimit, SourceWrites) /\ SectionCurrent
      /\ listing \in BOOLEAN
  BY DEF SourceInv, SourceSection, SectionInv
<1>2. \A v \in Nat : AnswerVersions(v) \subseteq W!Refused..v
  BY DEF AnswerVersions, Refused, W!Refused
<1>3. W!SectionTypeOK(SourcePending + 1)
  <2>1. /\ DOMAIN reads = 1..Len(reads) /\ DOMAIN calls = 1..Len(calls)
        /\ held.version \in Nat
    BY <1>1 DEF SectionTyped
  <2>2. QED
    BY <1>1, <1>2, <2>1 DEF SectionTyped, W!SectionTypeOK, SourceLimit
<1>4. W!ListIsCurrent
  BY <1>1 DEF SectionCurrent, W!ListIsCurrent
<1>5. held.rows \in SourceTable
  BY <1>1 DEF SectionTyped, SourceLists, W!Unread
<1>6. W!TypeOK
  <2>1. held.rows \in [Sources -> {W!Absent, W!Deleted} \cup SourceRows]
    BY <1>5 DEF SourceTable
  <2>2. /\ form.showAdd \in BOOLEAN /\ form.polling \in Sources \cup {W!None}
        /\ form.edit.editing \in Sources \cup {W!None} /\ form.edit.type \in W!Types
        /\ form.edit.accepted \in W!Owners /\ form.edit.filled \in [W!Types -> W!Owners]
    BY DEF SourceInv, SourceForm, SourceEdits
  <2>3. QED
    BY <1>3, <2>1, <2>2 DEF W!TypeOK, SourceRows, W!edit
<1>7. W!OneForm
  BY DEF SourceInv, W!OneForm, W!edit
<1>8. W!CredentialIsItsOwn
  BY <1>5 DEF W!CredentialIsItsOwn, W!There, SourceTable, Owns
<1>9. QED
  BY <1>4, <1>6, <1>7, <1>8 DEF SourceInv, W!SourcesHold
-----------------------------------------------------------------------------
(* Who is on screen.                                                       *)

Dialogs == {"setup", "confirm", "disable"}
Logins == {"login", "code"}

\* The requests of a sequence, and what may become of them on the way.
Under(s) == {s[i] : i \in 1..Len(s)}
Asks(r) == r.here = TRUE /\ r.kind # "logout"
AtMostOne(s) == \A i, j \in 1..Len(s) : Asks(s[i]) /\ Asks(s[j]) => i = j
Changed(r) == r.kind \in {"confirm", "disable"} /\ r.result = "ok"
Late(s) == \E r \in Under(s) : Changed(r) /\ ~(r.here = TRUE)
Settled(s) == \A r \in Under(s) : ~(Changed(r) /\ r.here = TRUE)
Away(r) == [r EXCEPT !.here = FALSE]

\* A request is sent.
LEMMA RequestSent ==
    ASSUME NEW s \in Seq(I!CallRecords), NEW r \in I!CallRecords
    PROVE  /\ Append(s, r) \in Seq(I!CallRecords) /\ Len(Append(s, r)) = Len(s) + 1
           /\ Under(Append(s, r)) = Under(s) \cup {r}
           /\ AtMostOne(s) /\ (Asks(r) => \A q \in Under(s) : ~Asks(q)) => AtMostOne(Append(s, r))
<1>1. /\ Append(s, r) \in Seq(I!CallRecords) /\ Len(Append(s, r)) = Len(s) + 1 /\ Len(s) \in Nat
      /\ \A i \in 1..Len(s) : Append(s, r)[i] = s[i]
      /\ Append(s, r)[Len(s) + 1] = r
  OBVIOUS
<1>2. 1..Len(s) + 1 = 1..Len(s) \cup {Len(s) + 1}
  BY <1>1
<1>3. Under(Append(s, r)) = Under(s) \cup {r}
  BY <1>1, <1>2 DEF Under
<1>4. ASSUME AtMostOne(s), Asks(r) => \A q \in Under(s) : ~Asks(q) PROVE AtMostOne(Append(s, r))
  <2>1. \A i \in 1..Len(s) : Asks(r) => ~Asks(s[i])
    BY <1>4 DEF Under
  <2>2. QED
    BY <1>1, <1>2, <1>4, <2>1 DEF AtMostOne
<1>5. QED
  BY <1>1, <1>3, <1>4

\* One is no longer under way.
LEMMA RequestEnds ==
    ASSUME NEW s \in Seq(I!CallRecords), NEW i \in 1..Len(s)
    PROVE  /\ Without(s, i) \in Seq(I!CallRecords) /\ Len(Without(s, i)) <= Len(s)
           /\ s[i] \in I!CallRecords /\ s[i] \in Under(s) /\ Under(Without(s, i)) \subseteq Under(s)
           /\ \A r \in Under(s) : r \in Under(Without(s, i)) \/ r = s[i]
           /\ AtMostOne(s) => AtMostOne(Without(s, i))
           /\ AtMostOne(s) /\ Asks(s[i]) => \A r \in Under(Without(s, i)) : ~Asks(r)
<1> DEFINE rest == Without(s, i)
<1>1. /\ rest \in Seq(I!CallRecords) /\ Len(s) \in Nat \ {0} /\ Len(rest) = Len(s) - 1
      /\ \A j \in 1..Len(s) - 1 : rest[j] = IF j < i THEN s[j] ELSE s[j + 1]
  BY Removed
<1> HIDE DEF rest
<1>2. \A j \in 1..Len(rest) : \E k \in 1..Len(s) :
        k # i /\ rest[j] = s[k] /\ k = IF j < i THEN j ELSE j + 1
  <2> TAKE j \in 1..Len(rest)
  <2>1. CASE j < i
    BY <1>1, <2>1
  <2>2. CASE ~(j < i)
    BY <1>1, <2>2
  <2>3. QED
    BY <2>1, <2>2
<1>3. Under(rest) \subseteq Under(s)
  BY <1>2 DEF Under
<1>4. ASSUME NEW r \in Under(s) PROVE r \in Under(rest) \/ r = s[i]
  <2>1. PICK k \in 1..Len(s) : r = s[k]
    BY <1>4 DEF Under
  <2>2. CASE k < i
    <3>1. k \in 1..Len(rest) /\ rest[k] = r
      BY <1>1, <2>1, <2>2
    <3>2. QED
      BY <3>1 DEF Under
  <2>3. CASE k > i
    <3>1. k - 1 \in 1..Len(rest) /\ rest[k - 1] = r
      BY <1>1, <2>1, <2>3
    <3>2. QED
      BY <3>1 DEF Under
  <2>4. QED
    BY <2>1, <2>2, <2>3
<1>5. ASSUME AtMostOne(s) PROVE AtMostOne(rest)
  <2> SUFFICES ASSUME NEW j \in 1..Len(rest), NEW k \in 1..Len(rest), Asks(rest[j]), Asks(rest[k])
               PROVE  j = k
    BY DEF AtMostOne
  <2>1. PICK a \in 1..Len(s) : rest[j] = s[a] /\ a = IF j < i THEN j ELSE j + 1
    BY <1>2
  <2>2. PICK b \in 1..Len(s) : rest[k] = s[b] /\ b = IF k < i THEN k ELSE k + 1
    BY <1>2
  <2>3. a = b
    BY <1>5, <2>1, <2>2 DEF AtMostOne
  <2>4. QED
    BY <1>1, <2>1, <2>2, <2>3
<1>6. ASSUME AtMostOne(s), Asks(s[i]), NEW r \in Under(rest) PROVE ~Asks(r)
  <2>1. PICK j \in 1..Len(rest) : r = rest[j]
    BY <1>6 DEF Under
  <2>2. PICK k \in 1..Len(s) : k # i /\ rest[j] = s[k]
    BY <1>2
  <2>3. QED
    BY <1>6, <2>1, <2>2 DEF AtMostOne
<1>7. s[i] \in I!CallRecords /\ s[i] \in Under(s) /\ Len(rest) <= Len(s)
  BY <1>1, ElementOfSeq DEF Under
<1>8. QED
  BY <1>1, <1>3, <1>4, <1>5, <1>6, <1>7 DEF rest

\* One is answered: the request q becomes r.
LEMMA RequestServed ==
    ASSUME NEW s \in Seq(I!CallRecords), NEW i \in 1..Len(s), NEW r \in I!CallRecords,
           r.here = TRUE => s[i].here = TRUE, r.kind = s[i].kind
    PROVE  LET new == [s EXCEPT ![i] = r]
           IN  /\ new \in Seq(I!CallRecords) /\ Len(new) = Len(s) /\ r \in Under(new)
               /\ \A q \in Under(new) : q \in Under(s) \/ q = r
               /\ \A q \in Under(s) : q \in Under(new) \/ q = s[i]
               /\ AtMostOne(s) /\ Asks(r) => \A q \in Under(new) : q = r \/ ~Asks(q)
               /\ AtMostOne(s) => AtMostOne(new)
<1> DEFINE new == [s EXCEPT ![i] = r]
<1>1. /\ new \in Seq(I!CallRecords) /\ Len(new) = Len(s) /\ Len(s) \in Nat
      /\ \A k \in 1..Len(s) : new[k] = IF k = i THEN r ELSE s[k]
  OBVIOUS
<1> HIDE DEF new
<1>2. r \in Under(new) /\ \A q \in Under(new) : q \in Under(s) \/ q = r
  BY <1>1 DEF Under
<1>3. ASSUME NEW q \in Under(s) PROVE q \in Under(new) \/ q = s[i]
  BY <1>1, <1>3 DEF Under
<1>4. \A k \in 1..Len(s) : Asks(new[k]) => Asks(s[k])
  BY <1>1 DEF Asks
<1>5. AtMostOne(s) => AtMostOne(new)
  BY <1>1, <1>4 DEF AtMostOne
<1>6. ASSUME AtMostOne(s), Asks(r), NEW q \in Under(new) PROVE q = r \/ ~Asks(q)
  <2>1. PICK k \in 1..Len(s) : q = new[k]
    BY <1>1, <1>6 DEF Under
  <2>2. Asks(new[i])
    BY <1>1, <1>6
  <2>3. QED
    BY <1>1, <1>5, <1>6, <2>1, <2>2 DEF AtMostOne
<1>7. QED
  BY <1>1, <1>2, <1>3, <1>5, <1>6 DEF new

\* The screens that sent them go.
LEMMA RequestsGone ==
    ASSUME NEW s \in Seq(I!CallRecords)
    PROVE  /\ I!Gone(s) \in Seq(I!CallRecords) /\ Len(I!Gone(s)) = Len(s)
           /\ \A r \in Under(I!Gone(s)) : \E q \in Under(s) : q \in I!CallRecords /\ r = Away(q)
           /\ \A q \in Under(s) : Away(q) \in Under(I!Gone(s))
           /\ AtMostOne(I!Gone(s))
<1>1. Len(s) \in Nat /\ DOMAIN s = 1..Len(s) /\ \A k \in 1..Len(s) : s[k] \in I!CallRecords
  BY LenProperties, ElementOfSeq
<1>2. \A q \in I!CallRecords : Away(q) \in I!CallRecords /\ Away(q).here = FALSE
  BY DEF I!CallRecords, Away
<1>3. I!Gone(s) = [k \in 1..Len(s) |-> Away(s[k])]
  BY <1>1 DEF I!Gone, Away
<1> DEFINE away == [k \in 1..Len(s) |-> Away(s[k])]
<1>4. /\ away \in Seq(I!CallRecords) /\ Len(away) = Len(s)
      /\ \A k \in 1..Len(s) : away[k] = Away(s[k])
  BY <1>1, <1>2
<1> HIDE DEF away
<1>5. \A k \in 1..Len(s) : away[k].here = FALSE
  BY <1>1, <1>2, <1>4
<1>6. AtMostOne(away)
  BY <1>4, <1>5 DEF AtMostOne, Asks
<1>7. /\ \A r \in Under(away) : \E q \in Under(s) : q \in I!CallRecords /\ r = Away(q)
      /\ \A q \in Under(s) : Away(q) \in Under(away)
  BY <1>1, <1>4 DEF Under
<1>8. QED
  BY <1>3, <1>4, <1>6, <1>7 DEF away

\* A request that comes of another: as it was, or its screen is gone.
Stems(r, q) ==
    /\ r.kind = q.kind /\ r.account = q.account /\ r.session = q.session
    /\ r.secret = q.secret /\ r.result = q.result /\ r.heard = q.heard
    /\ r.here = TRUE => q.here = TRUE

\* What remains under way when the i-th request is answered.
LEMMA AnswerTaken ==
    ASSUME requests \in Seq(I!CallRecords), AtMostOne(requests), NEW i \in DOMAIN requests,
           requests' = I!Rest(i) \/ requests' = I!Gone(I!Rest(i))
    PROVE  /\ requests' \in Seq(I!CallRecords) /\ Len(requests') <= Len(requests)
           /\ requests[i] \in I!CallRecords /\ requests[i] \in Under(requests)
           /\ \A r \in Under(requests') : \E q \in Under(requests) :
                Stems(r, q) /\ (requests' = I!Rest(i) => r = q)
           /\ requests' = I!Gone(I!Rest(i)) => \A r \in Under(requests') : r.here = FALSE
           /\ AtMostOne(requests')
           /\ Asks(requests[i]) => \A r \in Under(requests') : ~Asks(r)
           /\ ~Late(requests') /\ ~(Changed(requests[i]) /\ requests[i].here = FALSE) => ~Late(requests)
           /\ ~Late(requests') /\ Settled(requests') /\ ~Changed(requests[i]) => Settled(requests)
<1> DEFINE rest == Without(requests, i)
<1>1. DOMAIN requests = 1..Len(requests) /\ I!Rest(i) = rest
  BY LenProperties DEF I!Rest, Without
<1>2. /\ rest \in Seq(I!CallRecords) /\ Len(rest) <= Len(requests)
      /\ requests[i] \in I!CallRecords /\ requests[i] \in Under(requests)
      /\ Under(rest) \subseteq Under(requests)
      /\ \A r \in Under(requests) : r \in Under(rest) \/ r = requests[i]
      /\ AtMostOne(rest)
      /\ Asks(requests[i]) => \A r \in Under(rest) : ~Asks(r)
  BY <1>1, RequestEnds
<1> HIDE DEF rest
<1>3. /\ I!Gone(rest) \in Seq(I!CallRecords) /\ Len(I!Gone(rest)) = Len(rest)
      /\ \A r \in Under(I!Gone(rest)) : \E q \in Under(rest) : q \in I!CallRecords /\ r = Away(q)
      /\ \A q \in Under(rest) : Away(q) \in Under(I!Gone(rest))
      /\ AtMostOne(I!Gone(rest))
  BY <1>2, RequestsGone
<1>4. \A q \in I!CallRecords : Stems(Away(q), q) /\ Away(q).here = FALSE
  BY DEF I!CallRecords, Away, Stems
<1>5. \A q \in Under(requests) : q \in I!CallRecords
  BY ElementOfSeq DEF Under
<1>6. CASE requests' = rest
  <2>1. \A r \in Under(rest) : Stems(r, r)
    BY DEF Stems
  <2>2. ASSUME ~Late(requests'), ~(Changed(requests[i]) /\ requests[i].here = FALSE)
        PROVE  ~Late(requests)
    <3>1. requests[i].here \in BOOLEAN
      BY <1>2 DEF I!CallRecords
    <3>2. QED
      BY <1>2, <1>6, <2>2, <3>1 DEF Late
  <2>3. Settled(requests') /\ ~Changed(requests[i]) => Settled(requests)
    BY <1>2, <1>6 DEF Settled
  <2>4. \A r \in Under(requests') : r \in Under(requests) /\ Stems(r, r)
    BY <1>2, <1>6, <2>1
  <2>5. requests' = I!Gone(I!Rest(i)) => \A r \in Under(requests') : r.here = FALSE
    BY <1>1, <1>2, <1>3, <1>4, <1>5
  <2>6. QED
    BY <1>1, <1>2, <1>6, <2>2, <2>3, <2>4, <2>5
<1>7. CASE requests' = I!Gone(rest) /\ requests' # rest
  <2>1. \A r \in Under(requests') : \E q \in Under(requests) : q \in I!CallRecords /\ r = Away(q)
    BY <1>2, <1>3, <1>7
  <2>2. \A r \in Under(requests') : r.here = FALSE /\ ~Asks(r) /\ \E q \in Under(requests) : Stems(r, q)
    BY <1>4, <2>1 DEF Asks
  <2>3. ASSUME ~Late(requests'), NEW q \in Under(requests), Changed(q) PROVE q = requests[i]
    <3> SUFFICES ASSUME q \in Under(rest) PROVE FALSE
      BY <1>2
    <3>1. Away(q) \in Under(requests') /\ Away(q).here = FALSE /\ Stems(Away(q), q)
      BY <1>3, <1>4, <1>5, <1>7
    <3>2. Changed(Away(q))
      BY <2>3, <3>1 DEF Changed, Stems
    <3>3. QED
      BY <2>3, <3>1, <3>2 DEF Late
  <2>4. ASSUME ~Late(requests'), ~(Changed(requests[i]) /\ requests[i].here = FALSE)
        PROVE  ~Late(requests)
    <3>1. requests[i].here \in BOOLEAN
      BY <1>2 DEF I!CallRecords
    <3>2. QED
      BY <2>3, <2>4, <3>1 DEF Late
  <2>5. ~Late(requests') /\ ~Changed(requests[i]) => Settled(requests)
    BY <2>3 DEF Settled
  <2>6. QED
    BY <1>1, <1>2, <1>3, <1>7, <2>2, <2>4, <2>5
<1>8. QED
  BY <1>1, <1>6, <1>7

\* What a request names is there, and a code that was typed is on its owner's phone.
Backed(r) ==
    /\ r.account \in Accounts
    /\ r.session \in DOMAIN owner \cup {I!None}
    /\ r.result \in {"ok", "checked"} /\ r.kind # "logout" => r.session # I!None
    /\ r.kind \in Logins /\ r.result = "ok" => owner[r.session] = r.account
    /\ r.kind = "setup" /\ r.result = "ok" => r.secret # I!None
    /\ r.kind \in {"confirm", "disable"} /\ r.secret # I!None =>
         r.session # I!None /\ r.secret \in phone[owner[r.session]]
    /\ r.heard = FALSE =>
         r.kind \in Dialogs /\ ~(r.here = TRUE) /\ r.result \in {"none", "checked"}

\* The secret a confirmation has verified is the account's and on its owner's phone,
\* unless it was written over since.
Vouched(r) ==
    r.kind = "confirm" /\ r.result = "checked" /\ owner[r.session] \notin torn =>
      mfa[owner[r.session]].secret \in phone[owner[r.session]]

\* The screen that waits for a request is the one that sent it.
Asker(r) ==
    r.here = TRUE =>
      /\ r.kind \in Logins => ~I!Shown
      /\ r.kind = "setup" => modal.kind = "setup" /\ modal.secret = I!None
      /\ r.kind = "confirm" =>
           modal.kind = "setup" /\ modal.secret # I!None /\ ~(modal.codes = TRUE)
      /\ r.kind = "disable" => modal.kind = "disable"

\* A dialog's request is about the account on screen, of the cookie's session.
Timely(r) ==
    /\ r.kind \in Logins => r.here = TRUE
    /\ r.here = TRUE /\ r.kind \in Dialogs =>
         r.session # I!None /\ owner[r.session] = screen.name /\ r.account = screen.name

\* What an answer on its way says of the second factor is what the server has.
Enabled(a) == mfa[a].enabled = TRUE
Told(r) ==
    /\ r.kind = "login" /\ r.result = "ok" => ~Enabled(r.account)
    /\ r.kind = "code" /\ r.result = "ok" => Enabled(r.account)
    /\ r.here = TRUE /\ r.kind = "confirm" /\ r.result = "ok" => Enabled(screen.name)
    /\ r.here = TRUE /\ r.kind = "disable" /\ r.result = "ok" => ~Enabled(screen.name)

SignInSound ==
    /\ I!TypeOK /\ Len(owner) <= MaxSessions
    /\ \A r \in Under(requests) : Backed(r) /\ Vouched(r)
    /\ I!SecretIsHeld /\ I!ScreenIsCookie

\* The screen that shows waits for one answer at most.
SignInDialogs ==
    /\ modal.kind = "none" => modal = I!NoModal
    /\ modal.kind # "none" => I!Shown
    /\ modal.codes = TRUE => modal.kind = "setup" /\ modal.secret # I!None
    /\ \A r \in Under(requests) : Asker(r)
    /\ AtMostOne(requests)

\* Unless news was missed, or is on its way to a dialog that is gone, the screen
\* knows of the second factor, or will.
News ==
    /\ \A r \in Under(requests) : Told(r)
    /\ modal.codes = TRUE => Enabled(screen.name)
    /\ I!Shown /\ ~(modal.codes = TRUE) /\ Settled(requests) =>
         (screen.mfaEnabled = TRUE <=> Enabled(screen.name))
SignInNews ==
    missed # TRUE =>
      /\ revived # TRUE
      /\ \A r \in Under(requests) : Timely(r)
      /\ ~Late(requests) => News

SignInInv == SignInSound /\ SignInDialogs /\ SignInNews

\* The types, variable by variable.
LEMMA SignInTypes ==
    /\ I!Nobody \notin Accounts /\ MaxSessions \in Nat /\ MaxSetups \in Nat /\ MaxRequests \in Nat
    /\ SignInSound =>
        /\ mfa \in [Accounts -> [enabled : BOOLEAN, secret : 0..MaxSetups]]
        /\ owner \in Seq(Accounts) /\ live \subseteq DOMAIN owner /\ Len(owner) <= MaxSessions
        /\ DOMAIN owner = 1..Len(owner) /\ Len(owner) \in Nat
        /\ \A s \in DOMAIN owner : owner[s] \in Accounts /\ s # I!None
        /\ setups \in 0..MaxSetups /\ phone \in [Accounts -> SUBSET (1..MaxSetups)]
        /\ cookie \in DOMAIN owner \cup {I!None}
        /\ screen \in [name : Accounts, mfaEnabled : BOOLEAN] \cup {I!NoOne}
        /\ I!Shown => screen.name \in Accounts /\ screen.mfaEnabled \in BOOLEAN
        /\ awaiting \in Accounts \cup {I!Nobody} /\ modal \in I!Modals
        /\ requests \in Seq(I!CallRecords) /\ Len(requests) <= MaxRequests
        /\ DOMAIN requests = 1..Len(requests)
        /\ \A r \in Under(requests) : r \in I!CallRecords
        /\ revived \in BOOLEAN /\ missed \in BOOLEAN /\ torn \subseteq Accounts
<1>1. I!Nobody \notin Accounts /\ MaxSessions \in Nat /\ MaxSetups \in Nat /\ MaxRequests \in Nat
  BY MenuAssumption DEF I!SignInAssumption
<1> SUFFICES ASSUME SignInSound
             PROVE  /\ DOMAIN owner = 1..Len(owner) /\ Len(owner) \in Nat
                    /\ \A s \in DOMAIN owner : owner[s] \in Accounts /\ s # I!None
                    /\ I!Shown => screen.name \in Accounts /\ screen.mfaEnabled \in BOOLEAN
                    /\ DOMAIN requests = 1..Len(requests)
                    /\ \A r \in Under(requests) : r \in I!CallRecords
  BY <1>1 DEF SignInSound, I!TypeOK
<1>2. owner \in Seq(Accounts) /\ requests \in Seq(I!CallRecords)
  BY DEF SignInSound, I!TypeOK
<1>3. /\ DOMAIN owner = 1..Len(owner) /\ Len(owner) \in Nat /\ DOMAIN requests = 1..Len(requests)
      /\ \A s \in 1..Len(owner) : owner[s] \in Accounts
      /\ \A r \in Under(requests) : r \in I!CallRecords
  BY <1>2, LenProperties, ElementOfSeq DEF Under
<1>4. I!Shown => screen \in [name : Accounts, mfaEnabled : BOOLEAN]
  BY DEF SignInSound, I!TypeOK, I!Shown
<1>5. QED
  BY <1>3, <1>4 DEF I!None

\* A request that has a result it did not have.
Became(r, old, x) ==
    /\ r.kind = old.kind /\ r.account = old.account /\ r.session = old.session
    /\ r.secret = old.secret /\ r.here = old.here /\ r.heard = old.heard /\ r.result = x

\* What a request has with it stays, and it may lose its screen.
LEMMA BackedStays ==
    ASSUME SignInSound,
           \A s \in DOMAIN owner : s \in DOMAIN owner' /\ owner'[s] = owner[s],
           \A a \in Accounts : phone[a] \subseteq phone'[a],
           NEW r, NEW q, Backed(q), Stems(r, q)
    PROVE  Backed(r)'
<1>1. \A s \in DOMAIN owner : owner[s] \in Accounts /\ s # I!None
  BY SignInTypes
<1>2. Backed(r)
  BY DEF Backed, Stems
<1>3. r.session # I!None => r.session \in DOMAIN owner /\ owner'[r.session] = owner[r.session]
  BY <1>2 DEF Backed
<1>4. /\ (r.account \in Accounts)' /\ (r.session \in DOMAIN owner \cup {I!None})'
      /\ (r.kind \in Logins /\ r.result = "ok" => owner[r.session] = r.account)'
  BY <1>2, <1>3 DEF Backed, Logins
<1>5. ASSUME r.kind \in {"confirm", "disable"}, r.secret # I!None
      PROVE  r.session # I!None /\ r.secret \in phone'[owner'[r.session]]
  BY <1>1, <1>2, <1>3, <1>5 DEF Backed
<1>6. QED
  BY <1>2, <1>4, <1>5 DEF Backed

\* What a request was vouched for stays, too, while the server does nothing.
LEMMA VouchedStays ==
    ASSUME SignInSound, UNCHANGED <<mfa, owner, torn>>,
           \A a \in Accounts : phone[a] \subseteq phone'[a],
           NEW r, NEW q, Backed(q), Vouched(q), Stems(r, q)
    PROVE  Vouched(r)'
<1> SUFFICES ASSUME r.kind = "confirm", r.result = "checked", owner[r.session] \notin torn
             PROVE  mfa[owner[r.session]].secret \in phone'[owner[r.session]]
  BY DEF Vouched
<1>1. q.session = r.session /\ q.session \in DOMAIN owner
  BY DEF Stems, Backed
<1>2. owner[r.session] \in Accounts
  BY <1>1, SignInTypes
<1>3. mfa[owner[r.session]].secret \in phone[owner[r.session]]
  BY <1>1 DEF Vouched, Stems
<1>4. QED
  BY <1>2, <1>3

\* The browser takes a step of its own.
LEMMA BrowserSteps ==
    ASSUME SignInSound, UNCHANGED <<mfa, owner, live, setups, torn>>,
           phone' \in [Accounts -> SUBSET (1..MaxSetups)],
           \A a \in Accounts : phone[a] \subseteq phone'[a],
           cookie' \in DOMAIN owner \cup {I!None},
           screen' \in [name : Accounts, mfaEnabled : BOOLEAN] \cup {I!NoOne},
           awaiting' \in Accounts \cup {I!Nobody}, modal' \in I!Modals,
           revived' \in BOOLEAN, missed' \in BOOLEAN,
           requests' \in Seq(I!CallRecords), Len(requests') <= MaxRequests,
           \A r \in Under(requests') :
             (Backed(r) /\ Vouched(r)) \/ \E q \in Under(requests) : Stems(r, q),
           I!ScreenIsCookie'
    PROVE  SignInSound'
<1>1. /\ mfa \in [Accounts -> [enabled : BOOLEAN, secret : 0..MaxSetups]]
      /\ owner \in Seq(Accounts) /\ live \subseteq DOMAIN owner /\ Len(owner) <= MaxSessions
      /\ setups \in 0..MaxSetups /\ phone \in [Accounts -> SUBSET (1..MaxSetups)]
      /\ torn \subseteq Accounts
  BY SignInTypes
<1>2. I!TypeOK' /\ Len(owner') <= MaxSessions
  BY <1>1 DEF I!TypeOK
<1>3. I!SecretIsHeld'
  BY DEF SignInSound, I!SecretIsHeld
<1>4. ASSUME NEW r \in Under(requests') PROVE Backed(r)' /\ Vouched(r)'
  <2>1. PICK q : Backed(q) /\ Vouched(q) /\ Stems(r, q)
    <3>1. Stems(r, r)
      BY DEF Stems
    <3>2. QED
      BY <1>4, <3>1 DEF SignInSound
  <2>2. QED
    BY <2>1, BackedStays, VouchedStays
<1>5. QED
  BY <1>2, <1>3, <1>4 DEF SignInSound

Request(kind, account, secret) ==
    [kind |-> kind, account |-> account, session |-> cookie, secret |-> secret, here |-> TRUE,
     heard |-> TRUE, result |-> "none"]

\* The screen sends a request.
LEMMA SignInSends ==
    ASSUME SignInInv, NEW kind \in {"login", "code", "logout"} \cup Dialogs,
           NEW account \in Accounts, NEW secret \in 0..MaxSetups,
           I!Send(kind, account, secret), awaiting' = awaiting,
           kind \in {"confirm", "disable"} /\ secret # I!None =>
             cookie # I!None /\ secret \in phone[owner[cookie]],
           kind \in Dialogs => I!Shown /\ account = screen.name,
           kind # "logout" => \A q \in Under(requests) : ~Asks(q),
           modal' = modal \/ (modal = I!NoModal /\ I!Shown /\ kind = "setup" /\
                              modal' = [kind |-> "setup", secret |-> I!None, codes |-> FALSE]),
           \A r : r.kind = kind => Asker(r)'
    PROVE  SignInInv'
<1> PICK new : new = Request(kind, account, secret)
  OBVIOUS
<1>1. /\ Len(requests) < MaxRequests /\ requests' = Append(requests, new)
      /\ UNCHANGED <<mfa, owner, live, setups, torn, phone, cookie, screen, revived, missed>>
  BY DEF I!Send, Request, I!serverVars
<1>2. /\ cookie \in DOMAIN owner \cup {I!None} /\ DOMAIN owner = 1..Len(owner) /\ Len(owner) \in Nat
      /\ Len(owner) <= MaxSessions /\ MaxSessions \in Nat /\ requests \in Seq(I!CallRecords)
      /\ MaxRequests \in Nat /\ modal \in I!Modals
  BY SignInTypes DEF SignInInv
<1>3. /\ new.kind = kind /\ new.account = account /\ new.session = cookie /\ new.secret = secret
      /\ new.here = TRUE /\ new.heard = TRUE /\ new.result = "none"
  BY DEF Request
<1>4. new \in I!CallRecords
  BY <1>2 DEF Request, I!CallRecords, I!Sessions, I!None, Dialogs
<1>5. /\ requests' \in Seq(I!CallRecords) /\ Len(requests') = Len(requests) + 1
      /\ Under(requests') = Under(requests) \cup {new}
      /\ AtMostOne(requests')
  BY <1>1, <1>2, <1>3, <1>4, RequestSent DEF SignInInv, SignInDialogs, Asks
<1>6. Backed(new) /\ Vouched(new)
  BY <1>2, <1>3 DEF Backed, Vouched, Logins
<1>7. Len(requests') <= MaxRequests
  <2>1. Len(requests) \in Nat
    BY <1>2, LenProperties
  <2>2. QED
    BY <1>1, <1>2, <1>5, <2>1
<1>8. SignInSound'
  <2>1. \A q \in Under(requests) : Stems(q, q)
    BY DEF Stems
  <2>2. I!ScreenIsCookie'
    BY <1>1 DEF SignInInv, SignInSound, I!ScreenIsCookie, I!Shown, I!Me
  <2>3. modal' \in I!Modals
    <3>1. [kind |-> "setup", secret |-> 0, codes |-> FALSE] \in I!Modals
      BY SignInTypes DEF I!Modals
    <3>2. QED
      BY <1>2, <3>1 DEF I!None
  <2>4. SignInSound
    BY DEF SignInInv
  <2>5. /\ phone' = phone /\ cookie' = cookie /\ screen' = screen /\ revived' = revived
        /\ missed' = missed /\ UNCHANGED <<mfa, owner, live, setups, torn>>
    BY <1>1
  <2>6. \A r \in Under(requests') :
          (Backed(r) /\ Vouched(r)) \/ \E q \in Under(requests) : Stems(r, q)
    BY <1>5, <1>6, <2>1
  <2>7. /\ phone \in [Accounts -> SUBSET (1..MaxSetups)] /\ revived \in BOOLEAN /\ missed \in BOOLEAN
        /\ screen \in [name : Accounts, mfaEnabled : BOOLEAN] \cup {I!NoOne}
        /\ awaiting \in Accounts \cup {I!Nobody}
    BY <2>4, SignInTypes
  <2>8. QED
    BY <1>2, <1>5, <1>7, <2>2, <2>3, <2>4, <2>5, <2>6, <2>7, BrowserSteps
<1>9. SignInDialogs'
  <2>1. \A r \in Under(requests) : Asker(r)'
    <3>1. CASE modal' = modal
      BY <1>1, <3>1 DEF SignInInv, SignInDialogs, Asker, I!Shown
    <3>2. CASE kind = "setup"
      BY <3>2 DEF Asker, Asks, Logins
    <3>3. QED
      BY <3>1, <3>2
  <2>2. \A r \in Under(requests') : Asker(r)'
    BY <1>3, <1>5, <2>1
  <2>3. /\ (modal.kind = "none" => modal = I!NoModal)'
        /\ (modal.kind # "none" => I!Shown)'
        /\ (modal.codes = TRUE => modal.kind = "setup" /\ modal.secret # I!None)'
    BY <1>1 DEF SignInInv, SignInDialogs, I!Shown
  <2>4. QED
    BY <1>5, <2>2, <2>3 DEF SignInDialogs
<1>10. ASSUME missed' # TRUE PROVE revived' # TRUE /\ \A r \in Under(requests') : Timely(r)'
  <2>1. revived # TRUE /\ missed # TRUE /\ \A r \in Under(requests) : Timely(r)
    BY <1>1, <1>10 DEF SignInInv, SignInNews
  <2>2. I!Shown => cookie # I!None /\ owner[cookie] = screen.name
    BY <2>1, SignInTypes DEF SignInInv, SignInSound, I!ScreenIsCookie, I!Me
  <2>3. Timely(new)'
    BY <1>1, <1>3, <2>2 DEF Timely
  <2>4. \A r \in Under(requests) : Timely(r)'
    BY <1>1, <2>1 DEF Timely
  <2>5. QED
    BY <1>1, <1>5, <2>1, <2>3, <2>4
<1>11. ASSUME missed' # TRUE, ~Late(requests') PROVE News'
  <2>1. ~Late(requests)
    BY <1>5, <1>11 DEF Late
  <2>2. News
    BY <1>1, <1>11, <2>1 DEF SignInInv, SignInNews
  <2>3. Settled(requests') => Settled(requests)
    BY <1>5 DEF Settled
  <2>4. modal'.codes = modal.codes
    <3>1. CASE modal' = modal
      BY <3>1
    <3>2. CASE modal = I!NoModal /\ modal' = [kind |-> "setup", secret |-> I!None, codes |-> FALSE]
      <4>1. modal.codes = FALSE /\ modal'.codes = FALSE
        BY <3>2 DEF I!NoModal
      <4>2. QED
        BY <4>1
    <3>3. QED
      BY <3>1, <3>2
  <2>5. \A r \in Under(requests') : Told(r)'
    <3>1. Told(new)'
      BY <1>3 DEF Told
    <3>2. \A r \in Under(requests) : Told(r)'
      BY <1>1, <2>2 DEF News, Told, Enabled
    <3>3. QED
      BY <1>5, <3>1, <3>2
  <2>6. /\ (modal.codes = TRUE => Enabled(screen.name))'
        /\ (I!Shown /\ ~(modal.codes = TRUE) /\ Settled(requests) =>
              (screen.mfaEnabled = TRUE <=> Enabled(screen.name)))'
    BY <1>1, <2>2, <2>3, <2>4 DEF News, Enabled, I!Shown
  <2>7. QED
    BY <2>5, <2>6 DEF News
<1>12. SignInNews'
  BY <1>10, <1>11 DEF SignInNews
<1>13. QED
  BY <1>8, <1>9, <1>12 DEF SignInInv

\* What is under way to a form that does not wait.
LEMMA FormWaits ==
    ASSUME SignInInv
    PROVE  /\ \A q \in Under(requests) : Asks(q) => q.kind \in Logins \cup Dialogs
           /\ \A q \in Under(requests) : Asks(q) /\ q.kind \in Dialogs => I!Shown /\ modal.kind # "none"
           /\ \A q \in Under(requests) : Asks(q) /\ q.kind \in Logins => ~I!Shown
           /\ \A kinds : ~I!Waiting(kinds) =>
                \A q \in Under(requests) : Asks(q) => q.kind \notin kinds
           /\ I!Shown <=> screen.name # I!Nobody
           /\ ~I!Shown => modal = I!NoModal
<1>1. DOMAIN requests = 1..Len(requests) /\ \A q \in Under(requests) : q \in I!CallRecords
  BY SignInTypes DEF SignInInv
<1>2. \A q \in Under(requests) : Asks(q) => q.kind \in Logins \cup Dialogs
  BY <1>1 DEF I!CallRecords, Asks, Logins, Dialogs
<1>3. /\ \A q \in Under(requests) : Asker(q)
      /\ modal.kind # "none" => I!Shown
      /\ modal.kind = "none" => modal = I!NoModal
  BY DEF SignInInv, SignInDialogs
<1>4. ASSUME NEW kinds, ~I!Waiting(kinds), NEW q \in Under(requests), Asks(q) PROVE q.kind \notin kinds
  BY <1>1, <1>4 DEF I!Waiting, Under, Asks
<1>5. I!Shown <=> screen.name # I!Nobody
  <2>1. I!Shown => screen.name # I!Nobody
    BY SignInTypes DEF SignInInv
  <2>2. ~I!Shown => screen.name = I!Nobody
    BY DEF I!Shown, I!NoOne
  <2>3. QED
    BY <2>1, <2>2
<1>6. ASSUME NEW q \in Under(requests), Asks(q) PROVE q.kind \in Dialogs => I!Shown /\ modal.kind # "none"
  BY <1>3, <1>6 DEF Asker, Asks, Dialogs
<1>7. ASSUME NEW q \in Under(requests), Asks(q) PROVE q.kind \in Logins => ~I!Shown
  BY <1>3, <1>7 DEF Asker, Asks, Logins
<1>8. /\ \A q \in Under(requests) : Asks(q) /\ q.kind \in Dialogs => I!Shown /\ modal.kind # "none"
      /\ \A q \in Under(requests) : Asks(q) /\ q.kind \in Logins => ~I!Shown
  BY <1>6, <1>7
<1>9. \A kinds : ~I!Waiting(kinds) => \A q \in Under(requests) : Asks(q) => q.kind \notin kinds
  BY <1>4
<1>10. ~I!Shown => modal = I!NoModal
  BY <1>3
<1>11. QED
  BY <1>2, <1>5, <1>8, <1>9, <1>10

\* A code off the phone of the account the cookie acts for.
LEMMA CodeTyped ==
    ASSUME SignInInv, NEW account \in Accounts \cup {I!Nobody}, NEW code \in I!Codes(account)
    PROVE  /\ code \in 0..MaxSetups
           /\ account = I!Me /\ code # I!None => cookie # I!None /\ code \in phone[owner[cookie]]
<1>1. /\ MaxSetups \in Nat /\ I!Nobody \notin Accounts /\ phone \in [Accounts -> SUBSET (1..MaxSetups)]
  BY SignInTypes DEF SignInInv
<1>2. code = I!None \/ (account # I!Nobody /\ code \in phone[account])
  BY DEF I!Codes
<1>3. account = I!Me /\ code # I!None => cookie # I!None /\ account = owner[cookie]
  BY <1>1, <1>2 DEF I!Me
<1>4. code \in 0..MaxSetups
  <2>1. CASE code = I!None
    BY <1>1, <2>1 DEF I!None
  <2>2. CASE account # I!Nobody /\ code \in phone[account]
    <3>1. phone[account] \subseteq 1..MaxSetups
      BY <1>1, <2>2
    <3>2. QED
      BY <1>1, <2>2, <3>1
  <2>3. QED
    BY <1>2, <2>1, <2>2
<1>5. QED
  BY <1>2, <1>3, <1>4

\* The screen asks for something, or opens a dialog that does.
LEMMA SignInAsks ==
    ASSUME SignInInv,
           \/ \E a \in Accounts : I!Submit(a)
           \/ I!SubmitMfa \/ I!HandleLogout \/ I!OpenSetup \/ I!Confirm \/ I!SubmitDisable
    PROVE  SignInInv'
<1>1. 0 \in 0..MaxSetups /\ I!None = 0 /\ awaiting \in Accounts \cup {I!Nobody}
  BY SignInTypes DEF SignInInv, I!None
<1>2. /\ I!Shown => screen.name \in Accounts
      /\ I!Me \in Accounts \cup {I!Nobody}
  BY SignInTypes DEF SignInInv, I!Me
<1>3. modal.kind # "none" => I!Shown
  BY DEF SignInInv, SignInDialogs
<1>4. ASSUME NEW a \in Accounts, I!Submit(a) PROVE SignInInv'
  <2>1. /\ ~I!Shown /\ ~I!Waiting(Logins) /\ I!Send("login", a, I!None)
        /\ UNCHANGED <<awaiting, modal, screen>>
    BY <1>4 DEF I!Submit, I!LoginForm, Logins, I!Send
  <2>2. \A q \in Under(requests) : ~Asks(q)
    BY <2>1, FormWaits
  <2>3. \A r : r.kind = "login" => Asker(r)'
    BY <2>1 DEF Asker, I!Shown, Logins
  <2>4. QED
    BY <1>1, <2>1, <2>2, <2>3, SignInSends DEF Dialogs
<1>5. ASSUME I!SubmitMfa PROVE SignInInv'
  <2>1. PICK code \in I!Codes(awaiting) : I!Send("code", awaiting, code)
    BY <1>5 DEF I!SubmitMfa
  <2>2. /\ ~I!Shown /\ ~I!Waiting(Logins) /\ awaiting \in Accounts
        /\ UNCHANGED <<awaiting, modal, screen>>
    BY <1>1, <1>5 DEF I!SubmitMfa, I!CodeForm, Logins, I!Send
  <2>3. \A q \in Under(requests) : ~Asks(q)
    BY <2>2, FormWaits
  <2>4. \A r : r.kind = "code" => Asker(r)'
    BY <2>2 DEF Asker, I!Shown, Logins
  <2>5. code \in 0..MaxSetups
    BY <1>1, CodeTyped
  <2>6. QED
    BY <2>1, <2>2, <2>3, <2>4, <2>5, SignInSends DEF Dialogs
<1>6. ASSUME I!HandleLogout PROVE SignInInv'
  <2>1. /\ I!Shown /\ I!Send("logout", screen.name, I!None) /\ UNCHANGED <<awaiting, modal, screen>>
    BY <1>6 DEF I!HandleLogout, I!Send
  <2>2. \A r : r.kind = "logout" => Asker(r)'
    BY DEF Asker, Logins
  <2>3. QED
    BY <1>1, <1>2, <2>1, <2>2, SignInSends DEF Dialogs
<1>7. ASSUME I!OpenSetup PROVE SignInInv'
  <2>1. /\ I!Shown /\ modal = I!NoModal /\ I!Send("setup", screen.name, I!None) /\ awaiting' = awaiting
        /\ modal' = [kind |-> "setup", secret |-> I!None, codes |-> FALSE]
    BY <1>7 DEF I!OpenSetup, I!NoModal
  <2>2. \A q \in Under(requests) : ~Asks(q)
    BY <2>1, FormWaits DEF I!NoModal
  <2>3. \A r : r.kind = "setup" => Asker(r)'
    BY <2>1 DEF Asker, Logins
  <2>4. QED
    BY <1>1, <1>2, <2>1, <2>2, <2>3, SignInSends DEF Dialogs
<1>8. ASSUME I!Confirm PROVE SignInInv'
  <2>1. PICK code \in I!Codes(I!Me) : I!Send("confirm", screen.name, code)
    BY <1>8 DEF I!Confirm
  <2>2. /\ modal.kind = "setup" /\ modal.secret # I!None /\ ~modal.codes
        /\ ~I!Waiting({"confirm"}) /\ UNCHANGED <<awaiting, modal, screen>>
    BY <1>8 DEF I!Confirm, I!SetupForm, I!Send
  <2>3. I!Shown
    BY <1>3, <2>2
  <2>4. \A q \in Under(requests) : Asks(q) => q.kind \in Dialogs /\ q.kind # "confirm" /\ Asker(q)
    BY <2>2, <2>3, FormWaits DEF SignInInv, SignInDialogs
  <2>5. \A q \in Under(requests) : ~Asks(q)
    BY <2>2, <2>4 DEF Asker, Asks, Dialogs
  <2>6. \A r : r.kind = "confirm" => Asker(r)'
    BY <2>2 DEF Asker, Logins
  <2>7. code \in 0..MaxSetups /\ (code # I!None => cookie # I!None /\ code \in phone[owner[cookie]])
    BY <1>2, CodeTyped
  <2>8. QED
    BY <1>2, <2>1, <2>2, <2>3, <2>5, <2>6, <2>7, SignInSends DEF Dialogs
<1>9. ASSUME I!SubmitDisable PROVE SignInInv'
  <2>1. PICK code \in I!Codes(I!Me) : I!Send("disable", screen.name, code)
    BY <1>9 DEF I!SubmitDisable
  <2>2. /\ modal.kind = "disable" /\ ~I!Waiting({"disable"}) /\ UNCHANGED <<awaiting, modal, screen>>
    BY <1>9 DEF I!SubmitDisable, I!DisableForm, I!Send
  <2>3. I!Shown
    BY <1>3, <2>2
  <2>4. \A q \in Under(requests) : Asks(q) => q.kind \in Dialogs /\ q.kind # "disable" /\ Asker(q)
    BY <2>2, <2>3, FormWaits DEF SignInInv, SignInDialogs
  <2>5. \A q \in Under(requests) : ~Asks(q)
    BY <2>2, <2>4 DEF Asker, Asks, Dialogs
  <2>6. \A r : r.kind = "disable" => Asker(r)'
    BY <2>2 DEF Asker, Logins
  <2>7. code \in 0..MaxSetups /\ (code # I!None => cookie # I!None /\ code \in phone[owner[cookie]])
    BY <1>2, CodeTyped
  <2>8. QED
    BY <1>2, <2>1, <2>2, <2>3, <2>5, <2>6, <2>7, SignInSends DEF Dialogs
<1>10. QED
  BY <1>4, <1>5, <1>6, <1>7, <1>8, <1>9

\* A browser's step that answers nothing.
LEMMA SignInShows ==
    ASSUME SignInInv,
           \/ I!Back \/ I!OpenDisable \/ I!CodesSaved \/ I!Reload
           \/ \E s \in I!Sessions : I!Expire(s)
    PROVE  SignInInv'
<1>1. SignInSound /\ SignInDialogs /\ SignInNews
  BY DEF SignInInv
<1>2. /\ mfa \in [Accounts -> [enabled : BOOLEAN, secret : 0..MaxSetups]]
      /\ phone \in [Accounts -> SUBSET (1..MaxSetups)] /\ cookie \in DOMAIN owner \cup {I!None}
      /\ screen \in [name : Accounts, mfaEnabled : BOOLEAN] \cup {I!NoOne}
      /\ awaiting \in Accounts \cup {I!Nobody} /\ modal \in I!Modals /\ live \subseteq DOMAIN owner
      /\ requests \in Seq(I!CallRecords) /\ Len(requests) <= MaxRequests
      /\ revived \in BOOLEAN /\ missed \in BOOLEAN /\ MaxRequests \in Nat
      /\ \A s \in DOMAIN owner : owner[s] \in Accounts /\ s # I!None
      /\ MaxSetups \in Nat /\ I!Nobody \notin Accounts
  BY <1>1, SignInTypes
<1>3. \A q \in Under(requests) : Stems(q, q)
  BY DEF Stems
<1>4. \A kind \in {"none", "setup", "disable"} : [kind |-> kind, secret |-> 0, codes |-> FALSE] \in I!Modals
  BY <1>2 DEF I!Modals
<1>5. I!NoModal \in I!Modals /\ I!NoModal.kind = "none" /\ I!NoModal.codes = FALSE
  BY <1>4 DEF I!NoModal, I!None
<1>6. ASSUME I!Back PROVE SignInInv'
  <2>1. /\ ~I!Shown /\ awaiting' = I!Nobody
        /\ UNCHANGED <<mfa, owner, live, setups, torn, phone, cookie, screen, modal, requests, revived, missed>>
    BY <1>6 DEF I!Back, I!serverVars
  <2>2. I!ScreenIsCookie'
    BY <1>1, <2>1 DEF SignInSound, I!ScreenIsCookie, I!Shown, I!Me
  <2>3. SignInSound'
    BY <1>1, <1>2, <1>3, <2>1, <2>2, BrowserSteps
  <2>4. SignInDialogs'
    BY <1>1, <2>1 DEF SignInDialogs, Asker, I!Shown
  <2>5. SignInNews'
    BY <1>1, <2>1 DEF SignInNews, News, Timely, Told, Enabled, I!Shown
  <2>6. QED
    BY <2>3, <2>4, <2>5 DEF SignInInv
<1>7. ASSUME I!OpenDisable PROVE SignInInv'
  <2>1. /\ I!Shown /\ modal = I!NoModal
        /\ modal' = [kind |-> "disable", secret |-> 0, codes |-> FALSE]
        /\ UNCHANGED <<mfa, owner, live, setups, torn, phone, cookie, screen, awaiting, requests, revived, missed>>
    BY <1>7 DEF I!OpenDisable, I!serverVars, I!NoModal, I!None
  <2>2. I!ScreenIsCookie'
    BY <1>1, <2>1 DEF SignInSound, I!ScreenIsCookie, I!Shown, I!Me
  <2>3. modal' \in I!Modals
    BY <1>4, <2>1
  <2>4. SignInSound'
    BY <1>1, <1>2, <1>3, <2>1, <2>2, <2>3, BrowserSteps
  <2>5. \A q \in Under(requests) : Asks(q) => q.kind \in Logins /\ ~I!Shown
    BY <1>5, <2>1, FormWaits
  <2>6. \A q \in Under(requests) : Asker(q)'
    BY <2>1, <2>5 DEF Asker, Asks, Logins
  <2>7. modal'.kind = "disable" /\ modal'.codes = FALSE
    BY <2>1
  <2>8. SignInDialogs'
    BY <1>1, <2>1, <2>6, <2>7 DEF SignInDialogs, I!Shown
  <2>9. ~(modal.codes = TRUE)
    BY <1>5, <2>1
  <2>10. SignInNews'
    BY <1>1, <2>1, <2>7, <2>9 DEF SignInNews, News, Timely, Told, Enabled, I!Shown
  <2>11. QED
    BY <2>4, <2>8, <2>10 DEF SignInInv
<1>8. ASSUME I!CodesSaved PROVE SignInInv'
  <2>1. /\ modal.codes /\ modal' = I!NoModal /\ screen' = [screen EXCEPT !.mfaEnabled = TRUE]
        /\ UNCHANGED <<mfa, owner, live, setups, torn, phone, cookie, awaiting, requests, revived, missed>>
    BY <1>8 DEF I!CodesSaved, I!serverVars
  <2>2. modal.codes = TRUE
    BY <1>2, <2>1 DEF I!Modals
  <2>3. modal.kind = "setup" /\ modal.secret # I!None /\ I!Shown
    BY <1>1, <2>2 DEF SignInDialogs
  <2>4. /\ screen' \in [name : Accounts, mfaEnabled : BOOLEAN] /\ screen'.name = screen.name
        /\ screen'.mfaEnabled = TRUE
    BY <1>2, <2>1, <2>3 DEF I!Shown
  <2>5. I!Shown'
    BY <1>2, <2>4 DEF I!Shown, I!NoOne
  <2>6. I!ScreenIsCookie'
    BY <1>1, <2>1, <2>3, <2>4 DEF SignInSound, I!ScreenIsCookie, I!Me
  <2>7. SignInSound'
    BY <1>1, <1>2, <1>3, <1>5, <2>1, <2>4, <2>6, BrowserSteps
  <2>8. \A q \in Under(requests) : ~Asks(q)
    <3>1. \A q \in Under(requests) : Asker(q) /\ (Asks(q) => q.kind \in Logins \cup Dialogs)
      BY <1>1, FormWaits DEF SignInDialogs
    <3>2. QED
      BY <2>2, <2>3, <3>1 DEF Asker, Asks, Logins, Dialogs
  <2>9. \A q \in Under(requests) : Asker(q)'
    BY <2>8 DEF Asker, Asks, Logins
  <2>10. SignInDialogs'
    BY <1>1, <1>5, <2>1, <2>5, <2>9 DEF SignInDialogs
  <2>11. ASSUME missed # TRUE, ~Late(requests) PROVE News'
    <3>1. News /\ Enabled(screen.name)
      BY <1>1, <2>2, <2>11 DEF SignInNews, News
    <3>2. \A q \in Under(requests) : Told(q)'
      BY <2>1, <2>4, <3>1 DEF News, Told, Enabled
    <3>3. Enabled(screen.name)' /\ ~(modal'.codes = TRUE) /\ screen'.mfaEnabled = TRUE
      BY <1>5, <2>1, <2>4, <3>1 DEF Enabled
    <3>4. QED
      BY <2>1, <3>2, <3>3 DEF News
  <2>12. ASSUME missed # TRUE PROVE revived # TRUE /\ \A q \in Under(requests) : Timely(q)'
    BY <1>1, <2>1, <2>4, <2>12 DEF SignInNews, Timely
  <2>13. SignInNews'
    BY <2>1, <2>11, <2>12 DEF SignInNews
  <2>14. QED
    BY <2>7, <2>10, <2>13 DEF SignInInv
<1>9. ASSUME I!Reload PROVE SignInInv'
  <2>1. /\ awaiting' = I!Nobody /\ modal' = I!NoModal
        /\ revived' = FALSE /\ missed' = FALSE
        /\ UNCHANGED <<mfa, owner, live, setups, torn, phone, cookie, requests>>
        /\ screen' = IF cookie \in live
                     THEN [name |-> I!Me, mfaEnabled |-> mfa[I!Me].enabled] ELSE I!NoOne
    BY <1>9 DEF I!Reload, I!serverVars
  <2>2. ASSUME NEW r \in Under(requests)
        PROVE  r.kind \in Dialogs /\ ~(r.here = TRUE) /\ r.result # "ok"
    <3>1. PICK i \in DOMAIN requests : r = requests[i]
      BY <1>1, SignInTypes DEF Under
    <3>2. r.heard = FALSE /\ Backed(r)
      BY <1>1, <1>9, <3>1, SignInTypes DEF I!Reload, I!CallRecords, SignInSound
    <3>3. QED
      BY <3>2 DEF Backed
  <2> DEFINE typed == /\ revived' \in BOOLEAN /\ missed' \in BOOLEAN /\ modal' \in I!Modals
                      /\ awaiting' \in Accounts \cup {I!Nobody}
                      /\ phone' \in [Accounts -> SUBSET (1..MaxSetups)]
                      /\ \A a \in Accounts : phone[a] \subseteq phone'[a]
                      /\ cookie' \in DOMAIN owner \cup {I!None}
                      /\ UNCHANGED <<mfa, owner, live, setups, torn>>
                      /\ requests' \in Seq(I!CallRecords) /\ Len(requests') <= MaxRequests
                      /\ \A r \in Under(requests') :
                           (Backed(r) /\ Vouched(r)) \/ \E q \in Under(requests) : Stems(r, q)
  <2>3. typed
    BY <1>1, <1>2, <1>5, <2>1 DEF SignInSound
  <2>4. SignInDialogs'
    <3>1. \A r \in Under(requests') : Asker(r)'
      BY <2>1, <2>2 DEF Asker
    <3>2. AtMostOne(requests')
      BY <1>1, <2>1 DEF SignInDialogs
    <3>3. QED
      BY <1>5, <2>1, <3>1, <3>2 DEF SignInDialogs
  <2>5. News' => SignInNews'
    <3>1. \A r \in Under(requests') : Timely(r)'
      BY <2>1, <2>2 DEF Timely, Logins, Dialogs
    <3>2. QED
      BY <2>1, <3>1 DEF SignInNews
  <2>9. \A r \in Under(requests') : Told(r)'
    BY <2>1, <2>2 DEF Told
  <2>6. CASE cookie \in live
    <3>1. I!Me = owner[cookie] /\ owner[cookie] \in Accounts /\ cookie # I!None
      BY <1>2, <2>6 DEF I!Me
    <3>2. screen' = [name |-> owner[cookie], mfaEnabled |-> mfa[owner[cookie]].enabled]
      BY <2>1, <2>6, <3>1
    <3>3. /\ screen'.name = owner[cookie] /\ screen'.mfaEnabled = mfa[owner[cookie]].enabled
          /\ screen' \in [name : Accounts, mfaEnabled : BOOLEAN]
      BY <1>2, <3>1, <3>2
    <3>4. I!ScreenIsCookie'
      BY <2>1, <3>1, <3>3 DEF I!ScreenIsCookie, I!Me
    <3>5. SignInSound'
      BY ONLY <1>1, <2>3, <3>3, <3>4, BrowserSteps
    <3>6. News' /\ I!Shown'
      BY <1>2, <1>5, <2>1, <2>9, <3>1, <3>3 DEF News, Enabled, I!Shown, I!NoOne
    <3>7. QED
      BY <2>4, <2>5, <3>5, <3>6 DEF SignInInv
  <2>7. CASE cookie \notin live
    <3>1. screen' = I!NoOne
      BY <2>1, <2>7
    <3>2. I!ScreenIsCookie'
      BY <3>1 DEF I!ScreenIsCookie, I!Shown
    <3>3. SignInSound'
      BY ONLY <1>1, <2>3, <3>1, <3>2, BrowserSteps
    <3>4. News'
      BY <1>5, <2>1, <2>9, <3>1 DEF News, I!Shown
    <3>5. QED
      BY <2>4, <2>5, <3>3, <3>4 DEF SignInInv
  <2>8. QED
    BY <2>6, <2>7
<1>10. ASSUME NEW s \in I!Sessions, I!Expire(s) PROVE SignInInv'
  <2>1. /\ live' = live \ {s}
        /\ UNCHANGED <<mfa, owner, setups, torn, phone, cookie, screen, awaiting, modal, requests>>
        /\ UNCHANGED <<revived, missed>>
    BY <1>10 DEF I!Expire, I!Screen
  <2>2. SignInSound'
    BY <1>1, <2>1 DEF SignInSound, I!TypeOK, I!SecretIsHeld, I!ScreenIsCookie, I!Shown, I!Me, Backed, Vouched
  <2>3. SignInDialogs'
    BY <1>1, <2>1 DEF SignInDialogs, Asker, I!Shown
  <2>4. SignInNews'
    BY <1>1, <2>1 DEF SignInNews, News, Timely, Told, Enabled, I!Shown
  <2>5. QED
    BY <2>2, <2>3, <2>4 DEF SignInInv
<1>11. QED
  BY <1>6, <1>7, <1>8, <1>9, <1>10

\* What is known of the request that a step is about.
LEMMA RequestFacts ==
    ASSUME SignInInv, NEW i \in DOMAIN requests
    PROVE  /\ i \in 1..Len(requests) /\ requests[i] \in Under(requests)
           /\ requests[i] \in I!CallRecords /\ Backed(requests[i]) /\ Asker(requests[i])
           /\ requests[i].heard \in BOOLEAN
           /\ missed # TRUE => Timely(requests[i])
<1>1. DOMAIN requests = 1..Len(requests) /\ \A q \in Under(requests) : q \in I!CallRecords
  BY SignInTypes DEF SignInInv
<1>2. i \in 1..Len(requests) /\ requests[i] \in Under(requests)
  BY <1>1 DEF Under
<1>3. requests[i].heard \in BOOLEAN
  BY <1>1, <1>2 DEF I!CallRecords
<1>4. QED
  BY <1>1, <1>2, <1>3 DEF SignInInv, SignInSound, SignInDialogs, SignInNews

\* The server is done with a request, which becomes r.
LEMMA ServerSteps ==
    ASSUME SignInInv, NEW i \in DOMAIN requests, NEW r \in I!CallRecords,
           requests' = [requests EXCEPT ![i] = r],
           r.here = requests[i].here, r.kind = requests[i].kind,
           r.kind \in Dialogs => r.session = requests[i].session /\ r.account = requests[i].account,
           UNCHANGED <<phone, cookie, screen, awaiting, modal, revived, missed>>,
           mfa' \in [Accounts -> [enabled : BOOLEAN, secret : 0..MaxSetups]],
           owner' \in Seq(Accounts), Len(owner') <= MaxSessions, live' \subseteq DOMAIN owner',
           \A s \in DOMAIN owner : s \in DOMAIN owner' /\ owner'[s] = owner[s],
           setups' \in 0..MaxSetups, torn' \subseteq Accounts,
           Backed(r)', Vouched(r)', \A q \in Under(requests) : Vouched(q)', I!SecretIsHeld',
           missed # TRUE /\ ~Late(requests') => News'
    PROVE  SignInInv'
<1>1. /\ phone \in [Accounts -> SUBSET (1..MaxSetups)] /\ cookie \in DOMAIN owner \cup {I!None}
      /\ screen \in [name : Accounts, mfaEnabled : BOOLEAN] \cup {I!NoOne}
      /\ awaiting \in Accounts \cup {I!Nobody} /\ modal \in I!Modals
      /\ requests \in Seq(I!CallRecords) /\ Len(requests) <= MaxRequests
      /\ revived \in BOOLEAN /\ missed \in BOOLEAN
      /\ \A s \in DOMAIN owner : owner[s] \in Accounts /\ s # I!None
  BY SignInTypes DEF SignInInv
<1>2. /\ requests' \in Seq(I!CallRecords) /\ Len(requests') = Len(requests)
      /\ \A q \in Under(requests') : q \in Under(requests) \/ q = r
      /\ AtMostOne(requests')
  BY <1>1, RequestFacts, RequestServed DEF SignInInv, SignInDialogs
<1>3. SignInSound'
  <2>1. I!TypeOK'
    <3>1. cookie' \in DOMAIN owner' \cup {I!None}
      BY <1>1
    <3>2. /\ phone' \in [Accounts -> SUBSET (1..MaxSetups)]
          /\ screen' \in [name : Accounts, mfaEnabled : BOOLEAN] \cup {I!NoOne}
          /\ awaiting' \in Accounts \cup {I!Nobody} /\ modal' \in I!Modals
          /\ revived' \in BOOLEAN /\ missed' \in BOOLEAN
      BY <1>1
    <3>3. requests' \in Seq(I!CallRecords) /\ Len(requests') <= MaxRequests
      BY <1>1, <1>2
    <3>4. QED
      BY <3>1, <3>2, <3>3 DEF I!TypeOK
  <2>2. I!ScreenIsCookie'
    <3>1. I!ScreenIsCookie
      BY DEF SignInInv, SignInSound
    <3>2. cookie # I!None => owner'[cookie] = owner[cookie]
      BY <1>1
    <3>3. QED
      BY <3>1, <3>2 DEF I!ScreenIsCookie, I!Shown, I!Me
  <2>3. ASSUME NEW q \in Under(requests) PROVE Backed(q)'
    <3>1. Stems(q, q) /\ Backed(q) /\ SignInSound /\ \A a \in Accounts : phone[a] \subseteq phone'[a]
      BY <2>3 DEF Stems, SignInInv, SignInSound
    <3>2. QED
      BY <3>1, BackedStays
  <2>4. QED
    BY <1>2, <2>1, <2>2, <2>3 DEF SignInSound
<1>4. SignInDialogs'
  <2>1. \A q \in Under(requests) : Asker(q)'
    BY DEF SignInInv, SignInDialogs, Asker, I!Shown
  <2>2. Asker(r)'
    <3>1. PICK old \in Under(requests) : old = requests[i]
      BY RequestFacts
    <3>2. Asker(old)'
      BY <2>1
    <3>3. QED
      BY <3>1, <3>2 DEF Asker
  <2>3. QED
    BY <1>2, <2>1, <2>2 DEF SignInInv, SignInDialogs, I!Shown
<1>5. ASSUME missed # TRUE, NEW q \in Under(requests') PROVE Timely(q)'
  <2>1. ASSUME NEW p \in Under(requests) PROVE Timely(p)'
    <3>1. Timely(p) /\ Backed(p)
      BY <1>5, <2>1 DEF SignInInv, SignInNews, SignInSound
    <3>2. p.session # I!None => owner'[p.session] = owner[p.session]
      BY <3>1 DEF Backed
    <3>3. QED
      BY <3>1, <3>2 DEF Timely
  <2>2. Timely(r)'
    <3>1. PICK old \in Under(requests) : old = requests[i]
      BY RequestFacts
    <3>2. Timely(old)'
      BY <2>1
    <3>3. QED
      BY <3>1, <3>2 DEF Timely
  <2>3. QED
    BY <1>2, <1>5, <2>1, <2>2
<1>6. SignInNews'
  BY <1>5 DEF SignInInv, SignInNews
<1>7. QED
  BY <1>3, <1>4, <1>6 DEF SignInInv

\* It has answered without switching a second factor on or off.
LEMMA NewsStay ==
    ASSUME SignInInv, NEW i \in DOMAIN requests, NEW r \in I!CallRecords,
           requests' = [requests EXCEPT ![i] = r], requests[i].result # "ok",
           r.here = requests[i].here, r.kind = requests[i].kind, ~Changed(r),
           UNCHANGED <<screen, modal>>, \A a \in Accounts : Enabled(a)' <=> Enabled(a),
           Told(r)', missed # TRUE, ~Late(requests')
    PROVE  News'
<1>1. /\ \A q \in Under(requests') : q \in Under(requests) \/ q = r
      /\ \A q \in Under(requests) : q \in Under(requests') \/ q = requests[i]
  BY SignInTypes, RequestFacts, RequestServed DEF SignInInv
<1>2. ~Changed(requests[i])
  BY DEF Changed
<1>3. ~Late(requests) /\ (Settled(requests') => Settled(requests))
  BY <1>1, <1>2 DEF Late, Settled
<1>4. News /\ (I!Shown => screen.name \in Accounts)
  BY <1>3, SignInTypes DEF SignInInv, SignInNews
<1>5. modal.codes = TRUE => I!Shown
  BY DEF SignInInv, SignInDialogs
<1>6. ASSUME NEW q \in Under(requests) PROVE Told(q)'
  <2>1. Told(q) /\ q.account \in Accounts /\ Asker(q)
    BY <1>4, <1>6 DEF News, SignInInv, SignInSound, SignInDialogs, Backed
  <2>2. q.here = TRUE /\ q.kind \in {"confirm", "disable"} => I!Shown
    BY <2>1 DEF Asker, SignInInv, SignInDialogs
  <2>3. QED
    BY <1>4, <2>1, <2>2 DEF Told
<1>7. /\ (modal.codes = TRUE => Enabled(screen.name))'
      /\ (I!Shown /\ ~(modal.codes = TRUE) /\ Settled(requests) =>
            (screen.mfaEnabled = TRUE <=> Enabled(screen.name)))'
  BY <1>3, <1>4, <1>5 DEF News, I!Shown
<1>8. QED
  BY <1>1, <1>6, <1>7 DEF News

\* It gives the request a result, for the page or for itself.
LEMMA ResultGiven ==
    ASSUME SignInInv, NEW i \in DOMAIN requests,
           NEW x \in {"ok", "checked", "mfa", "unauthorized", "error"},
           (I!Result(i, x) /\ requests[i].heard = TRUE) \/ I!Step(i, x)
    PROVE  \E r \in I!CallRecords :
             requests' = [requests EXCEPT ![i] = r] /\ Became(r, requests[i], x)
<1>1. PICK old \in I!CallRecords : old = requests[i]
  BY RequestFacts
<1>2. requests \in Seq(I!CallRecords) /\ i \in 1..Len(requests)
  BY SignInTypes, RequestFacts DEF SignInInv
<1>3. ASSUME NEW r, r = [old EXCEPT !.result = x] \/ r = [old EXCEPT !.result = x, !.secret = old.secret]
      PROVE  r \in I!CallRecords /\ Became(r, old, x)
  BY <1>3 DEF I!CallRecords, Became
<1>4. CASE I!Result(i, x) /\ requests[i].heard = TRUE
  <2>1. requests' = [requests EXCEPT ![i] = [old EXCEPT !.result = x, !.secret = old.secret]]
    BY <1>1, <1>2, <1>4 DEF I!Result, I!Answer
  <2>2. QED
    BY <1>1, <1>3, <2>1
<1>5. CASE I!Step(i, x)
  <2>1. requests' = [requests EXCEPT ![i] = [old EXCEPT !.result = x]]
    BY <1>1, <1>5 DEF I!Step
  <2>2. QED
    BY <1>1, <1>3, <2>1
<1>6. QED
  BY <1>4, <1>5

\* While it changes no factor and no session, it vouches for what it did.
LEMMA VouchedOn ==
    ASSUME SignInInv, UNCHANGED <<mfa, torn, phone>>,
           \A s \in DOMAIN owner : s \in DOMAIN owner' /\ owner'[s] = owner[s]
    PROVE  \A q \in Under(requests) : Vouched(q)'
<1> SUFFICES ASSUME NEW q \in Under(requests), q.kind = "confirm", q.result = "checked"
             PROVE  Vouched(q)'
  BY DEF Vouched
<1>1. Backed(q) /\ Vouched(q)
  BY DEF SignInInv, SignInSound
<1>2. q.session \in DOMAIN owner
  BY <1>1 DEF Backed
<1>3. QED
  BY <1>1, <1>2 DEF Vouched

\* It is done with a request that nobody waits for.
LEMMA OrphanServed ==
    ASSUME SignInInv, NEW i \in DOMAIN requests, requests' = I!Rest(i),
           requests[i].heard = FALSE,
           UNCHANGED <<owner, live, phone, cookie, screen, awaiting, modal, revived>>,
           mfa' \in [Accounts -> [enabled : BOOLEAN, secret : 0..MaxSetups]],
           setups' \in 0..MaxSetups, torn' \subseteq Accounts, missed' \in BOOLEAN,
           \A q \in Under(requests) : Vouched(q)', I!SecretIsHeld',
           missed' # TRUE => missed # TRUE /\ \A a \in Accounts : Enabled(a)' <=> Enabled(a)
    PROVE  SignInInv'
<1>1. /\ owner \in Seq(Accounts) /\ live \subseteq DOMAIN owner /\ Len(owner) <= MaxSessions
      /\ phone \in [Accounts -> SUBSET (1..MaxSetups)] /\ cookie \in DOMAIN owner \cup {I!None}
      /\ screen \in [name : Accounts, mfaEnabled : BOOLEAN] \cup {I!NoOne}
      /\ I!Shown => screen.name \in Accounts
      /\ awaiting \in Accounts \cup {I!Nobody} /\ modal \in I!Modals /\ revived \in BOOLEAN
      /\ requests \in Seq(I!CallRecords) /\ Len(requests) <= MaxRequests /\ MaxRequests \in Nat
      /\ AtMostOne(requests)
  BY SignInTypes DEF SignInInv, SignInDialogs
<1>2. ~Changed(requests[i]) /\ requests[i] \in Under(requests)
  BY RequestFacts DEF Backed, Changed
<1>3. /\ requests' \in Seq(I!CallRecords) /\ Len(requests') <= Len(requests)
      /\ \A r \in Under(requests') : r \in Under(requests)
      /\ AtMostOne(requests')
      /\ ~Late(requests') => ~Late(requests)
      /\ ~Late(requests') /\ Settled(requests') => Settled(requests)
  BY <1>1, <1>2, AnswerTaken
<1>4. Len(requests') <= MaxRequests
  <2>1. Len(requests) \in Nat /\ Len(requests') \in Nat
    BY <1>1, <1>3, LenProperties
  <2>2. QED
    BY <1>1, <1>3, <2>1
<1>5. I!TypeOK'
  BY <1>1, <1>3, <1>4 DEF I!TypeOK
<1>6. \A q \in Under(requests') : Backed(q)' /\ Vouched(q)'
  <2>1. ASSUME NEW q \in Under(requests) PROVE Backed(q)'
    <3>1. Stems(q, q) /\ Backed(q) /\ SignInSound
      BY DEF Stems, SignInInv, SignInSound
    <3>2. QED
      BY <3>1, BackedStays
  <2>2. QED
    BY <1>3, <2>1
<1>7. SignInSound'
  <2>1. I!ScreenIsCookie'
    BY DEF SignInInv, SignInSound, I!ScreenIsCookie, I!Shown, I!Me
  <2>2. QED
    BY <1>1, <1>5, <1>6, <2>1 DEF SignInSound
<1>8. SignInDialogs'
  BY <1>3 DEF SignInInv, SignInDialogs, Asker, I!Shown
<1>9. ASSUME missed' # TRUE PROVE revived' # TRUE /\ \A q \in Under(requests') : Timely(q)'
  BY <1>3, <1>9 DEF SignInInv, SignInNews, Timely
<1>10. ASSUME missed' # TRUE, ~Late(requests') PROVE News'
  <2>1. News /\ (Settled(requests') => Settled(requests))
    BY <1>3, <1>10 DEF SignInInv, SignInNews
  <2>2. ASSUME NEW q \in Under(requests') PROVE Told(q)'
    <3>1. Told(q) /\ q.account \in Accounts /\ Asker(q)
      BY <1>3, <2>1, <2>2 DEF News, SignInInv, SignInSound, SignInDialogs, Backed
    <3>2. q.here = TRUE /\ q.kind \in {"confirm", "disable"} => I!Shown
      BY <3>1 DEF Asker, SignInInv, SignInDialogs
    <3>3. QED
      BY <1>1, <1>10, <3>1, <3>2 DEF Told
  <2>3. modal.codes = TRUE => I!Shown
    BY DEF SignInInv, SignInDialogs
  <2>4. QED
    BY <1>1, <1>10, <2>1, <2>2, <2>3 DEF News, I!Shown
<1>11. SignInNews'
  BY <1>9, <1>10 DEF SignInNews
<1>12. QED
  BY <1>7, <1>8, <1>11 DEF SignInInv

\* The server logs somebody in, or does not.
LEMMA SignInServesLogin ==
    ASSUME SignInInv, NEW i \in DOMAIN requests, I!ServeLogin(i)
    PROVE  SignInInv'
<1>1. PICK old \in I!CallRecords : old = requests[i]
  BY RequestFacts
<1>2. /\ old.kind \in {"login", "code"} /\ old.result = "none" /\ Backed(old)
      /\ UNCHANGED <<phone, cookie, screen, awaiting, modal, revived, missed>>
  BY <1>1, RequestFacts DEF I!ServeLogin, I!Screen
<1>3. /\ mfa \in [Accounts -> [enabled : BOOLEAN, secret : 0..MaxSetups]]
      /\ owner \in Seq(Accounts) /\ live \subseteq DOMAIN owner /\ Len(owner) <= MaxSessions
      /\ DOMAIN owner = 1..Len(owner) /\ Len(owner) \in Nat /\ MaxSessions \in Nat
      /\ setups \in 0..MaxSetups /\ requests \in Seq(I!CallRecords) /\ DOMAIN requests = 1..Len(requests)
      /\ torn \subseteq Accounts
  BY SignInTypes DEF SignInInv
<1>4. old.account \in Accounts /\ I!SecretIsHeld
  BY <1>2 DEF Backed, SignInInv, SignInSound
<1>5. old.heard = TRUE
  BY <1>1, <1>2, RequestFacts DEF Backed, Dialogs
<1>6. ASSUME NEW x \in {"mfa", "unauthorized"}, I!Result(i, x), UNCHANGED I!serverVars
      PROVE  SignInInv'
  <2>1. PICK r \in I!CallRecords : requests' = [requests EXCEPT ![i] = r] /\ Became(r, old, x)
    <3>1. x \in {"ok", "checked", "mfa", "unauthorized", "error"} /\ requests[i].heard = TRUE
      BY <1>1, <1>5
    <3>2. QED
      BY <1>1, <1>6, <3>1, ResultGiven
  <2>2. /\ r.kind = old.kind /\ r.here = old.here /\ r.result = x /\ r.account = old.account
        /\ r.session = old.session /\ r.secret = old.secret /\ r.heard = TRUE
    BY <1>5, <2>1 DEF Became
  <2>3. requests' = [requests EXCEPT ![i] = r] /\ UNCHANGED <<mfa, owner, live, setups, torn>>
    BY <1>6, <2>1 DEF I!serverVars
  <2>4. Backed(r)' /\ Vouched(r)' /\ \A q \in Under(requests) : Vouched(q)'
    BY <1>2, <2>2, <2>3, VouchedOn DEF Backed, Vouched, Logins
  <2>5. I!SecretIsHeld'
    BY <1>2, <1>4, <2>3 DEF I!SecretIsHeld
  <2>6. Told(r)' /\ ~Changed(r)
    BY <1>2, <2>2 DEF Told, Changed
  <2>7. \A a \in Accounts : Enabled(a)' <=> Enabled(a)
    BY <2>3 DEF Enabled
  <2>8. missed # TRUE /\ ~Late(requests') => News'
    BY <1>1, <1>2, <2>2, <2>3, <2>6, <2>7, NewsStay
  <2>9. QED
    BY <1>1, <1>2, <1>3, <2>2, <2>3, <2>4, <2>5, <2>8, ServerSteps DEF Dialogs
<1>7. ASSUME IF old.kind = "login" THEN ~mfa[old.account].enabled
             ELSE mfa[old.account].enabled /\ I!Verifies(old.account, old.secret),
             I!NewSession(old.account),
             requests' = [requests EXCEPT ![i].result = "ok", ![i].session = Len(owner) + 1]
      PROVE  SignInInv'
  <2>1. PICK n \in Nat : n = Len(owner) + 1
    BY <1>3
  <2>2. /\ owner' = Append(owner, old.account) /\ live' = live \cup {n} /\ n <= MaxSessions
        /\ mfa' = mfa /\ setups' = setups /\ torn' = torn
    BY <1>3, <1>7, <2>1 DEF I!NewSession
  <2>3. /\ owner' \in Seq(Accounts) /\ Len(owner') = n /\ DOMAIN owner' = 1..n
        /\ \A s \in 1..Len(owner) : owner'[s] = owner[s]
        /\ owner'[n] = old.account
    BY <1>3, <1>4, <2>1, <2>2
  <2>4. /\ live' \subseteq DOMAIN owner' /\ n \in 1..MaxSessions
        /\ \A s \in DOMAIN owner : s \in DOMAIN owner' /\ owner'[s] = owner[s]
    BY <1>3, <2>1, <2>2, <2>3
  <2>5. PICK r : r = [old EXCEPT !.result = "ok", !.session = n]
    OBVIOUS
  <2>6. /\ r \in I!CallRecords /\ r.kind = old.kind /\ r.here = old.here /\ r.result = "ok"
        /\ r.account = old.account /\ r.session = n /\ r.secret = old.secret /\ r.heard = TRUE
    BY <1>5, <2>4, <2>5 DEF I!CallRecords, I!Sessions
  <2>7. requests' = [requests EXCEPT ![i] = r]
    BY <1>1, <1>3, <1>7, <2>1, <2>5
  <2>8. Backed(r)' /\ Vouched(r)' /\ \A q \in Under(requests) : Vouched(q)'
    <3>1. Backed(r)'
      BY <1>2, <1>4, <2>1, <2>3, <2>6 DEF Backed, Logins, I!None
    <3>2. QED
      BY <1>2, <2>2, <2>4, <2>6, <3>1, VouchedOn DEF Vouched
  <2>9. I!SecretIsHeld'
    BY <1>2, <1>4, <2>2 DEF I!SecretIsHeld
  <2>10. \A a \in Accounts : Enabled(a)' <=> Enabled(a)
    BY <2>2 DEF Enabled
  <2>11. Told(r)' /\ ~Changed(r)
    <3>1. mfa[old.account].enabled \in BOOLEAN
      BY <1>3, <1>4
    <3>2. CASE old.kind = "login"
      BY <1>7, <2>2, <2>6, <3>1, <3>2 DEF Told, Changed, Enabled
    <3>3. CASE old.kind = "code"
      BY <1>7, <2>2, <2>6, <3>1, <3>3 DEF Told, Changed, Enabled
    <3>4. QED
      BY <1>2, <3>2, <3>3
  <2>12. missed # TRUE /\ ~Late(requests') => News'
    BY <1>1, <1>2, <2>6, <2>7, <2>10, <2>11, NewsStay
  <2>13. r.kind \notin Dialogs /\ mfa' \in [Accounts -> [enabled : BOOLEAN, secret : 0..MaxSetups]]
    BY <1>2, <1>3, <2>2, <2>6 DEF Dialogs
  <2>14. setups' \in 0..MaxSetups /\ Len(owner') <= MaxSessions /\ torn' \subseteq Accounts
    BY <1>3, <2>2, <2>3
  <2>15. QED
    BY <1>1, <1>2, <2>3, <2>4, <2>6, <2>7, <2>8, <2>9, <2>12, <2>13, <2>14, ServerSteps
<1>8. QED
  BY <1>1, <1>6, <1>7 DEF I!ServeLogin

\* The server logs somebody out.
LEMMA SignInServesLogout ==
    ASSUME SignInInv, NEW i \in DOMAIN requests, I!ServeLogout(i)
    PROVE  SignInInv'
<1>1. PICK old \in I!CallRecords : old = requests[i]
  BY RequestFacts
<1>2. /\ old.kind = "logout" /\ old.result = "none" /\ Backed(old)
      /\ UNCHANGED <<phone, cookie, screen, awaiting, modal, revived, missed>>
      /\ UNCHANGED <<mfa, owner, setups, torn>> /\ live' = live \ {requests[i].session}
      /\ I!Result(i, "ok")
  BY <1>1, RequestFacts DEF I!ServeLogout, I!Screen
<1>3. /\ mfa \in [Accounts -> [enabled : BOOLEAN, secret : 0..MaxSetups]]
      /\ owner \in Seq(Accounts) /\ live \subseteq DOMAIN owner /\ Len(owner) <= MaxSessions
      /\ setups \in 0..MaxSetups /\ torn \subseteq Accounts
  BY SignInTypes DEF SignInInv
<1>4. old.heard = TRUE
  BY <1>1, <1>2, RequestFacts DEF Backed, Dialogs
<1>6. PICK r \in I!CallRecords : requests' = [requests EXCEPT ![i] = r] /\ Became(r, old, "ok")
  BY <1>1, <1>2, <1>4, ResultGiven
<1>5. /\ r.kind = old.kind /\ r.here = old.here /\ r.result = "ok" /\ r.heard = TRUE
      /\ r.account = old.account /\ r.session = old.session /\ r.secret = old.secret
  BY <1>4, <1>6 DEF Became
<1>7. Backed(r)' /\ Vouched(r)' /\ \A q \in Under(requests) : Vouched(q)'
  BY <1>2, <1>5, VouchedOn DEF Backed, Vouched, Logins
<1>8. I!SecretIsHeld'
  BY <1>2 DEF I!SecretIsHeld, SignInInv, SignInSound
<1>9. Told(r)' /\ ~Changed(r) /\ \A a \in Accounts : Enabled(a)' <=> Enabled(a)
  BY <1>2, <1>5 DEF Told, Changed, Enabled
<1>10. missed # TRUE /\ ~Late(requests') => News'
  BY <1>1, <1>2, <1>5, <1>6, <1>9, NewsStay
<1>11. r.kind \notin Dialogs
  BY <1>2, <1>5 DEF Dialogs
<1>12. /\ mfa' \in [Accounts -> [enabled : BOOLEAN, secret : 0..MaxSetups]]
       /\ owner' \in Seq(Accounts) /\ live' \subseteq DOMAIN owner' /\ Len(owner') <= MaxSessions
       /\ setups' \in 0..MaxSetups /\ torn' \subseteq Accounts
       /\ \A s \in DOMAIN owner : s \in DOMAIN owner' /\ owner'[s] = owner[s]
  BY <1>2, <1>3
<1>13. QED
  BY <1>1, <1>2, <1>5, <1>6, <1>7, <1>8, <1>10, <1>11, <1>12, ServerSteps

\* The server checks what is asked of a second factor.
LEMMA SignInChecksMfa ==
    ASSUME SignInInv, NEW i \in DOMAIN requests, I!CheckMfa(i)
    PROVE  SignInInv'
<1>1. PICK old \in I!CallRecords : old = requests[i]
  BY RequestFacts
<1>2. /\ old.kind \in Dialogs /\ old.result = "none" /\ Backed(old) /\ old.heard \in BOOLEAN
      /\ UNCHANGED <<mfa, owner, live, setups, torn>>
      /\ UNCHANGED <<phone, cookie, screen, awaiting, modal, revived, missed>>
  BY <1>1, RequestFacts DEF I!CheckMfa, I!Screen, I!serverVars, I!MfaKinds, Dialogs
<1>3. /\ mfa \in [Accounts -> [enabled : BOOLEAN, secret : 0..MaxSetups]]
      /\ owner \in Seq(Accounts) /\ live \subseteq DOMAIN owner /\ Len(owner) <= MaxSessions
      /\ \A s \in DOMAIN owner : owner[s] \in Accounts /\ s # I!None
      /\ setups \in 0..MaxSetups /\ torn \subseteq Accounts /\ missed \in BOOLEAN
  BY SignInTypes DEF SignInInv
<1>4. /\ mfa' \in [Accounts -> [enabled : BOOLEAN, secret : 0..MaxSetups]]
      /\ owner' \in Seq(Accounts) /\ live' \subseteq DOMAIN owner' /\ Len(owner') <= MaxSessions
      /\ \A s \in DOMAIN owner : s \in DOMAIN owner' /\ owner'[s] = owner[s]
      /\ setups' \in 0..MaxSetups /\ torn' \subseteq Accounts /\ missed' \in BOOLEAN
  BY <1>2, <1>3
<1>5. I!SecretIsHeld' /\ \A a \in Accounts : Enabled(a)' <=> Enabled(a)
  BY <1>2 DEF SignInInv, SignInSound, I!SecretIsHeld, Enabled
<1>6. \A q \in Under(requests) : Vouched(q)'
  BY <1>2, VouchedOn
<1>7. ASSUME NEW x \in {"checked", "unauthorized", "error"},
             (I!Result(i, x) /\ old.heard = TRUE) \/ (I!Step(i, x) /\ x = "checked"),
             x = "checked" => old.session \in live,
             x = "checked" /\ old.kind = "confirm" => I!Verifies(owner[old.session], old.secret)
      PROVE  SignInInv'
  <2>1. PICK r \in I!CallRecords : requests' = [requests EXCEPT ![i] = r] /\ Became(r, old, x)
    <3>1. /\ x \in {"ok", "checked", "mfa", "unauthorized", "error"}
          /\ (I!Result(i, x) /\ requests[i].heard = TRUE) \/ I!Step(i, x)
      BY <1>1, <1>7
    <3>2. QED
      BY <1>1, <3>1, ResultGiven
  <2>2. /\ r.kind = old.kind /\ r.here = old.here /\ r.result = x /\ r.heard = old.heard
        /\ r.account = old.account /\ r.session = old.session /\ r.secret = old.secret
    BY <2>1 DEF Became
  <2>3. Backed(r)'
    <3>1. x # "checked" => old.heard = TRUE
      BY <1>7
    <3>2. x = "checked" => old.session # I!None
      BY <1>3, <1>7
    <3>3. QED
      BY <1>2, <1>7, <2>2, <3>1, <3>2 DEF Backed, Logins, Dialogs
  <2>4. Vouched(r)'
    <3> SUFFICES ASSUME x = "checked", old.kind = "confirm"
                 PROVE  mfa[owner[old.session]].secret \in phone[owner[old.session]]
      BY <1>2, <2>2 DEF Vouched
    <3>1. mfa[owner[old.session]].secret = old.secret /\ old.secret # I!None
      BY <1>7 DEF I!Verifies
    <3>2. QED
      BY <1>2, <3>1 DEF Backed
  <2>5. Told(r)' /\ ~Changed(r)
    BY <1>2, <1>7, <2>2 DEF Told, Changed
  <2>6. missed # TRUE /\ ~Late(requests') => News'
    BY <1>1, <1>2, <1>5, <2>1, <2>2, <2>5, NewsStay
  <2>7. QED
    BY <1>1, <1>2, <1>4, <1>5, <1>6, <2>1, <2>2, <2>3, <2>4, <2>6, ServerSteps
<1>8. ASSUME NEW x \in {"unauthorized", "error"}, I!Result(i, x) PROVE SignInInv'
  <2>1. CASE old.heard = TRUE
    BY <1>7, <1>8, <2>1
  <2>2. CASE old.heard = FALSE
    <3>1. requests' = I!Rest(i)
      BY <1>1, <1>8, <2>2 DEF I!Result, I!Answer
    <3>2. QED
      BY <1>1, <1>2, <1>4, <1>5, <1>6, <2>2, <3>1, OrphanServed
  <2>3. QED
    BY <1>2, <2>1, <2>2
<1>9. \/ I!Result(i, "unauthorized") \/ I!Result(i, "error")
      \/ /\ I!Step(i, "checked") /\ old.session \in live
         /\ old.kind = "confirm" => I!Verifies(owner[old.session], old.secret)
  <2>1. CASE old.session \notin live
    BY <1>1, <2>1 DEF I!CheckMfa
  <2>2. CASE old.session \in live /\ old.kind = "setup"
    BY <1>1, <2>2 DEF I!CheckMfa, I!Account
  <2>3. CASE old.session \in live /\ old.kind = "confirm"
    BY <1>1, <2>3 DEF I!CheckMfa, I!Account
  <2>4. CASE old.session \in live /\ old.kind = "disable"
    BY <1>1, <2>4 DEF I!CheckMfa, I!Account
  <2>5. QED
    BY <1>2, <2>1, <2>2, <2>3, <2>4 DEF Dialogs
<1>10. QED
  BY <1>7, <1>8, <1>9

\* It has switched the factor of an account on or off.
LEMMA FactorServed ==
    ASSUME SignInInv, NEW i \in DOMAIN requests, requests[i].kind \in {"confirm", "disable"},
           requests[i].result = "checked", I!Result(i, "ok"),
           UNCHANGED <<owner, live, setups, phone, cookie, screen, awaiting, modal, revived>>,
           missed' = (missed \/ ~requests[i].heard),
           mfa' \in [Accounts -> [enabled : BOOLEAN, secret : 0..MaxSetups]],
           torn' \subseteq Accounts, \A q \in Under(requests) : Vouched(q)', I!SecretIsHeld',
           mfa'[owner[requests[i].session]].enabled = TRUE <=> requests[i].kind = "confirm"
    PROVE  SignInInv'
<1>1. PICK old \in I!CallRecords : old = requests[i] /\ old.heard \in BOOLEAN
  BY RequestFacts
<1>2. Backed(old) /\ Asker(old) /\ (missed # TRUE => Timely(old)) /\ old.session # I!None
  BY <1>1, RequestFacts DEF Backed
<1>3. /\ owner \in Seq(Accounts) /\ live \subseteq DOMAIN owner /\ Len(owner) <= MaxSessions
      /\ setups \in 0..MaxSetups /\ requests \in Seq(I!CallRecords) /\ missed \in BOOLEAN
      /\ \A q \in Under(requests) : q \in I!CallRecords
  BY SignInTypes DEF SignInInv
<1>4. CASE old.heard = FALSE
  <2>1. requests' = I!Rest(i) /\ missed' = TRUE
    BY <1>1, <1>4 DEF I!Result, I!Answer
  <2>2. missed' \in BOOLEAN /\ setups' \in 0..MaxSetups
    BY <1>3, <2>1
  <2>3. QED
    BY <1>1, <1>4, <2>1, <2>2, OrphanServed
<1>5. CASE old.heard = TRUE
  <2>1. PICK r \in I!CallRecords : requests' = [requests EXCEPT ![i] = r] /\ Became(r, old, "ok")
    BY <1>1, <1>5, ResultGiven
  <2>2. /\ r.kind = old.kind /\ r.here = old.here /\ r.result = "ok" /\ r.heard = TRUE
        /\ r.account = old.account /\ r.session = old.session /\ r.secret = old.secret
    BY <1>5, <2>1 DEF Became
  <2>3. Backed(r)' /\ Vouched(r)'
    BY <1>1, <1>2, <2>2 DEF Backed, Vouched, Logins
  <2>4. missed' = missed
    BY <1>1, <1>3, <1>5
  <2>5. ASSUME missed # TRUE, ~Late(requests') PROVE News'
    <3>1. /\ r \in Under(requests') /\ \A q \in Under(requests') : q \in Under(requests) \/ q = r
          /\ Asks(r) => \A q \in Under(requests') : q = r \/ ~Asks(q)
      BY <1>1, <1>3, <2>1, <2>2, RequestFacts, RequestServed DEF SignInInv, SignInDialogs
    <3>2. Changed(r)
      BY <1>1, <2>2 DEF Changed
    <3>3. r.here = TRUE /\ Asks(r)
      BY <1>1, <2>2, <2>5, <3>1, <3>2 DEF Late, Asks
    <3>4. ~Settled(requests')
      BY <3>1, <3>2, <3>3 DEF Settled
    <3>5. owner[old.session] = screen.name /\ r.account = screen.name /\ I!Shown
      BY <1>1, <1>2, <2>2, <2>5, <3>3 DEF Timely, Dialogs, Asker, SignInInv, SignInDialogs
    <3>6. Enabled(screen.name)' <=> old.kind = "confirm"
      BY <1>1, <3>5 DEF Enabled
    <3>7. ASSUME NEW q \in Under(requests') PROVE Told(q)'
      <4>1. CASE q = r
        BY <1>1, <2>2, <3>6, <4>1 DEF Told
      <4>2. CASE q # r /\ q \in Under(requests)
        <5>1. ~Asks(q) /\ Timely(q) /\ Asker(q) /\ q \in I!CallRecords
          BY <1>3, <2>5, <3>1, <3>3, <3>7, <4>2 DEF SignInInv, SignInNews, SignInDialogs
        <5>2. q.kind \notin Logins
          BY <3>5, <5>1 DEF Timely, Asker
        <5>3. QED
          BY <5>1, <5>2 DEF Told, Asks, Logins
      <4>3. QED
        BY <3>1, <3>7, <4>1, <4>2
    <3>8. (modal.codes = TRUE => Enabled(screen.name))'
      <4>1. CASE old.kind = "confirm"
        BY <3>6, <4>1
      <4>2. CASE old.kind = "disable"
        <5>1. modal.kind = "disable"
          BY <1>2, <2>2, <3>3, <4>2 DEF Asker
        <5>2. ~(modal.codes = TRUE)
          BY <5>1 DEF SignInInv, SignInDialogs
        <5>3. QED
          BY <5>2
      <4>3. QED
        BY <1>1, <4>1, <4>2
    <3>9. QED
      BY <3>4, <3>7, <3>8 DEF News
  <2>6. /\ owner' \in Seq(Accounts) /\ live' \subseteq DOMAIN owner' /\ Len(owner') <= MaxSessions
        /\ \A s \in DOMAIN owner : s \in DOMAIN owner' /\ owner'[s] = owner[s]
        /\ setups' \in 0..MaxSetups
    BY <1>3
  <2>7. QED
    BY <1>1, <2>1, <2>2, <2>3, <2>4, <2>5, <2>6, ServerSteps
<1>6. QED
  BY <1>1, <1>4, <1>5

\* The request of a dialog that the server writes.
LEMMA WrittenFor ==
    ASSUME SignInInv, NEW i \in DOMAIN requests, requests[i].result = "checked",
           requests[i].kind \in Dialogs
    PROVE  /\ I!Account(i) = owner[requests[i].session] /\ I!Account(i) \in Accounts
           /\ requests[i].session # I!None
           /\ mfa \in [Accounts -> [enabled : BOOLEAN, secret : 0..MaxSetups]]
           /\ phone \in [Accounts -> SUBSET (1..MaxSetups)] /\ torn \subseteq Accounts
           /\ setups \in 0..MaxSetups /\ MaxSetups \in Nat /\ missed \in BOOLEAN
           /\ \A q \in Under(requests) : q.kind = "confirm" /\ q.result = "checked" =>
                /\ owner[q.session] \in Accounts /\ Vouched(q)
                /\ I!Confirming(owner[q.session])
<1>1. /\ \A s \in DOMAIN owner : owner[s] \in Accounts /\ s # I!None
      /\ DOMAIN requests = 1..Len(requests)
      /\ mfa \in [Accounts -> [enabled : BOOLEAN, secret : 0..MaxSetups]]
      /\ phone \in [Accounts -> SUBSET (1..MaxSetups)] /\ torn \subseteq Accounts
      /\ setups \in 0..MaxSetups /\ MaxSetups \in Nat /\ missed \in BOOLEAN
  BY SignInTypes DEF SignInInv
<1>2. Backed(requests[i])
  BY RequestFacts
<1>3. requests[i].session # I!None /\ requests[i].session \in DOMAIN owner
  BY <1>2 DEF Backed, Dialogs
<1>4. ASSUME NEW q \in Under(requests), q.kind = "confirm", q.result = "checked"
      PROVE  owner[q.session] \in Accounts /\ Vouched(q) /\ I!Confirming(owner[q.session])
  <2>1. Backed(q) /\ Vouched(q)
    BY <1>4 DEF SignInInv, SignInSound
  <2>2. owner[q.session] \in Accounts
    BY <1>1, <1>4, <2>1 DEF Backed
  <2>3. PICK j \in DOMAIN requests : q = requests[j]
    BY <1>1, <1>4 DEF Under
  <2>4. I!Confirming(owner[q.session])
    BY <1>4, <2>3 DEF I!Confirming, I!Account
  <2>5. QED
    BY <2>1, <2>2, <2>4
<1>5. QED
  BY <1>1, <1>3, <1>4 DEF I!Account

\* The server writes a new secret.
LEMMA SignInWritesSetup ==
    ASSUME SignInInv, NEW i \in DOMAIN requests, I!WriteSetup(i)
    PROVE  SignInInv'
<1>1. PICK old \in I!CallRecords : old = requests[i] /\ old.heard \in BOOLEAN
  BY RequestFacts
<1>2. /\ old.kind = "setup" /\ old.result = "checked" /\ Backed(old)
      /\ UNCHANGED <<owner, live, phone, cookie, screen, awaiting, modal, revived, missed>>
  BY <1>1, RequestFacts DEF I!WriteSetup, I!Screen
<1>3. PICK a \in Accounts : a = I!Account(i) /\ a = owner[old.session] /\ old.session # I!None
  BY <1>1, <1>2, WrittenFor DEF Dialogs
<1>4. /\ mfa \in [Accounts -> [enabled : BOOLEAN, secret : 0..MaxSetups]]
      /\ torn \subseteq Accounts /\ setups \in 0..MaxSetups /\ MaxSetups \in Nat /\ missed \in BOOLEAN
      /\ \A q \in Under(requests) : q.kind = "confirm" /\ q.result = "checked" =>
           owner[q.session] \in Accounts /\ Vouched(q) /\ I!Confirming(owner[q.session])
  BY <1>1, <1>2, WrittenFor DEF Dialogs
<1>5. PICK n \in 0..MaxSetups : n = setups + 1 /\ n # 0
  BY <1>4 DEF I!WriteSetup
<1>6. /\ setups' = n /\ mfa' = [mfa EXCEPT ![a].secret = n] /\ I!Answer(i, "ok", n)
      /\ torn' = IF mfa[a].enabled \/ I!Confirming(a) THEN torn \cup {a} ELSE torn
  BY <1>3, <1>5 DEF I!WriteSetup
<1>7. /\ mfa' \in [Accounts -> [enabled : BOOLEAN, secret : 0..MaxSetups]]
      /\ mfa'[a].enabled = mfa[a].enabled /\ \A c \in Accounts : c # a => mfa'[c] = mfa[c]
  BY <1>4, <1>6
<1>8. torn \subseteq torn' /\ torn' \subseteq Accounts
  BY <1>4, <1>6
<1>9. I!SecretIsHeld'
  <2> SUFFICES ASSUME NEW c \in Accounts, c \notin torn', mfa'[c].enabled
               PROVE  mfa'[c].secret \in phone'[c]
    BY DEF I!SecretIsHeld
  <2>1. c # a
    BY <1>6, <1>7
  <2>2. QED
    BY <1>2, <1>7, <1>8, <2>1 DEF SignInInv, SignInSound, I!SecretIsHeld
<1>10. ASSUME NEW q \in Under(requests) PROVE Vouched(q)'
  <2> SUFFICES ASSUME q.kind = "confirm", q.result = "checked", owner[q.session] \notin torn'
               PROVE  mfa'[owner[q.session]].secret \in phone[owner[q.session]]
    BY <1>2 DEF Vouched
  <2>1. owner[q.session] # a
    BY <1>4, <1>6, <1>10
  <2>2. QED
    BY <1>4, <1>7, <1>8, <1>10, <2>1 DEF Vouched
<1>11. \A c \in Accounts : Enabled(c)' <=> Enabled(c)
  BY <1>7 DEF Enabled
<1>12. CASE old.heard = FALSE
  <2>1. requests' = I!Rest(i)
    BY <1>1, <1>6, <1>12 DEF I!Answer
  <2>2. missed' \in BOOLEAN /\ setups' \in 0..MaxSetups
    BY <1>2, <1>4, <1>6
  <2>3. QED
    BY <1>1, <1>2, <1>7, <1>8, <1>9, <1>10, <1>11, <1>12, <2>1, <2>2, OrphanServed
<1>13. CASE old.heard = TRUE
  <2>1. PICK r : r = [old EXCEPT !.result = "ok", !.secret = n]
    OBVIOUS
  <2>2. /\ r \in I!CallRecords /\ r.kind = old.kind /\ r.here = old.here /\ r.result = "ok"
        /\ r.account = old.account /\ r.session = old.session /\ r.secret = n /\ r.heard = TRUE
    BY <1>13, <2>1 DEF I!CallRecords
  <2>3. requests' = [requests EXCEPT ![i] = r]
    BY <1>1, <1>6, <1>13, <2>1, SignInTypes DEF I!Answer, SignInInv
  <2>4. Backed(r)' /\ Vouched(r)'
    BY <1>2, <1>3, <1>5, <2>2 DEF Backed, Vouched, Logins, I!None
  <2>5. Told(r)' /\ ~Changed(r)
    BY <1>2, <2>2 DEF Told, Changed
  <2>6. missed # TRUE /\ ~Late(requests') => News'
    BY <1>1, <1>2, <1>11, <2>2, <2>3, <2>5, NewsStay
  <2>7. /\ owner' \in Seq(Accounts) /\ live' \subseteq DOMAIN owner' /\ Len(owner') <= MaxSessions
        /\ \A s \in DOMAIN owner : s \in DOMAIN owner' /\ owner'[s] = owner[s]
        /\ setups' \in 0..MaxSetups
    BY <1>2, <1>5, <1>6, SignInTypes DEF SignInInv
  <2>8. QED
    BY <1>1, <1>2, <1>7, <1>8, <1>9, <1>10, <2>2, <2>3, <2>4, <2>6, <2>7, ServerSteps
<1>14. QED
  BY <1>1, <1>12, <1>13

\* The server switches the factor on.
LEMMA SignInWritesConfirm ==
    ASSUME SignInInv, NEW i \in DOMAIN requests, I!WriteConfirm(i)
    PROVE  SignInInv'
<1>1. PICK old \in I!CallRecords : old = requests[i] /\ old \in Under(requests)
  BY RequestFacts
<1>2. /\ old.kind = "confirm" /\ old.result = "checked" /\ I!Result(i, "ok")
      /\ UNCHANGED <<owner, live, setups, torn, phone, cookie, screen, awaiting, modal, revived>>
      /\ missed' = (missed \/ ~requests[i].heard)
  BY <1>1 DEF I!WriteConfirm
<1>3. PICK a \in Accounts : a = I!Account(i) /\ a = owner[old.session]
  BY <1>1, <1>2, WrittenFor DEF Dialogs
<1>4. /\ mfa \in [Accounts -> [enabled : BOOLEAN, secret : 0..MaxSetups]] /\ torn \subseteq Accounts
      /\ \A q \in Under(requests) : q.kind = "confirm" /\ q.result = "checked" =>
           owner[q.session] \in Accounts /\ Vouched(q)
  BY <1>1, <1>2, WrittenFor DEF Dialogs
<1>5. mfa' = [mfa EXCEPT ![a].enabled = TRUE]
  BY <1>3 DEF I!WriteConfirm
<1>6. /\ mfa' \in [Accounts -> [enabled : BOOLEAN, secret : 0..MaxSetups]]
      /\ mfa'[a].enabled = TRUE /\ \A c \in Accounts : c # a => mfa'[c] = mfa[c]
      /\ \A c \in Accounts : mfa'[c].secret = mfa[c].secret
  BY <1>4, <1>5
<1>7. I!SecretIsHeld'
  <2> SUFFICES ASSUME NEW c \in Accounts, c \notin torn, mfa'[c].enabled
               PROVE  mfa[c].secret \in phone[c]
    BY <1>2, <1>6 DEF I!SecretIsHeld
  <2>1. CASE c = a
    BY <1>1, <1>2, <1>3, <1>4, <2>1 DEF Vouched
  <2>2. CASE c # a
    BY <1>6, <2>2 DEF SignInInv, SignInSound, I!SecretIsHeld
  <2>3. QED
    BY <2>1, <2>2
<1>8. \A q \in Under(requests) : Vouched(q)'
  BY <1>2, <1>4, <1>6 DEF Vouched
<1>10. mfa'[owner[requests[i].session]].enabled = TRUE <=> requests[i].kind = "confirm"
  BY <1>1, <1>2, <1>3, <1>6
<1>11. torn' \subseteq Accounts
  BY <1>2, <1>4
<1>12. QED
  BY <1>1, <1>2, <1>6, <1>7, <1>8, <1>10, <1>11, FactorServed

\* The server switches the factor off.
LEMMA SignInWritesDisable ==
    ASSUME SignInInv, NEW i \in DOMAIN requests, I!WriteDisable(i)
    PROVE  SignInInv'
<1>1. PICK old \in I!CallRecords : old = requests[i] /\ old \in Under(requests)
  BY RequestFacts
<1>2. /\ old.kind = "disable" /\ old.result = "checked" /\ I!Result(i, "ok")
      /\ UNCHANGED <<owner, live, setups, phone, cookie, screen, awaiting, modal, revived>>
      /\ missed' = (missed \/ ~requests[i].heard)
  BY <1>1 DEF I!WriteDisable
<1>3. PICK a \in Accounts : a = I!Account(i) /\ a = owner[old.session]
  BY <1>1, <1>2, WrittenFor DEF Dialogs
<1>4. /\ mfa \in [Accounts -> [enabled : BOOLEAN, secret : 0..MaxSetups]] /\ torn \subseteq Accounts
      /\ MaxSetups \in Nat
      /\ \A q \in Under(requests) : q.kind = "confirm" /\ q.result = "checked" =>
           owner[q.session] \in Accounts /\ Vouched(q) /\ I!Confirming(owner[q.session])
  BY <1>1, <1>2, WrittenFor DEF Dialogs
<1>5. /\ mfa' = [mfa EXCEPT ![a] = [enabled |-> FALSE, secret |-> 0]]
      /\ torn' = IF I!Confirming(a) THEN torn \cup {a} ELSE torn \ {a}
  BY <1>3 DEF I!WriteDisable, I!None
<1>6. /\ mfa' \in [Accounts -> [enabled : BOOLEAN, secret : 0..MaxSetups]]
      /\ mfa'[a].enabled = FALSE /\ \A c \in Accounts : c # a => mfa'[c] = mfa[c]
  <2>1. [enabled |-> FALSE, secret |-> 0] \in [enabled : BOOLEAN, secret : 0..MaxSetups]
    BY <1>4
  <2>2. mfa'[a] = [enabled |-> FALSE, secret |-> 0]
    BY <1>4, <1>5
  <2>3. QED
    BY <1>4, <1>5, <2>1, <2>2
<1>7. torn' \subseteq Accounts /\ \A c \in Accounts : c # a => (c \in torn' <=> c \in torn)
  BY <1>4, <1>5
<1>8. I!SecretIsHeld'
  <2> SUFFICES ASSUME NEW c \in Accounts, c \notin torn', mfa'[c].enabled
               PROVE  mfa'[c].secret \in phone[c]
    BY <1>2 DEF I!SecretIsHeld
  <2>1. c # a
    BY <1>6
  <2>2. QED
    BY <1>6, <1>7, <2>1 DEF SignInInv, SignInSound, I!SecretIsHeld
<1>9. ASSUME NEW q \in Under(requests) PROVE Vouched(q)'
  <2> SUFFICES ASSUME q.kind = "confirm", q.result = "checked", owner[q.session] \notin torn'
               PROVE  mfa'[owner[q.session]].secret \in phone[owner[q.session]]
    BY <1>2 DEF Vouched
  <2>1. owner[q.session] # a
    BY <1>4, <1>5, <1>9
  <2>2. QED
    BY <1>4, <1>6, <1>7, <1>9, <2>1 DEF Vouched
<1>10. mfa'[owner[requests[i].session]].enabled = TRUE <=> requests[i].kind = "confirm"
  BY <1>1, <1>2, <1>3, <1>6
<1>11. QED
  BY <1>1, <1>2, <1>6, <1>7, <1>8, <1>9, <1>10, FactorServed

\* What an answer leaves is sound.
LEMMA AnswerSound ==
    ASSUME SignInInv, NEW i \in DOMAIN requests,
           requests' = I!Rest(i) \/ requests' = I!Gone(I!Rest(i)),
           UNCHANGED <<mfa, owner, live, setups, torn>>,
           phone' \in [Accounts -> SUBSET (1..MaxSetups)],
           \A a \in Accounts : phone[a] \subseteq phone'[a],
           cookie' \in DOMAIN owner \cup {I!None},
           screen' \in [name : Accounts, mfaEnabled : BOOLEAN] \cup {I!NoOne},
           awaiting' \in Accounts \cup {I!Nobody}, modal' \in I!Modals,
           revived' \in BOOLEAN, missed' \in BOOLEAN, I!ScreenIsCookie'
    PROVE  SignInSound'
<1>1. SignInSound /\ requests \in Seq(I!CallRecords) /\ Len(requests) <= MaxRequests /\ AtMostOne(requests)
  BY SignInTypes DEF SignInInv, SignInDialogs
<1>2. /\ requests' \in Seq(I!CallRecords) /\ Len(requests') <= Len(requests)
      /\ \A r \in Under(requests') : \E q \in Under(requests) : Stems(r, q)
  BY <1>1, AnswerTaken
<1>3. Len(requests') <= MaxRequests
  <2>1. Len(requests) \in Nat /\ Len(requests') \in Nat /\ MaxRequests \in Nat
    BY <1>1, <1>2, SignInTypes, LenProperties
  <2>2. QED
    BY <1>1, <1>2, <2>1
<1>4. QED
  BY <1>1, <1>2, <1>3, BrowserSteps

\* An answer, or its loss, changes nothing that is shown.
LEMMA AnswerDropped ==
    ASSUME SignInInv, NEW i \in DOMAIN requests, requests' = I!Rest(i),
           UNCHANGED <<mfa, owner, live, setups, torn, phone, screen, modal>>,
           awaiting' \in Accounts \cup {I!Nobody}, cookie' \in DOMAIN owner \cup {I!None},
           revived' \in BOOLEAN, missed' \in BOOLEAN,
           UNCHANGED <<cookie, revived>> \/ (~I!Shown /\ revived' = FALSE),
           missed' # TRUE => missed # TRUE /\ ~Changed(requests[i])
    PROVE  SignInInv'
<1>1. /\ phone \in [Accounts -> SUBSET (1..MaxSetups)] /\ modal \in I!Modals
      /\ screen \in [name : Accounts, mfaEnabled : BOOLEAN] \cup {I!NoOne}
      /\ requests \in Seq(I!CallRecords) /\ AtMostOne(requests)
  BY SignInTypes DEF SignInInv, SignInDialogs
<1>2. /\ \A r \in Under(requests') : r \in Under(requests)
      /\ AtMostOne(requests')
      /\ ~Late(requests') /\ ~Changed(requests[i]) => ~Late(requests)
      /\ ~Late(requests') /\ Settled(requests') /\ ~Changed(requests[i]) => Settled(requests)
  BY <1>1, AnswerTaken
<1>3. SignInSound'
  <2>1. I!ScreenIsCookie'
    <3>1. CASE UNCHANGED <<cookie, revived>>
      BY <3>1 DEF SignInInv, SignInSound, I!ScreenIsCookie, I!Shown, I!Me
    <3>2. CASE ~I!Shown
      BY <3>2 DEF I!ScreenIsCookie, I!Shown
    <3>3. QED
      BY <3>1, <3>2
  <2>2. /\ phone' \in [Accounts -> SUBSET (1..MaxSetups)] /\ modal' \in I!Modals
        /\ screen' \in [name : Accounts, mfaEnabled : BOOLEAN] \cup {I!NoOne}
        /\ \A a \in Accounts : phone[a] \subseteq phone'[a]
    BY <1>1
  <2>3. QED
    BY <2>1, <2>2, AnswerSound
<1>4. SignInDialogs'
  BY <1>2 DEF SignInInv, SignInDialogs, Asker, I!Shown
<1>5. ASSUME missed' # TRUE PROVE revived' # TRUE /\ \A r \in Under(requests') : Timely(r)'
  BY <1>2, <1>5 DEF SignInInv, SignInNews, Timely
<1>6. ASSUME missed' # TRUE, ~Late(requests') PROVE News'
  <2>1. News /\ (Settled(requests') => Settled(requests))
    BY <1>2, <1>6 DEF SignInInv, SignInNews
  <2>2. \A r \in Under(requests') : Told(r)'
    BY <1>2, <2>1 DEF News, Told, Enabled
  <2>3. QED
    BY <2>1, <2>2 DEF News, Enabled, I!Shown
<1>7. SignInNews'
  BY <1>5, <1>6 DEF SignInNews
<1>8. QED
  BY <1>3, <1>4, <1>7 DEF SignInInv

\* Nobody waits for the answer any more, and the server is at it still.
LEMMA AnswerMissed ==
    ASSUME SignInInv, NEW i \in DOMAIN requests,
           requests[i].kind \in Dialogs, requests[i].result \in {"none", "checked"},
           requests' = [requests EXCEPT ![i] = I!Unheard(requests[i])],
           UNCHANGED <<mfa, owner, live, setups, torn, phone, cookie, screen, awaiting, modal>>,
           UNCHANGED <<revived, missed>>
    PROVE  SignInInv'
<1>1. /\ phone \in [Accounts -> SUBSET (1..MaxSetups)] /\ modal \in I!Modals
      /\ screen \in [name : Accounts, mfaEnabled : BOOLEAN] \cup {I!NoOne}
      /\ cookie \in DOMAIN owner \cup {I!None} /\ awaiting \in Accounts \cup {I!Nobody}
      /\ revived \in BOOLEAN /\ missed \in BOOLEAN
      /\ requests \in Seq(I!CallRecords) /\ Len(requests) <= MaxRequests
  BY SignInTypes DEF SignInInv
<1>2. PICK old \in I!CallRecords : old = requests[i] /\ Backed(old)
  BY RequestFacts
<1>3. PICK r : r = I!Unheard(old)
  OBVIOUS
<1>4. /\ r \in I!CallRecords /\ r.kind = old.kind /\ r.account = old.account
      /\ r.session = old.session /\ r.secret = old.secret /\ r.result = old.result
      /\ r.here = FALSE /\ r.heard = FALSE
  BY <1>3 DEF I!Unheard, I!CallRecords
<1>5. Backed(r) /\ Vouched(r)
  <2>1. Backed(r)
    BY <1>2, <1>4 DEF Backed
  <2>2. Vouched(old)
    BY <1>2, RequestFacts DEF SignInInv, SignInSound
  <2>3. QED
    BY <1>4, <2>1, <2>2 DEF Vouched
<1>6. /\ requests' \in Seq(I!CallRecords) /\ Len(requests') = Len(requests)
      /\ \A q \in Under(requests') : q \in Under(requests) \/ q = r
      /\ \A q \in Under(requests) : q \in Under(requests') \/ q = old
      /\ AtMostOne(requests')
  BY <1>1, <1>2, <1>3, <1>4, RequestFacts, RequestServed DEF SignInInv, SignInDialogs
<1>7. SignInSound'
  <2>1. I!ScreenIsCookie'
    BY DEF SignInInv, SignInSound, I!ScreenIsCookie, I!Shown, I!Me
  <2>2. \A q \in Under(requests) : Stems(q, q)
    BY DEF Stems
  <2>3. \A q \in Under(requests') :
          (Backed(q) /\ Vouched(q)) \/ \E p \in Under(requests) : Stems(q, p)
    BY <1>5, <1>6, <2>2
  <2>4. /\ phone' \in [Accounts -> SUBSET (1..MaxSetups)] /\ modal' \in I!Modals
        /\ screen' \in [name : Accounts, mfaEnabled : BOOLEAN] \cup {I!NoOne}
        /\ cookie' \in DOMAIN owner \cup {I!None} /\ awaiting' \in Accounts \cup {I!Nobody}
        /\ revived' \in BOOLEAN /\ missed' \in BOOLEAN /\ Len(requests') <= MaxRequests
        /\ \A a \in Accounts : phone[a] \subseteq phone'[a]
    BY <1>1, <1>6
  <2>5. SignInSound
    BY DEF SignInInv
  <2>6. QED
    BY <1>6, <2>1, <2>3, <2>4, <2>5, BrowserSteps
<1>8. SignInDialogs'
  <2>1. \A q \in Under(requests') : Asker(q)'
    BY <1>4, <1>6 DEF SignInInv, SignInDialogs, Asker, I!Shown
  <2>2. QED
    BY <1>6, <2>1 DEF SignInInv, SignInDialogs, I!Shown
<1>9. ASSUME missed # TRUE PROVE revived' # TRUE /\ \A q \in Under(requests') : Timely(q)'
  <2>1. Timely(r)'
    BY <1>2, <1>4 DEF Timely, Logins, Dialogs
  <2>2. QED
    BY <1>6, <1>9, <2>1 DEF SignInInv, SignInNews, Timely
<1>10. ASSUME missed # TRUE, ~Late(requests') PROVE News'
  <2>1. ~Late(requests) /\ (Settled(requests') => Settled(requests))
    BY <1>2, <1>6, <1>10 DEF Late, Settled, Changed
  <2>2. News
    BY <1>10, <2>1 DEF SignInInv, SignInNews
  <2>3. Told(r)'
    BY <1>2, <1>4 DEF Told, Dialogs
  <2>4. \A q \in Under(requests) : Told(q)'
    BY <2>2 DEF News, Told, Enabled
  <2>5. QED
    BY <1>6, <2>1, <2>2, <2>3, <2>4 DEF News, Enabled, I!Shown
<1>11. SignInNews'
  BY <1>9, <1>10 DEF SignInNews
<1>12. QED
  BY <1>7, <1>8, <1>11 DEF SignInInv

\* An answer puts the login screen in place of the menu.
LEMMA ScreenLeft ==
    ASSUME SignInInv, NEW i \in DOMAIN requests, requests' = I!Gone(I!Rest(i)), I!Shown,
           UNCHANGED <<mfa, owner, live, setups, torn, phone, missed>>,
           screen' = I!NoOne, modal' = I!NoModal, awaiting' = I!Nobody, revived' = FALSE,
           cookie' \in DOMAIN owner \cup {I!None}, ~Changed(requests[i])
    PROVE  SignInInv'
<1>1. /\ phone \in [Accounts -> SUBSET (1..MaxSetups)] /\ missed \in BOOLEAN
      /\ requests \in Seq(I!CallRecords) /\ AtMostOne(requests) /\ MaxSetups \in Nat
  BY SignInTypes DEF SignInInv, SignInDialogs
<1>2. /\ \A r \in Under(requests') : r.here = FALSE /\ \E q \in Under(requests) : Stems(r, q)
      /\ AtMostOne(requests')
  BY <1>1, AnswerTaken
<1>3. modal' \in I!Modals /\ modal'.kind = "none" /\ modal'.codes = FALSE /\ ~I!Shown'
  BY <1>1 DEF I!NoModal, I!Modals, I!None, I!Shown
<1>4. SignInSound'
  <2>1. I!ScreenIsCookie'
    BY <1>3 DEF I!ScreenIsCookie
  <2>2. \A a \in Accounts : phone[a] \subseteq phone'[a]
    OBVIOUS
  <2>3. /\ phone' \in [Accounts -> SUBSET (1..MaxSetups)] /\ missed' \in BOOLEAN /\ revived' \in BOOLEAN
    BY <1>1
  <2>4. QED
    BY <1>3, <2>1, <2>2, <2>3, AnswerSound
<1>5. SignInDialogs'
  BY <1>2, <1>3 DEF SignInDialogs, Asker
<1>6. ASSUME missed' # TRUE, NEW r \in Under(requests') PROVE r.kind \notin Logins /\ Timely(r)' /\ Told(r)'
  <2>1. PICK q \in Under(requests) : Stems(r, q)
    BY <1>2, <1>6
  <2>2. Timely(q) /\ Asker(q)
    BY <1>6 DEF SignInInv, SignInNews, SignInDialogs
  <2>3. r.kind \notin Logins /\ r.here = FALSE
    BY <1>2, <1>6, <2>1, <2>2 DEF Timely, Asker, Stems
  <2>4. QED
    BY <2>3 DEF Timely, Told, Logins
<1>7. SignInNews'
  <2>1. missed' # TRUE => News'
    BY <1>3, <1>6 DEF News
  <2>2. QED
    BY <1>6, <2>1 DEF SignInNews
<1>8. QED
  BY <1>4, <1>5, <1>7 DEF SignInInv

\* An answer logs in.
LEMMA SignInEnters == ASSUME SignInInv, NEW i \in DOMAIN requests, I!LoggedIn(i) PROVE SignInInv'
<1>1. PICK r \in I!CallRecords : r = requests[i]
  BY RequestFacts
<1>2. /\ r.kind \in Logins /\ r.result = "ok" /\ Backed(r) /\ Asker(r) /\ r \in Under(requests)
      /\ missed # TRUE => Timely(r)
      /\ UNCHANGED <<mfa, owner, live, setups, torn, phone, missed>> /\ cookie' = r.session /\ revived' = FALSE
      /\ I!SetAuthUser([name |-> r.account, mfaEnabled |-> r.kind = "code"], I!Rest(i))
  BY <1>1, RequestFacts DEF I!LoggedIn, Logins, I!serverVars
<1>3. r.account \in Accounts /\ r.session # I!None /\ r.session \in DOMAIN owner /\ owner[r.session] = r.account
  BY <1>2 DEF Backed, Logins
<1>4. PICK b \in BOOLEAN : (b = TRUE <=> r.kind = "code") /\ screen' = [name |-> r.account, mfaEnabled |-> b]
  BY <1>2 DEF I!SetAuthUser
<1>5. /\ screen'.name = r.account /\ screen'.mfaEnabled = b
      /\ screen' \in [name : Accounts, mfaEnabled : BOOLEAN]
  BY <1>3, <1>4
<1>6. /\ phone \in [Accounts -> SUBSET (1..MaxSetups)] /\ missed \in BOOLEAN /\ MaxSetups \in Nat
      /\ modal \in I!Modals /\ awaiting \in Accounts \cup {I!Nobody}
      /\ requests \in Seq(I!CallRecords) /\ AtMostOne(requests) /\ I!Nobody \notin Accounts
  BY SignInTypes DEF SignInInv, SignInDialogs
<1>7. I!NoModal \in I!Modals /\ I!NoModal.kind = "none" /\ I!NoModal.codes = FALSE
  BY <1>6 DEF I!NoModal, I!Modals, I!None
<1>8. I!Shown' /\ screen' # I!NoOne
  BY <1>3, <1>5, <1>6 DEF I!Shown, I!NoOne
<1>9. /\ I!Shown => requests' = I!Rest(i) /\ UNCHANGED <<awaiting, modal>>
      /\ ~I!Shown => requests' = I!Gone(I!Rest(i)) /\ awaiting' = I!Nobody /\ modal' = I!NoModal
  <2>1. [name |-> r.account, mfaEnabled |-> r.kind = "code"] = screen'
    BY <1>2 DEF I!SetAuthUser
  <2>2. QED
    BY <1>2, <1>8, <2>1 DEF I!SetAuthUser
<1>10. /\ \A q \in Under(requests') : \E p \in Under(requests) :
            Stems(q, p) /\ (requests' = I!Rest(i) => p = q)
       /\ ~I!Shown => \A q \in Under(requests') : q.here = FALSE
       /\ AtMostOne(requests')
       /\ Asks(r) => \A q \in Under(requests') : ~Asks(q)
       /\ ~Late(requests') => ~Late(requests)
  BY <1>1, <1>2, <1>6, <1>9, AnswerTaken DEF Changed, Logins
<1>11. SignInSound'
  <2>1. I!ScreenIsCookie'
    BY <1>2, <1>3, <1>5 DEF I!ScreenIsCookie, I!Me
  <2>2. /\ phone' \in [Accounts -> SUBSET (1..MaxSetups)] /\ missed' \in BOOLEAN /\ revived' \in BOOLEAN
        /\ \A a \in Accounts : phone[a] \subseteq phone'[a]
    BY <1>2, <1>6
  <2>3. modal' \in I!Modals /\ awaiting' \in Accounts \cup {I!Nobody}
    BY <1>6, <1>7, <1>9
  <2>4. requests' = I!Rest(i) \/ requests' = I!Gone(I!Rest(i))
    BY <1>9
  <2>5. cookie' \in DOMAIN owner \cup {I!None} /\ UNCHANGED <<mfa, owner, live, setups, torn>>
    BY <1>2, <1>3
  <2>6. QED
    BY <1>5, <2>1, <2>2, <2>3, <2>4, <2>5, AnswerSound
<1>12. SignInDialogs'
  <2>1. CASE I!Shown
    <3>1. \A q \in Under(requests') : q \in Under(requests) /\ Asker(q)
      BY <1>9, <1>10, <2>1 DEF SignInInv, SignInDialogs
    <3>2. \A q \in Under(requests') : q.here = TRUE => q.kind \notin Logins
      BY <2>1, <3>1 DEF Asker
    <3>3. \A q \in Under(requests') : Asker(q)'
      BY <1>9, <2>1, <3>1, <3>2 DEF Asker
    <3>4. QED
      BY <1>8, <1>9, <1>10, <2>1, <3>3 DEF SignInInv, SignInDialogs
  <2>2. CASE ~I!Shown
    BY <1>7, <1>9, <1>10, <2>2 DEF SignInDialogs, Asker
  <2>3. QED
    BY <2>1, <2>2
<1>13. ASSUME missed # TRUE
       PROVE  /\ ~I!Shown /\ \A q \in Under(requests') : q.here = FALSE /\ q.kind \notin Logins
              /\ \A q \in Under(requests) : q.kind \in Logins => Asks(q)
  <2>1. r.here = TRUE /\ ~I!Shown /\ Asks(r)
    BY <1>2, <1>13 DEF Timely, Asker, Asks, Logins
  <2>2. \A q \in Under(requests) : q.kind \in Logins => Asks(q)
    BY <1>13 DEF SignInInv, SignInNews, Timely, Asks, Logins
  <2>3. requests' = I!Gone(I!Rest(i))
    BY <1>9, <2>1
  <2>4. DOMAIN requests = 1..Len(requests) /\ I!Rest(i) = Without(requests, i)
    BY <1>6, LenProperties DEF I!Rest, Without
  <2>5. /\ Without(requests, i) \in Seq(I!CallRecords)
        /\ Under(Without(requests, i)) \subseteq Under(requests)
        /\ \A q \in Under(Without(requests, i)) : ~Asks(q)
    BY <1>1, <1>6, <2>1, <2>4, RequestEnds
  <2>6. \A q \in Under(requests') : \E p \in Under(Without(requests, i)) : q.kind = p.kind
    <3>1. \A q \in Under(requests') : \E p \in Under(Without(requests, i)) :
            p \in I!CallRecords /\ q = Away(p)
      BY <2>3, <2>4, <2>5, RequestsGone
    <3>2. \A p \in I!CallRecords : Away(p).kind = p.kind
      BY DEF I!CallRecords, Away
    <3>3. QED
      BY <3>1, <3>2
  <2>7. \A q \in Under(requests') : q.kind \notin Logins
    BY <2>2, <2>5, <2>6
  <2>8. QED
    BY <1>10, <2>1, <2>2, <2>7
<1>14. ASSUME missed # TRUE, ~Late(requests') PROVE News'
  <2>1. News /\ Told(r)
    BY <1>2, <1>10, <1>14 DEF SignInInv, SignInNews, News
  <2>2. screen'.mfaEnabled = TRUE <=> Enabled(r.account)
    BY <1>2, <1>4, <1>5, <2>1 DEF Told, Logins
  <2>3. screen'.mfaEnabled = TRUE <=> Enabled(screen.name)'
    BY <1>2, <1>5, <2>2 DEF Enabled
  <2>4. \A q \in Under(requests') : Told(q)'
    BY <1>13, <1>14 DEF Told, Logins
  <2>5. ~(modal'.codes = TRUE)
    BY <1>7, <1>9, <1>13, <1>14
  <2>6. QED
    BY <2>3, <2>4, <2>5 DEF News
<1>15. SignInNews'
  <2>1. missed # TRUE => \A q \in Under(requests') : Timely(q)'
    BY <1>13 DEF Timely
  <2>2. QED
    BY <1>2, <1>14, <2>1 DEF SignInNews
<1>16. QED
  BY <1>11, <1>12, <1>15 DEF SignInInv

\* The dialog that asked has an answer; the request was the only one asked for.
LEMMA DialogAnswers ==
    ASSUME SignInInv, NEW i \in DOMAIN requests, requests' = I!Rest(i),
           requests[i].here = TRUE, requests[i].kind \in Dialogs,
           UNCHANGED <<mfa, owner, live, setups, torn, cookie, awaiting>>,
           phone' \in [Accounts -> SUBSET (1..MaxSetups)],
           \A a \in Accounts : phone[a] \subseteq phone'[a],
           screen' \in [name : Accounts, mfaEnabled : BOOLEAN],
           modal' \in I!Modals, missed' = missed,
           revived' \in BOOLEAN, missed # TRUE => revived' = revived, I!ScreenIsCookie',
           modal'.kind = "none" => modal' = I!NoModal,
           modal'.codes = TRUE => modal'.kind = "setup" /\ modal'.secret # I!None,
           missed # TRUE /\ ~Late(requests) /\ News =>
             /\ modal'.codes = TRUE => Enabled(screen.name)'
             /\ ~(modal'.codes = TRUE) /\ ((~Changed(requests[i]) /\ Settled(requests)) \/ modal' = I!NoModal) =>
                  (screen'.mfaEnabled = TRUE <=> Enabled(screen.name)'),
           Changed(requests[i]) => modal'.codes = TRUE \/ modal' = I!NoModal
    PROVE  SignInInv'
<1>1. /\ requests \in Seq(I!CallRecords) /\ AtMostOne(requests) /\ missed \in BOOLEAN
      /\ cookie \in DOMAIN owner \cup {I!None} /\ awaiting \in Accounts \cup {I!Nobody}
      /\ I!Nobody \notin Accounts
  BY SignInTypes DEF SignInInv, SignInDialogs
<1>2. PICK r \in Under(requests) : r = requests[i]
  BY RequestFacts
<1>3. Asks(r) /\ ~(Changed(r) /\ r.here = FALSE)
  BY <1>2 DEF Asks, Dialogs
<1>4. /\ \A q \in Under(requests') : q \in Under(requests) /\ ~Asks(q)
      /\ AtMostOne(requests')
      /\ ~Late(requests') => ~Late(requests)
      /\ ~Late(requests') /\ Settled(requests') /\ ~Changed(r) => Settled(requests)
  BY <1>1, <1>2, <1>3, AnswerTaken
<1>5. I!Shown'
  BY <1>1 DEF I!Shown, I!NoOne
<1>6. SignInSound'
  <2>1. /\ missed' \in BOOLEAN /\ cookie' \in DOMAIN owner \cup {I!None}
        /\ awaiting' \in Accounts \cup {I!Nobody}
    BY <1>1
  <2>2. QED
    BY <2>1, AnswerSound
<1>7. SignInDialogs'
  <2>1. \A q \in Under(requests') : Asker(q)'
    BY <1>4 DEF Asker, Asks, Logins
  <2>2. QED
    BY <1>4, <1>5, <2>1 DEF SignInDialogs
<1>8. ASSUME missed # TRUE, NEW q \in Under(requests')
      PROVE  q.kind \notin Logins /\ Timely(q)' /\ ~(q.here = TRUE /\ q.kind \in Dialogs)
  <2>1. Timely(q) /\ ~Asks(q)
    BY <1>4, <1>8 DEF SignInInv, SignInNews
  <2>2. q.kind \notin Logins /\ ~(q.here = TRUE /\ q.kind \in Dialogs)
    BY <2>1 DEF Timely, Asks, Logins, Dialogs
  <2>3. QED
    BY <2>2 DEF Timely
<1>9. ASSUME missed # TRUE, ~Late(requests') PROVE News'
  <2>1. ~Late(requests) /\ News
    BY <1>4, <1>9 DEF SignInInv, SignInNews
  <2>2. \A q \in Under(requests') : Told(q)'
    BY <1>8, <1>9 DEF Told, Logins, Dialogs
  <2>3. Settled(requests') /\ ~(modal'.codes = TRUE) =>
          (~Changed(r) /\ Settled(requests)) \/ modal' = I!NoModal
    BY <1>2, <1>4, <1>9
  <2>4. QED
    BY <1>2, <1>9, <2>1, <2>2, <2>3 DEF News
<1>10. SignInNews'
  BY <1>8, <1>9 DEF SignInInv, SignInNews
<1>11. QED
  BY <1>6, <1>7, <1>10 DEF SignInInv

\* An answer to a dialog, and its loss.
LEMMA SignInAnswered ==
    ASSUME SignInInv, NEW i \in DOMAIN requests,
           \/ I!MfaRequired(i) \/ I!LoggedOut(i) \/ I!SetupAnswers(i) \/ I!ConfirmAnswers(i)
           \/ I!DisableAnswers(i) \/ I!Fails(i) \/ I!Lost(i)
    PROVE  SignInInv'
<1>1. PICK r \in I!CallRecords : r = requests[i] /\ r \in Under(requests)
  BY RequestFacts
<1>2. Backed(r) /\ Asker(r) /\ (missed # TRUE => Timely(r)) /\ r.here \in BOOLEAN
  BY <1>1, RequestFacts DEF I!CallRecords
<1>3. /\ phone \in [Accounts -> SUBSET (1..MaxSetups)] /\ modal \in I!Modals /\ MaxSetups \in Nat
      /\ screen \in [name : Accounts, mfaEnabled : BOOLEAN] \cup {I!NoOne}
      /\ cookie \in DOMAIN owner \cup {I!None} /\ awaiting \in Accounts \cup {I!Nobody}
      /\ revived \in BOOLEAN /\ missed \in BOOLEAN /\ I!Nobody \notin Accounts
      /\ \A s \in DOMAIN owner : owner[s] \in Accounts /\ s # I!None
      /\ requests \in Seq(I!CallRecords) /\ AtMostOne(requests)
  BY SignInTypes DEF SignInInv, SignInDialogs
<1>4. r.account \in Accounts
  BY <1>2 DEF Backed
<1>5. I!NoModal \in I!Modals /\ I!NoModal.kind = "none" /\ I!NoModal.codes = FALSE
  BY <1>3 DEF I!NoModal, I!Modals, I!None
<1>6. ASSUME I!MfaRequired(i) PROVE SignInInv'
  <2>1. /\ requests' = I!Rest(i) /\ awaiting' \in {r.account, awaiting} /\ r.result = "mfa"
        /\ UNCHANGED <<mfa, owner, live, setups, torn, phone, screen, modal, cookie, revived, missed>>
    BY <1>1, <1>6 DEF I!MfaRequired, I!serverVars
  <2>2. ~Changed(requests[i])
    BY <1>1, <2>1 DEF Changed
  <2>3. /\ awaiting' \in Accounts \cup {I!Nobody} /\ cookie' \in DOMAIN owner \cup {I!None}
        /\ revived' \in BOOLEAN /\ missed' \in BOOLEAN
    BY <1>3, <1>4, <2>1
  <2>4. QED
    BY <2>1, <2>2, <2>3, AnswerDropped
<1>7. ASSUME I!SetAuthUser(I!NoOne, I!Rest(i)), revived' = FALSE, ~Changed(r),
             cookie' \in DOMAIN owner \cup {I!None},
             UNCHANGED <<mfa, owner, live, setups, torn, phone, missed>>
      PROVE  SignInInv'
  <2>1. CASE I!Shown
    <3>1. /\ screen' = I!NoOne /\ requests' = I!Gone(I!Rest(i)) /\ awaiting' = I!Nobody
          /\ modal' = I!NoModal
      BY <1>7, <2>1 DEF I!SetAuthUser
    <3>2. QED
      BY <1>1, <1>7, <2>1, <3>1, ScreenLeft
  <2>2. CASE ~I!Shown
    <3>1. screen' = screen /\ requests' = I!Rest(i) /\ awaiting' = awaiting /\ modal' = modal
      BY <1>7, <2>2 DEF I!SetAuthUser, I!Shown
    <3>2. awaiting' \in Accounts \cup {I!Nobody} /\ revived' \in BOOLEAN /\ missed' \in BOOLEAN
      BY <1>3, <1>7, <3>1
    <3>3. missed' # TRUE => missed # TRUE /\ ~Changed(requests[i])
      BY <1>1, <1>7
    <3>4. QED
      BY <1>7, <2>2, <3>1, <3>2, <3>3, AnswerDropped
  <2>3. QED
    BY <2>1, <2>2
<1>8. ASSUME I!LoggedOut(i) PROVE SignInInv'
  <2>1. /\ r.kind = "logout" /\ I!SetAuthUser(I!NoOne, I!Rest(i)) /\ revived' = FALSE
        /\ cookie' \in {I!None, cookie} /\ UNCHANGED <<mfa, owner, live, setups, torn, phone, missed>>
    BY <1>1, <1>8 DEF I!LoggedOut, I!serverVars
  <2>2. ~Changed(r) /\ cookie' \in DOMAIN owner \cup {I!None}
    BY <1>3, <2>1 DEF Changed
  <2>3. QED
    BY <1>7, <2>1, <2>2
<1>9. ASSUME requests' = I!Rest(i),
             UNCHANGED <<mfa, owner, live, setups, torn, phone, cookie, screen, awaiting, modal, revived>>,
             missed' \in BOOLEAN, missed' # TRUE => missed # TRUE /\ ~Changed(r)
      PROVE  SignInInv'
  <2>1. /\ awaiting' \in Accounts \cup {I!Nobody} /\ cookie' \in DOMAIN owner \cup {I!None}
        /\ revived' \in BOOLEAN
    BY <1>3, <1>9
  <2>2. missed' # TRUE => missed # TRUE /\ ~Changed(requests[i])
    BY <1>1, <1>9
  <2>3. QED
    BY <1>9, <2>1, <2>2, AnswerDropped
<1>10. ASSUME I!Fails(i) PROVE SignInInv'
  <2>1. ~Changed(r) /\ UNCHANGED <<mfa, owner, live, setups, torn, phone, cookie, missed>>
    BY <1>1, <1>10 DEF I!Fails, Changed, I!serverVars
  <2>2. CASE r.result = "unauthorized"
    <3>1. I!SetAuthUser(I!NoOne, I!Rest(i)) /\ revived' = FALSE
      BY <1>1, <1>10, <2>2 DEF I!Fails
    <3>2. cookie' \in DOMAIN owner \cup {I!None}
      BY <1>3, <2>1
    <3>3. QED
      BY <1>7, <2>1, <3>1, <3>2
  <2>3. CASE r.result # "unauthorized"
    <3>1. requests' = I!Rest(i) /\ UNCHANGED <<screen, awaiting, modal, revived>>
      BY <1>1, <1>10, <2>3 DEF I!Fails
    <3>2. missed' \in BOOLEAN /\ (missed' # TRUE => missed # TRUE /\ ~Changed(r))
      BY <1>3, <2>1
    <3>3. QED
      BY <1>9, <2>1, <3>1, <3>2
  <2>4. QED
    BY <2>2, <2>3
<1>11. ASSUME I!Lost(i) PROVE SignInInv'
  <2>1. /\ UNCHANGED <<mfa, owner, live, setups, torn, phone, cookie, screen, awaiting, modal, revived>>
        /\ missed' = (missed \/ Changed(r))
        /\ \/ requests' = I!Rest(i)
           \/ /\ r.kind \in Dialogs /\ r.result \in {"none", "checked"}
              /\ requests' = [requests EXCEPT ![i] = I!Unheard(r)]
    BY <1>1, <1>11, SignInTypes DEF I!Lost, I!serverVars, Changed, I!MfaKinds, Dialogs, SignInInv
  <2>2. missed' \in BOOLEAN /\ (missed' # TRUE => missed # TRUE /\ ~Changed(r))
    BY <1>3, <2>1
  <2>3. CASE requests' = I!Rest(i)
    BY <1>9, <2>1, <2>2, <2>3
  <2>4. CASE /\ r.kind \in Dialogs /\ r.result \in {"none", "checked"}
             /\ requests' = [requests EXCEPT ![i] = I!Unheard(r)]
    <3>1. ~Changed(r)
      BY <2>4 DEF Changed
    <3>2. missed' = missed
      BY <1>3, <2>1, <3>1
    <3>3. QED
      BY <1>1, <2>1, <2>4, <3>2, AnswerMissed
  <2>5. QED
    BY <2>1, <2>3, <2>4
<1>12. ASSUME I!SetupAnswers(i) PROVE SignInInv'
  <2>1. /\ r.kind = "setup" /\ r.result = "ok" /\ requests' = I!Rest(i)
        /\ UNCHANGED <<mfa, owner, live, setups, torn, cookie, screen, awaiting, revived, missed>>
        /\ IF r.here
           THEN /\ modal' = [modal EXCEPT !.secret = r.secret]
                /\ phone' = [phone EXCEPT ![owner[r.session]] = @ \cup {r.secret}]
           ELSE UNCHANGED <<modal, phone>>
    BY <1>1, <1>12 DEF I!SetupAnswers, I!serverVars
  <2>2. ~Changed(r) /\ r.kind \in Dialogs
    BY <2>1 DEF Changed, Dialogs
  <2>3. CASE r.here = FALSE
    <3>1. modal' = modal /\ phone' = phone
      BY <2>1, <2>3
    <3>2. missed' \in BOOLEAN /\ (missed' # TRUE => missed # TRUE /\ ~Changed(r))
      BY <1>3, <2>1, <2>2
    <3>3. QED
      BY <1>9, <2>1, <3>1, <3>2
  <2>4. CASE r.here = TRUE
    <3>1. /\ modal' = [modal EXCEPT !.secret = r.secret]
          /\ phone' = [phone EXCEPT ![owner[r.session]] = @ \cup {r.secret}]
      BY <2>1, <2>4
    <3>2. modal.kind = "setup" /\ modal.secret = I!None /\ I!Shown /\ ~(modal.codes = TRUE)
      BY <1>2, <2>1, <2>4 DEF Asker, SignInInv, SignInDialogs
    <3>3. r.secret \in 0..MaxSetups /\ r.secret # I!None /\ owner[r.session] \in Accounts
      BY <1>2, <1>3, <2>1 DEF I!CallRecords, Backed
    <3>4. /\ modal' \in I!Modals /\ modal'.kind = "setup" /\ modal'.codes = modal.codes
      BY <1>3, <3>1, <3>2, <3>3 DEF I!Modals
    <3>5. r.secret \in 1..MaxSetups
      BY <1>3, <3>3 DEF I!None
    <3>6. /\ phone' \in [Accounts -> SUBSET (1..MaxSetups)]
          /\ \A a \in Accounts : phone[a] \subseteq phone'[a]
      BY <1>3, <3>1, <3>3, <3>5
    <3>7. screen' \in [name : Accounts, mfaEnabled : BOOLEAN] /\ revived' \in BOOLEAN
      BY <1>3, <2>1, <3>2 DEF I!Shown
    <3>8. I!ScreenIsCookie'
      BY <2>1 DEF SignInInv, SignInSound, I!ScreenIsCookie, I!Shown, I!Me
    <3>9. ~(modal'.codes = TRUE)
      BY <3>2, <3>4
    <3>10. ASSUME News, Settled(requests) PROVE screen'.mfaEnabled = TRUE <=> Enabled(screen.name)'
      BY <2>1, <3>2, <3>10 DEF News, Enabled
    <3>11. modal' # I!NoModal
      BY <1>5, <3>4
    <3>12. QED
      BY <1>1, <2>1, <2>2, <2>4, <3>4, <3>6, <3>7, <3>8, <3>9, <3>10, <3>11, DialogAnswers
  <2>5. QED
    BY <1>2, <2>3, <2>4
<1>13. ASSUME I!ConfirmAnswers(i) PROVE SignInInv'
  <2>1. /\ r.kind = "confirm" /\ r.result = "ok" /\ requests' = I!Rest(i)
        /\ UNCHANGED <<mfa, owner, live, setups, torn, phone, cookie, screen, awaiting, revived>>
        /\ modal' = IF r.here THEN [modal EXCEPT !.codes = TRUE] ELSE modal
        /\ missed' = (missed \/ ~r.here)
    BY <1>1, <1>13 DEF I!ConfirmAnswers, I!serverVars
  <2>2. r.kind \in Dialogs
    BY <2>1 DEF Dialogs
  <2>3. CASE r.here = FALSE
    <3>1. modal' = modal /\ missed' = TRUE
      BY <2>1, <2>3
    <3>2. QED
      BY <1>9, <2>1, <3>1
  <2>4. CASE r.here = TRUE
    <3>1. modal' = [modal EXCEPT !.codes = TRUE] /\ missed' = missed
      BY <1>3, <2>1, <2>4
    <3>2. modal.kind = "setup" /\ modal.secret # I!None /\ I!Shown
      BY <1>2, <2>1, <2>4 DEF Asker, SignInInv, SignInDialogs
    <3>3. /\ modal' \in I!Modals /\ modal'.kind = "setup" /\ modal'.secret # I!None
          /\ modal'.codes = TRUE
      BY <1>3, <3>1, <3>2 DEF I!Modals
    <3>4. screen' \in [name : Accounts, mfaEnabled : BOOLEAN] /\ revived' \in BOOLEAN
      BY <1>3, <2>1, <3>2 DEF I!Shown
    <3>5. /\ phone' \in [Accounts -> SUBSET (1..MaxSetups)]
          /\ \A a \in Accounts : phone[a] \subseteq phone'[a]
      BY <1>3, <2>1
    <3>6. I!ScreenIsCookie'
      BY <2>1 DEF SignInInv, SignInSound, I!ScreenIsCookie, I!Shown, I!Me
    <3>7. News => Enabled(screen.name)'
      BY <1>1, <2>1, <2>4 DEF News, Told, Enabled
    <3>8. QED
      BY <1>1, <2>1, <2>2, <2>4, <3>1, <3>3, <3>4, <3>5, <3>6, <3>7, DialogAnswers
  <2>5. QED
    BY <1>2, <2>3, <2>4
<1>14. ASSUME I!DisableAnswers(i) PROVE SignInInv'
  <2>1. /\ r.kind = "disable" /\ r.result = "ok"
        /\ screen' = [name |-> r.account, mfaEnabled |-> FALSE]
        /\ revived' = (revived \/ ~r.here \/ screen.name # r.account)
        /\ requests' = (IF I!Shown THEN I!Rest(i) ELSE I!Gone(I!Rest(i)))
        /\ awaiting' = (IF I!Shown THEN awaiting ELSE I!Nobody)
        /\ modal' = (IF r.here THEN I!NoModal ELSE modal)
        /\ missed' = (missed \/ ~r.here)
        /\ UNCHANGED <<mfa, owner, live, setups, torn, phone, cookie>>
    BY <1>1, <1>14 DEF I!DisableAnswers, I!serverVars
  <2>2. /\ screen' \in [name : Accounts, mfaEnabled : BOOLEAN]
        /\ screen'.name = r.account /\ screen'.mfaEnabled = FALSE
    BY <1>4, <2>1
  <2>3. revived' \in BOOLEAN /\ missed' \in BOOLEAN
    BY <1>2, <1>3, <2>1
  <2>4. r.kind \in Dialogs
    BY <2>1 DEF Dialogs
  <2>5. /\ phone' \in [Accounts -> SUBSET (1..MaxSetups)]
        /\ \A a \in Accounts : phone[a] \subseteq phone'[a]
    BY <1>3, <2>1
  <2>6. CASE r.here = TRUE
    <3>1. modal' = I!NoModal /\ missed' = missed
      BY <1>3, <2>1, <2>6
    <3>2. revived' # TRUE => revived # TRUE /\ screen.name = r.account
      BY <1>3, <2>1
    <3>3. I!Shown
      <4>1. modal.kind = "disable"
        BY <1>2, <2>1, <2>6 DEF Asker
      <4>2. QED
        BY <4>1 DEF SignInInv, SignInDialogs
    <3>4. requests' = I!Rest(i) /\ awaiting' = awaiting
      BY <2>1, <3>3
    <3>5. I!ScreenIsCookie'
      <4>1. revived # TRUE => I!Me = screen.name
        BY <1>3, <3>3 DEF SignInInv, SignInSound, I!ScreenIsCookie
      <4>2. I!Me' = I!Me
        BY <2>1 DEF I!Me
      <4>3. ~revived' => I!Me' = screen'.name
        BY <2>2, <2>3, <3>2, <4>1, <4>2
      <4>4. QED
        BY <4>3 DEF I!ScreenIsCookie
    <3>6. missed # TRUE => revived' = revived
      <4>1. missed # TRUE => r.account = screen.name
        BY <1>2, <2>4, <2>6 DEF Timely
      <4>2. QED
        BY <1>3, <2>1, <2>6, <4>1
    <3>7. News => (screen'.mfaEnabled = TRUE <=> Enabled(screen.name)') \/ missed = TRUE
      <4>1. missed # TRUE => r.account = screen.name
        BY <1>2, <2>4, <2>6 DEF Timely
      <4>2. News => ~Enabled(screen.name)
        BY <1>1, <2>1, <2>6 DEF News, Told
      <4>3. QED
        BY <2>1, <2>2, <4>1, <4>2 DEF Enabled
    <3>8. modal'.kind = "none" /\ modal'.codes = FALSE /\ modal' \in I!Modals
      BY <1>5, <3>1
    <3>9. QED
      BY <1>1, <2>1, <2>2, <2>3, <2>4, <2>5, <2>6, <3>1, <3>4, <3>5, <3>6, <3>7, <3>8, DialogAnswers
  <2>7. CASE r.here = FALSE
    <3>1. modal' = modal /\ missed' = TRUE /\ revived' = TRUE
      BY <2>1, <2>7
    <3>2. I!ScreenIsCookie'
      BY <3>1 DEF I!ScreenIsCookie
    <3>3. requests' = I!Rest(i) \/ requests' = I!Gone(I!Rest(i))
      BY <2>1
    <3>4. awaiting' \in Accounts \cup {I!Nobody}
      BY <1>3, <2>1
    <3>5. SignInSound'
      BY <1>3, <2>1, <2>2, <2>3, <2>5, <3>1, <3>2, <3>3, <3>4, AnswerSound
    <3>6. /\ \A q \in Under(requests') : \E p \in Under(requests) :
               Stems(q, p) /\ (requests' = I!Rest(i) => q = p)
          /\ requests' = I!Gone(I!Rest(i)) => \A q \in Under(requests') : q.here = FALSE
          /\ AtMostOne(requests')
      BY <1>3, <3>3, AnswerTaken
    <3>7. I!Shown'
      BY <1>3, <2>2 DEF I!Shown, I!NoOne
    <3>8. CASE I!Shown
      <4>1. requests' = I!Rest(i)
        BY <2>1, <3>8
      <4>2. ASSUME NEW q \in Under(requests') PROVE Asker(q)'
        <5>1. Asker(q)
          BY <3>6, <4>1, <4>2 DEF SignInInv, SignInDialogs
        <5>2. QED
          BY <3>1, <3>8, <5>1 DEF Asker
      <4>3. SignInDialogs'
        BY <3>1, <3>6, <3>7, <4>2 DEF SignInInv, SignInDialogs
      <4>4. QED
        BY <3>1, <3>5, <4>3 DEF SignInInv, SignInNews
    <3>9. CASE ~I!Shown
      <4>1. \A q \in Under(requests') : Asker(q)'
        BY <2>1, <3>6, <3>9 DEF Asker
      <4>2. SignInDialogs'
        BY <3>1, <3>6, <3>7, <4>1 DEF SignInInv, SignInDialogs
      <4>3. QED
        BY <3>1, <3>5, <4>2 DEF SignInInv, SignInNews
    <3>10. QED
      BY <3>8, <3>9
  <2>8. QED
    BY <1>2, <2>6, <2>7
<1>15. QED
  BY <1>6, <1>8, <1>10, <1>11, <1>12, <1>13, <1>14

\* A dialog is closed, whatever it waits for.
LEMMA SignInCloses == ASSUME SignInInv, I!CloseModal PROVE SignInInv'
<1>1. /\ modal # I!NoModal /\ modal' = I!NoModal /\ requests' = I!Gone(requests)
      /\ missed' = (missed \/ modal.codes)
      /\ UNCHANGED <<mfa, owner, live, setups, torn, phone, cookie, screen, awaiting, revived>>
  BY DEF I!CloseModal, I!serverVars
<1>2. /\ phone \in [Accounts -> SUBSET (1..MaxSetups)] /\ modal \in I!Modals /\ MaxSetups \in Nat
      /\ screen \in [name : Accounts, mfaEnabled : BOOLEAN] \cup {I!NoOne}
      /\ cookie \in DOMAIN owner \cup {I!None} /\ awaiting \in Accounts \cup {I!Nobody}
      /\ revived \in BOOLEAN /\ missed \in BOOLEAN
      /\ requests \in Seq(I!CallRecords) /\ Len(requests) <= MaxRequests
      /\ \A q \in Under(requests) : q \in I!CallRecords
  BY SignInTypes DEF SignInInv
<1>3. I!NoModal \in I!Modals /\ I!NoModal.kind = "none" /\ I!NoModal.codes = FALSE
  BY <1>2 DEF I!NoModal, I!Modals, I!None
<1>4. /\ requests' \in Seq(I!CallRecords) /\ Len(requests') <= MaxRequests /\ AtMostOne(requests')
      /\ \A r \in Under(requests') : \E q \in Under(requests) : q \in I!CallRecords /\ r = Away(q)
      /\ \A q \in Under(requests) : Away(q) \in Under(requests')
  BY <1>1, <1>2, RequestsGone
<1>5. \A q \in I!CallRecords : Stems(Away(q), q) /\ Away(q).here = FALSE
  BY DEF I!CallRecords, Away, Stems
<1>6. \A r \in Under(requests') : r.here = FALSE /\ \E q \in Under(requests) : Stems(r, q)
  BY <1>4, <1>5
<1>7. I!Shown
  BY <1>1 DEF SignInInv, SignInDialogs
<1>8. SignInSound'
  <2>1. /\ phone' \in [Accounts -> SUBSET (1..MaxSetups)] /\ modal' \in I!Modals
        /\ screen' \in [name : Accounts, mfaEnabled : BOOLEAN] \cup {I!NoOne}
        /\ cookie' \in DOMAIN owner \cup {I!None} /\ awaiting' \in Accounts \cup {I!Nobody}
        /\ \A a \in Accounts : phone[a] \subseteq phone'[a]
    BY <1>1, <1>2, <1>3
  <2>2. revived' \in BOOLEAN /\ missed' \in BOOLEAN
    <3>1. modal.codes \in BOOLEAN
      BY <1>2 DEF I!Modals
    <3>2. QED
      BY <1>1, <1>2, <3>1
  <2>3. I!ScreenIsCookie'
    BY <1>1 DEF SignInInv, SignInSound, I!ScreenIsCookie, I!Shown, I!Me
  <2>4. SignInSound /\ UNCHANGED <<mfa, owner, live, setups, torn>>
    BY <1>1 DEF SignInInv
  <2>5. QED
    BY <1>4, <1>6, <2>1, <2>2, <2>3, <2>4, BrowserSteps
<1>9. SignInDialogs'
  BY <1>1, <1>3, <1>4, <1>6 DEF SignInDialogs, Asker
<1>10. missed' # TRUE => missed # TRUE /\ ~(modal.codes = TRUE)
  BY <1>1, <1>2
<1>11. ASSUME missed' # TRUE, NEW r \in Under(requests') PROVE r.kind \notin Logins /\ Timely(r)' /\ Told(r)'
  <2>1. PICK q \in Under(requests) : Stems(r, q)
    BY <1>6, <1>11
  <2>2. Timely(q) /\ Asker(q)
    BY <1>10, <1>11 DEF SignInInv, SignInNews, SignInDialogs
  <2>3. r.kind \notin Logins /\ r.here = FALSE
    BY <1>6, <1>7, <1>11, <2>1, <2>2 DEF Timely, Asker, Stems
  <2>4. QED
    BY <2>3 DEF Timely, Told, Logins
<1>12. ASSUME missed' # TRUE, ~Late(requests') PROVE News'
  <2>1. ASSUME NEW q \in Under(requests) PROVE ~Changed(q)
    <3>1. Away(q) \in Under(requests') /\ Stems(Away(q), q) /\ Away(q).here = FALSE
      BY <1>2, <1>4, <1>5, <2>1
    <3>2. ~Changed(Away(q))
      BY <1>12, <3>1 DEF Late
    <3>3. QED
      BY <3>1, <3>2 DEF Changed, Stems
  <2>2. ~Late(requests) /\ Settled(requests)
    BY <2>1 DEF Late, Settled
  <2>3. screen.mfaEnabled = TRUE <=> Enabled(screen.name)
    BY <1>7, <1>10, <1>12, <2>2 DEF SignInInv, SignInNews, News
  <2>4. screen'.mfaEnabled = TRUE <=> Enabled(screen.name)'
    BY <1>1, <2>3 DEF Enabled
  <2>5. \A r \in Under(requests') : Told(r)'
    BY <1>11, <1>12
  <2>6. ~(modal'.codes = TRUE)
    BY <1>1, <1>3
  <2>7. QED
    BY <2>4, <2>5, <2>6 DEF News
<1>13. SignInNews'
  BY <1>1, <1>10, <1>11, <1>12 DEF SignInInv, SignInNews
<1>14. QED
  BY <1>8, <1>9, <1>13 DEF SignInInv

\* Each step of the login screen, the menu and the server keeps SignInInv.
LEMMA SignInKept == SignInInv /\ [I!Next]_signInVars => SignInInv'
<1> SUFFICES ASSUME SignInInv, [I!Next]_signInVars PROVE SignInInv'
  OBVIOUS
<1>1. CASE UNCHANGED signInVars
  <2>1. UNCHANGED <<mfa, owner, live, setups, torn, phone, cookie, screen, awaiting, modal, requests, revived, missed>>
    BY <1>1 DEF signInVars
  <2>2. SignInSound'
    BY <2>1 DEF SignInInv, SignInSound, I!TypeOK, I!SecretIsHeld, I!ScreenIsCookie, I!Shown, I!Me, Backed, Vouched
  <2>3. SignInDialogs'
    BY <2>1 DEF SignInInv, SignInDialogs, Asker, I!Shown
  <2>4. SignInNews'
    BY <2>1 DEF SignInInv, SignInNews, News, Timely, Told, Enabled, I!Shown
  <2>5. QED
    BY <2>2, <2>3, <2>4 DEF SignInInv
<1>2. CASE \/ \E a \in Accounts : I!Submit(a)
           \/ I!SubmitMfa \/ I!HandleLogout \/ I!OpenSetup \/ I!Confirm \/ I!SubmitDisable
  BY <1>2, SignInAsks
<1>3. CASE \/ I!Back \/ I!OpenDisable \/ I!CodesSaved \/ I!Reload
           \/ \E s \in I!Sessions : I!Expire(s)
  BY <1>3, SignInShows
<1>4. CASE I!CloseModal
  BY <1>4, SignInCloses
<1>5. ASSUME NEW i \in DOMAIN requests,
             \/ I!ServeLogin(i) \/ I!ServeLogout(i) \/ I!CheckMfa(i) \/ I!WriteSetup(i)
             \/ I!WriteConfirm(i) \/ I!WriteDisable(i) \/ I!LoggedIn(i)
      PROVE  SignInInv'
  BY <1>5, SignInServesLogin, SignInServesLogout, SignInChecksMfa, SignInWritesSetup,
     SignInWritesConfirm, SignInWritesDisable, SignInEnters
<1>6. ASSUME NEW i \in DOMAIN requests,
             \/ I!MfaRequired(i) \/ I!LoggedOut(i) \/ I!SetupAnswers(i) \/ I!ConfirmAnswers(i)
             \/ I!DisableAnswers(i) \/ I!Fails(i) \/ I!Lost(i)
      PROVE  SignInInv'
  BY <1>6, SignInAnswered
<1>7. QED
  BY <1>1, <1>2, <1>3, <1>4, <1>5, <1>6 DEF I!Next

\* It holds to begin with.
LEMMA SignInInitially == I!Init => SignInInv
<1> SUFFICES ASSUME I!Init PROVE SignInInv
  OBVIOUS
<1>1. /\ mfa = [a \in Accounts |-> [enabled |-> FALSE, secret |-> 0]]
      /\ owner = <<>> /\ live = {} /\ setups = 0 /\ phone = [a \in Accounts |-> {}]
      /\ cookie = I!None /\ screen = I!NoOne /\ awaiting = I!Nobody /\ modal = I!NoModal
      /\ requests = <<>> /\ revived = FALSE /\ missed = FALSE /\ torn = {}
  BY DEF I!Init, I!None
<1>2. MaxSessions \in Nat /\ MaxSetups \in Nat /\ MaxRequests \in Nat
  BY SignInTypes
<1>3. I!NoModal \in I!Modals /\ I!NoModal.kind = "none" /\ I!NoModal.codes = FALSE
  BY <1>2 DEF I!NoModal, I!Modals, I!None
<1>4. /\ owner \in Seq(Accounts) /\ Len(owner) <= MaxSessions /\ requests \in Seq(I!CallRecords)
      /\ Len(requests) <= MaxRequests /\ Under(requests) = {} /\ AtMostOne(requests)
  BY <1>1, <1>2, EmptySeq DEF Under, AtMostOne
<1>5. [enabled |-> FALSE, secret |-> 0] \in [enabled : BOOLEAN, secret : 0..MaxSetups]
  BY <1>2
<1>6. /\ mfa \in [Accounts -> [enabled : BOOLEAN, secret : 0..MaxSetups]]
      /\ \A a \in Accounts : mfa[a].enabled = FALSE
      /\ phone \in [Accounts -> SUBSET (1..MaxSetups)] /\ setups \in 0..MaxSetups
  BY <1>1, <1>2, <1>5
<1>7. I!TypeOK
  BY <1>1, <1>3, <1>4, <1>6 DEF I!TypeOK
<1>8. ~I!Shown
  BY <1>1 DEF I!Shown
<1>9. SignInSound
  BY <1>4, <1>6, <1>7, <1>8 DEF SignInSound, I!SecretIsHeld, I!ScreenIsCookie
<1>10. SignInDialogs
  BY <1>1, <1>3, <1>4 DEF SignInDialogs
<1>11. SignInNews
  BY <1>1, <1>3, <1>4, <1>8 DEF SignInNews, News
<1>12. QED
  BY <1>9, <1>10, <1>11 DEF SignInInv

\* The account on screen is the cookie's, the menu offers what the server has, and
\* no second factor is required that its owner was not shown.
LEMMA SignInIsTrue == SignInInv => I!TypeOK /\ I!SignInHolds
<1> SUFFICES ASSUME SignInInv PROVE I!TypeOK /\ I!SignInHolds
  OBVIOUS
<1>1. I!TypeOK /\ I!ScreenIsCookie /\ I!SecretIsHeld
  BY DEF SignInInv, SignInSound
<1>2. I!FactorIsAsShown
  <2> SUFFICES ASSUME I!Shown, requests = <<>>, modal = I!NoModal, ~missed
               PROVE  screen.mfaEnabled = mfa[screen.name].enabled
    BY DEF I!FactorIsAsShown
  <2>1. Under(requests) = {}
    BY EmptySeq DEF Under
  <2>2. ~Late(requests) /\ Settled(requests) /\ missed # TRUE /\ ~(modal.codes = TRUE)
    BY <2>1, SignInTypes DEF Late, Settled, I!NoModal, SignInInv
  <2>3. screen.mfaEnabled = TRUE <=> Enabled(screen.name)
    BY <2>2 DEF SignInInv, SignInNews, News
  <2>4. screen.mfaEnabled \in BOOLEAN /\ mfa[screen.name].enabled \in BOOLEAN
    BY SignInTypes DEF SignInInv
  <2>5. QED
    BY <2>3, <2>4 DEF Enabled
<1>3. QED
  BY <1>1, <1>2 DEF I!SignInHolds
=============================================================================
