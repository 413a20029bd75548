------------------------------ MODULE Columns ------------------------------
(***************************************************************************)
(* The records table's columns: their widths, order and visibility, kept   *)
(* in the localStorage that all tabs of a browser share, while releases    *)
(* of the dashboard come and go (src/frontend/src/App.tsx, RecordsTable).  *)
(*                                                                         *)
(* A tab runs the release it was loaded with.  It reads the storage once,  *)
(* when the table mounts, and writes one of its three keys after every     *)
(* change of it, and all three on mounting; a storage that is not          *)
(* available makes the writes no-ops and the reads defaults.               *)
(***************************************************************************)
EXTENDS Integers, Sequences, SequencesExt

CONSTANTS
  Tabs,       \* browser tabs on one profile
  Releases,   \* the releases of the dashboard: a sequence of
              \*   [order |-> <<id, ...>>, width |-> [id -> Nat], least |-> [id -> Nat]]
  Pinned,     \* NON_HIDEABLE_COLUMN_ID
  Sizes,      \* the widths a drag may ask for
  MaxEdits    \* bound: changes the user makes

VARIABLES
  release,    \* the release a tab opened now would run
  stored,     \* localStorage: [widths, order, hidden]
  tab,        \* tab[t]: Closed, or the state of its table
  dragged,    \* history: the columns somebody ever resized
  edits       \* changes made so far

vars == <<release, stored, tab, dragged, edits>>

Closed == [release |-> 0]
Open(t) == tab[t] # Closed

Ids(r) == ToSet(Releases[r].order)
AllIds == UNION {Ids(r) : r \in 1 .. Len(Releases)}
Default(r) == Releases[r].width

(* A release has every column once, and a width for each of them.          *)
ReleasesAssumption ==
  /\ Len(Releases) \in Nat \ {0} /\ MaxEdits \in Nat
  /\ \A r \in 1 .. Len(Releases) :
       /\ Releases[r].order \in Seq(Ids(r)) /\ IsInjective(Releases[r].order)
       /\ Default(r) \in [Ids(r) -> Nat]

Init == /\ release = 1
        /\ stored = [widths |-> << >>, order |-> << >>, hidden |-> {}]
        /\ tab = [t \in Tabs |-> Closed]
        /\ dragged = {}
        /\ edits = 0

-----------------------------------------------------------------------------
(* What is written.  Only the widths that differ from the release's own    *)
(* defaults are stored; those of columns it does not know differ.          *)

Customized_Everything(r, w) == w         \* Fault: the whole map, as key v1 did

Customized(r, w) ==
  LET kept == {c \in DOMAIN w : c \notin Ids(r) \/ w[c] # Default(r)[c]}
  IN  [c \in kept |-> w[c]]

(* The effect that follows a change of one key of a tab's table, and the   *)
(* three effects of a mount; each setItem may throw, which is caught.      *)
Persisted(new) ==
  \E w \in {stored.widths, new.widths}, o \in {stored.order, new.order},
     h \in {stored.hidden, new.hidden} :
       stored' = [widths |-> w, order |-> o, hidden |-> h]

(* What is read: the stored values over the release's defaults.            *)
LoadWidths_StoredOnly(r) == stored.widths     \* Fault: not over the defaults

LoadWidths(r) == [c \in DOMAIN stored.widths \cup Ids(r) |->
                    IF c \in DOMAIN stored.widths THEN stored.widths[c] ELSE Default(r)[c]]

\* Those of the columns that are among ids, in their order.
Kept(columns, ids) ==
  FoldLeft(LAMBDA kept, c : IF c \in ids THEN Append(kept, c) ELSE kept, << >>, columns)

LoadOrder(r) ==
  LET known == Kept(stored.order, Ids(r))
  IN  known \o Kept(Releases[r].order, Ids(r) \ ToSet(known))

LoadHidden == stored.hidden \ {Pinned}

-----------------------------------------------------------------------------
(* A tab loads the dashboard and its table mounts: readable is FALSE when  *)
(* localStorage throws.                                                    *)
Mount(t, readable) ==
  /\ ~Open(t)
  /\ LET r == release
         w == IF readable THEN LoadWidths(r) ELSE Default(r)
         o == IF readable THEN LoadOrder(r) ELSE Releases[r].order
         h == IF readable THEN LoadHidden ELSE {}
     IN  /\ tab' = [tab EXCEPT ![t] = [release |-> r, widths |-> w, order |-> o, hidden |-> h]]
         /\ IF readable
            THEN Persisted([widths |-> Customized(r, w), order |-> o, hidden |-> h])
            ELSE UNCHANGED stored
  /\ UNCHANGED <<release, dragged, edits>>

Unmount(t) == /\ Open(t)
              /\ tab' = [tab EXCEPT ![t] = Closed]
              /\ UNCHANGED <<release, stored, dragged, edits>>

(* Another release is deployed, or the last one rolled back.               *)
Deploy(r) == /\ r # release
             /\ release' = r
             /\ UNCHANGED <<stored, tab, dragged, edits>>

Edit(t) == /\ Open(t)
           /\ edits < MaxEdits
           /\ edits' = edits + 1
           /\ UNCHANGED release

SetWidths(t, w) ==
  /\ tab' = [tab EXCEPT ![t].widths = w]
  /\ Persisted([stored EXCEPT !.widths = Customized(tab[t].release, w)])

SetHidden(t, h) == /\ tab' = [tab EXCEPT ![t].hidden = h]
                   /\ Persisted([stored EXCEPT !.hidden = h])

(* A drag of a column's edge, up to the column's least width.              *)
Resize(t, c, x) ==
  /\ Edit(t)
  /\ c \in Ids(tab[t].release)
  /\ LET least == Releases[tab[t].release].least[c]
     IN  SetWidths(t, [tab[t].widths EXCEPT ![c] = IF x < least THEN least ELSE x])
  /\ dragged' = dragged \cup {c}

ResetWidths(t) == /\ Edit(t)
                  /\ SetWidths(t, Default(tab[t].release))
                  /\ UNCHANGED dragged

(* Every column is in the order once.                                      *)
MoveColumn(t, c, direction) ==
  /\ Edit(t)
  /\ \E at \in DOMAIN tab[t].order :
       /\ tab[t].order[at] = c /\ at + direction \in DOMAIN tab[t].order
       /\ LET new == [tab[t].order EXCEPT ![at] = tab[t].order[at + direction],
                                          ![at + direction] = c]
          IN  /\ tab' = [tab EXCEPT ![t].order = new]
              /\ Persisted([stored EXCEPT !.order = new])
  /\ UNCHANGED dragged

ToggleHidden(t, c) ==
  /\ Edit(t)
  /\ c \in Ids(tab[t].release) \ {Pinned}
  /\ SetHidden(t, IF c \in tab[t].hidden THEN tab[t].hidden \ {c} ELSE tab[t].hidden \cup {c})
  /\ UNCHANGED dragged

ResetColumns(t) ==
  /\ Edit(t)
  /\ LET default == Releases[tab[t].release].order
     IN  /\ tab' = [tab EXCEPT ![t].order = default, ![t].hidden = {}]
         /\ Persisted([stored EXCEPT !.order = default, !.hidden = {}])
  /\ UNCHANGED dragged

Next == \/ \E r \in 1 .. Len(Releases) : Deploy(r)
        \/ \E t \in Tabs :
             \/ \E readable \in BOOLEAN : Mount(t, readable)
             \/ Unmount(t)
             \/ ResetWidths(t)
             \/ ResetColumns(t)
             \/ \E c \in AllIds : \/ \E x \in Sizes : Resize(t, c, x)
                                  \/ \E d \in {-1, 1} : MoveColumn(t, c, d)
                                  \/ ToggleHidden(t, c)

Spec == Init /\ [][Next]_vars

-----------------------------------------------------------------------------
(* Types of the storage and of the open tables.                            *)
TypeOK ==
  /\ release \in 1 .. Len(Releases)
  /\ DOMAIN stored.widths \subseteq AllIds
  /\ ToSet(stored.order) \subseteq AllIds
  /\ stored.hidden \subseteq AllIds
  /\ \A t \in Tabs : Open(t) => /\ Ids(tab[t].release) \subseteq DOMAIN tab[t].widths
                                /\ tab[t].hidden \subseteq AllIds
  /\ dragged \subseteq AllIds
  /\ edits \in 0 .. MaxEdits

(* Whatever other tabs, older or newer releases have stored: a table has   *)
(* every column of its release exactly once, its call ids are visible, and *)
(* "a future default-width tweak takes effect immediately for every column *)
(* nobody has actually dragged" (App.tsx, the persistence effect).         *)
ColumnsFollowRelease ==
  \A t \in Tabs : Open(t) =>
    LET r == tab[t].release
    IN  /\ ToSet(tab[t].order) = Ids(r) /\ IsInjective(tab[t].order)
        /\ Pinned \notin tab[t].hidden
        /\ \A c \in Ids(r) \ dragged : tab[t].widths[c] = Default(r)[c]
=============================================================================
