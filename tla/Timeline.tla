----------------------------- MODULE Timeline -----------------------------
(***************************************************************************)
(* The interaction timeline of a call: splitHold and deriveTimelineRows of *)
(* src/frontend/src/App.tsx, which turn a record's participants and events *)
(* into coloured segments on one clock.  Records come from many platforms: *)
(* events may be missing, belong to nobody, or arrive out of order.        *)
(*                                                                         *)
(* Times and durations are integers, Null an absent field.  A record is    *)
(*   [start, end, updated, inSource, wrapUp, participants, events]         *)
(* with participants a sequence of [id, role, join, leave], and events one *)
(* of [by, type, time]; inSource is callSource's duration in the IVR or    *)
(* queue.  Events and participants are picked by their position.           *)
(***************************************************************************)
EXTENDS Integers, Sequences, FiniteSetsExt

CONSTANTS
  Records,    \* the records that may be opened
  Null

Times == Int \cup {Null}

(* A record's fields; the schema bounds neither its times nor durations.   *)
TimelineAssumption ==
  /\ Null \notin Int /\ Null \notin Records
  /\ \A record \in Records :
       /\ record.start \in Int
       /\ {record.end, record.updated, record.inSource, record.wrapUp} \subseteq Times
       /\ Len(record.participants) \in Nat /\ Len(record.events) \in Nat
       /\ DOMAIN record.participants = 1 .. Len(record.participants)
       /\ DOMAIN record.events = 1 .. Len(record.events)
       /\ \A i \in DOMAIN record.participants :
            {record.participants[i].join, record.participants[i].leave} \subseteq Times
       /\ \A i \in DOMAIN record.events : record.events[i].time \in Int

VARIABLES
  open,       \* the record whose timeline is on screen, or Null
  rows        \* its rows

vars == << open, rows >>

-----------------------------------------------------------------------------
Or(value, default) == IF value = Null THEN default ELSE value
Latest(s, t) == IF s < t THEN t ELSE s
Segment(kind, s, e) == [kind |-> kind, start |-> s, end |-> e]

Own(record, p) == {i \in DOMAIN record.events : record.events[i].by = p.id}

(* findEvent: the first event of a type, the participant's own first.      *)
TimeOf(events, some, type) ==
  LET found == {i \in some : events[i].type = type}
  IN  IF found = {} THEN Null ELSE events[Min(found)].time

FindTime(events, own, type) ==
  Or(TimeOf(events, own, type), TimeOf(events, DOMAIN events, type))

-----------------------------------------------------------------------------
(* The holds and resumes inside a window, in the order of time; the sort   *)
(* is stable.                                                              *)
IsToggle(e, s, t) == e.type \in {"hold", "resume"} /\ s < e.time /\ e.time < t

Toggles(events, own, s, t) == {i \in own : IsToggle(events[i], s, t)}

Before_AsReported(events, i, j) == i < j         \* Fault: no sort

Before(events, i, j) ==
  events[i].time < events[j].time \/ (events[i].time = events[j].time /\ i < j)

Sorted(events, some) ==
  [k \in 1 .. Cardinality(some) |->
     CHOOSE i \in some : Cardinality({j \in some : Before(events, j, i)}) = k - 1]

(* One segment before each toggle and one after the last.                  *)
Carve(toggles, s, t) ==
  [i \in 1 .. Len(toggles) + 1 |->
     Segment(IF i > 1 /\ toggles[i - 1].type = "hold" THEN "hold" ELSE "active",
             IF i = 1 THEN s ELSE toggles[i - 1].time,
             IF i = Len(toggles) + 1 THEN t ELSE toggles[i].time)]

SplitHold(events, own, s, t) ==
  LET order == Sorted(events, Toggles(events, own, s, t))
  IN  Carve([k \in DOMAIN order |-> events[order[k]]], s, t)

-----------------------------------------------------------------------------
CallEnd(record) == Or(record.end, Or(record.updated, record.start))
IsMachine(p) == p.role \in {"ivr", "queue"}

(* An IVR or a queue: from its entry to its exit, or as long as the call's *)
(* source says.                                                            *)
MachineSegments(record, entry, exit) ==
  IF entry # Null THEN << Segment("waiting", entry, Latest(Or(exit, entry), entry)) >>
  ELSE IF record.inSource # Null
  THEN << Segment("waiting", record.start, record.start + record.inSource) >>
  ELSE << >>

(* Somebody known by events: rung, connected, disconnected; a caller waits *)
(* from the start of the call.  Nothing known: one span for the call.      *)
Wait(record, p, rung, from) ==
  IF rung # Null /\ rung < from THEN << Segment("waiting", rung, from) >>
  ELSE IF rung = Null /\ p.role = "caller" /\ from > record.start
  THEN << Segment("waiting", record.start, from) >>
  ELSE << >>

EventSegments(record, p, own, rung, connected, to) ==
  IF rung = Null /\ connected = Null
  THEN << Segment("active", record.start, Latest(record.start, CallEnd(record))) >>
  ELSE Wait(record, p, rung, Or(connected, rung))
       \o SplitHold(record.events, own, Or(connected, rung), Latest(Or(connected, rung), to))

SegmentsOf(record, p, own) ==
  LET events == record.events
  IN  IF IsMachine(p)
      THEN MachineSegments(record,
             FindTime(events, own, IF p.role = "ivr" THEN "ivr_entry" ELSE "queue_entry"),
             FindTime(events, own, IF p.role = "ivr" THEN "ivr_exit" ELSE "queue_exit"))
      ELSE IF p.join # Null        \* conferences
      THEN SplitHold(events, own, p.join, Or(p.leave, CallEnd(record)))
      ELSE EventSegments(record, p, own, TimeOf(events, own, "ringing"),
             FindTime(events, own, "connected"),
             Or(FindTime(events, own, "disconnected"), CallEnd(record)))

RowOf(record, p) == [participant |-> p, segments |-> SegmentsOf(record, p, Own(record, p))]

(* The row that gets the wrap-up: the first person who is not the caller,  *)
(* else the first person; 0 if there is nobody.                            *)
Eligible(row) == ~IsMachine(row.participant) /\ row.segments # << >>
WrapUpRow(all) ==
  LET people == {i \in DOMAIN all : Eligible(all[i])}
      others == {i \in people : all[i].participant.role # "caller"}
  IN  IF others # {} THEN Min(others) ELSE IF people # {} THEN Min(people) ELSE 0

WithTail(segments, length) ==
  LET last == Max({segments[k].end : k \in DOMAIN segments})
  IN  Append(segments, Segment("wrapup", last, last + length))
WithWrapUp(record, all, target) ==
  IF record.wrapUp = Null \/ target = 0 THEN all
  ELSE [all EXCEPT ![target].segments = WithTail(@, record.wrapUp)]

WrappedUp(record, all) == WithWrapUp(record, all, WrapUpRow(all))

(* Rows without segments are left out; the others keep their participants' *)
(* positions.                                                              *)
Drawn(all) == [i \in {i \in DOMAIN all : all[i].segments # << >>} |-> all[i]]

DeriveTimelineRows(record) ==
  Drawn(WrappedUp(record, [i \in DOMAIN record.participants |->
                             RowOf(record, record.participants[i])]))

-----------------------------------------------------------------------------
Init == open = Null /\ rows = << >>
Show == open = Null /\ open' \in Records /\ rows' = DeriveTimelineRows(open')
Close == open # Null /\ open' = Null /\ rows' = << >>
Next == Show \/ Close
Spec == Init /\ [][Next]_vars

-----------------------------------------------------------------------------
(* What is on screen is a record and segments of its participants.        *)
TypeOK ==
  /\ open = Null \/ open \in Records
  /\ \A i \in DOMAIN rows :
       /\ rows[i].participant = open.participants[i]
       /\ \A k \in DOMAIN rows[i].segments :
            rows[i].segments[k].kind \in {"waiting", "active", "hold", "wrapup"}

(* The reference: at the moment m of a window a participant is on hold iff *)
(* the last of its holds and resumes inside the window, by time and then   *)
(* by the order they are listed in, was a hold.                            *)
OnHold(events, own, s, t, m) ==
  LET past == {i \in Toggles(events, own, s, t) : events[i].time <= m}
  IN  \E i \in past : /\ events[i].type = "hold"
                      /\ \A j \in past \ {i} : Before(events, j, i)

(* A participant who left, or whose call ended, before it joined.          *)
LeftEarly(record, p) == /\ p.join # Null /\ ~IsMachine(p)
                        /\ Or(p.leave, CallEnd(record)) < p.join

(* A platform may report anything as a duration.                           *)
NegativeDuration(record) == \E d \in {record.inSource, record.wrapUp} \ {Null} : d < 0

(* A person neither joined, rung nor connected: the fallback ignores holds. *)
Sparse(record, p) ==
  /\ p.join = Null
  /\ ~\E i \in DOMAIN record.events : record.events[i].type = "connected"
  /\ ~\E i \in DOMAIN record.events : record.events[i].type = "ringing" /\ record.events[i].by = p.id

Talk(segments) == {k \in DOMAIN segments : segments[k].kind \in {"active", "hold"}}

HoldsShown(events, own, segments) ==
  LET talk == Talk(segments)
  IN  \A k \in talk : \A m \in segments[k].start .. segments[k].end - 1 :
        (segments[k].kind = "hold")
          = OnHold(events, own, segments[Min(talk)].start, segments[Max(talk)].end, m)

(* Every row is one unbroken stretch of time in which each moment has one  *)
(* state, and the state is "hold" exactly while the participant is on      *)
(* hold, in whatever order the platform reported the events; the wrap-up   *)
(* is drawn once, after everything else of its row, and never dropped      *)
(* while a person is on screen.                                            *)
RowTiles(p, segments) ==
  /\ \A k \in 1 .. Len(segments) - 1 : segments[k].end = segments[k + 1].start
  /\ \/ LeftEarly(open, p) \/ NegativeDuration(open)
     \/ \A k \in DOMAIN segments : segments[k].start <= segments[k].end
  /\ Sparse(open, p) \/ HoldsShown(open.events, Own(open, p), segments)

Tailed(segments) == \E k \in DOMAIN segments : segments[k].kind = "wrapup"

WrapUps == {i \in DOMAIN rows : Tailed(rows[i].segments)}

SegmentsTile ==
  /\ \A i \in DOMAIN rows : RowTiles(rows[i].participant, rows[i].segments)
  /\ \A i \in WrapUps : \A k \in 1 .. Len(rows[i].segments) - 1 : rows[i].segments[k].kind # "wrapup"
  /\ Cardinality(WrapUps) =
       IF open # Null /\ open.wrapUp # Null /\ \E i \in DOMAIN rows : ~IsMachine(rows[i].participant)
       THEN 1 ELSE 0
=============================================================================
