------------------------------- MODULE Listing -------------------------------
(***************************************************************************)
(* GET /appointments over a date range: stored rows and virtual            *)
(* occurrences of one professional, flagged against each other, sorted     *)
(* together, narrowed and cut into pages in memory.                        *)
(*                                                                         *)
(* An entry is a row (virtual = FALSE, id > 0) or an occurrence of series  *)
(* n (virtual = TRUE, id = -n), as in Availability's booked intervals.     *)
(***************************************************************************)
EXTENDS Availability, FiniteSets, Sequences

\* Blocks and closures aside, an occurrence is in conflict when it overlaps
\* an open row or another occurrence; its own occupancy is excluded.
VirtualInConflict(v, entries, slots) ==
  OwnerConflicts(Interval(v.start, v.end), "professional", slots,
                 {e \in entries : e.virtual \/ IsOpen(e)}, v.id) # {}

\* Mutant: only a row that starts inside the occurrence rings.
RingsWith_StartInside(r, v) == v.start <= r.start /\ r.start < v.end

\* Instants, not wall-clock times: an end at 24:00 is after its start.
RingsWith(r, v) == r.start < v.end /\ v.start < r.end

\* flagRealConflictsWithVirtuals
RowInConflict(r, entries, slots, now) ==
  /\ ConflictEligible(r, now)
  /\ \E v \in entries : v.virtual /\ VirtualInConflict(v, entries, slots) /\ RingsWith(r, v)

Flagged(e, entries, slots, now) ==
  IF e.virtual THEN VirtualInConflict(e, entries, slots) ELSE RowInConflict(e, entries, slots, now)

\* appointmentSortValue: starts_at, or duration_minutes.
SortValue(e, column) == IF column = "starts_at" THEN e.start ELSE e.end - e.start

\* appointmentTiebreak, unique per entry: rows ("r:...") come before virtual
\* ones ("v:..."); the order of two series stands for that of their numbers as text.
TiedBefore(a, b) ==
  \/ ~a.virtual /\ b.virtual
  \/ ~a.virtual /\ ~b.virtual /\ a.id < b.id
  \/ a.virtual /\ b.virtual /\ b.id < a.id

\* Mutant: entries that tie on the column compare equal.
Before_NoTiebreak(a, b, sort) ==
  LET less(x, y) == SortValue(x, sort.column) < SortValue(y, sort.column)
  IN  IF sort.dir = "asc" THEN less(a, b) ELSE less(b, a)

\* compareAppointments: descending flips the tie break as well.
Before(a, b, sort) ==
  LET less(x, y) == \/ SortValue(x, sort.column) < SortValue(y, sort.column)
                    \/ SortValue(x, sort.column) = SortValue(y, sort.column) /\ TiedBefore(x, y)
  IN  IF sort.dir = "asc" THEN less(a, b) ELSE less(b, a)

\* The narrowing to conflicting entries, after the rows and occurrences flagged each other.
Kept(entries, slots, now, conflicting) ==
  {e \in entries : conflicting => Flagged(e, entries, slots, now)}

ArrivedFirst(arrival, a, b) ==
  \E i, j \in DOMAIN arrival : i < j /\ arrival[i] = a /\ arrival[j] = b

\* The place of an entry once sorted: the sort is stable, so entries that
\* compare equal stay in the order of arrival.
Place(e, kept, sort, arrival) ==
  1 + Cardinality({x \in kept : \/ Before(x, e, sort)
                                \/ ~Before(e, x, sort) /\ ArrivedFirst(arrival, x, e)})

Combined(kept, sort, arrival) ==
  [n \in 1..Cardinality(kept) |-> CHOOSE e \in kept : Place(e, kept, sort, arrival) = n]

\* One request: everything is read, flagged and sorted again for each page.
Page(entries, slots, now, sort, conflicting, arrival, limit, page) ==
  LET kept  == Kept(entries, slots, now, conflicting)
      total == Cardinality(kept)
      upto  == IF page * limit < total THEN page * limit ELSE total
  IN  [rows |-> SubSeq(Combined(kept, sort, arrival), (page - 1) * limit + 1, upto), total |-> total]

=============================================================================
