----------------------------- MODULE Calculations -----------------------------
(***************************************************************************)
(* The read-only calculations of the calendar, asked one question each:    *)
(* the dates of a recurrence rule, the slots and windows of a day, the     *)
(* pages of a list.  A question is answered in the steps the code takes:   *)
(* one candidate date, one computation, one page at a time.                *)
(***************************************************************************)
EXTENDS Recurrence, Listing, SequencesExt

CONSTANTS
  RuleQuestions,   \* rules with the window they are expanded over
  DayQuestions,    \* blocks, exceptions and bookings of a day
  ListQuestions    \* bookings of a day with a sort, a filter and a page size

\* A stretch of the day, as the tables keep it: it ends after it starts, at 24:00 at the latest.
OnTheDay(x) == x.start \in 0..(Midnight - 1) /\ x.end \in 1..Midnight /\ x.start < x.end

\* Rows and occurrences have ids of their own kind.
EntryOnTheDay(e) ==
  OnTheDay(e) /\ e.virtual \in BOOLEAN /\ e.id \in Int /\ IF e.virtual THEN e.id < 0 ELSE e.id > 0

\* A day of one of the months of the model.
Dated(day) == \E n \in Months : DayNumber(n, 1) <= day /\ day < DayNumber(n + 1, 1)

\* What the parser makes of a rule: numbers and dates, or nothing.
RuleIsTyped(r) ==
  /\ r.start_date \in Int /\ r.interval \in Int
  /\ {r.weekday, r.week_of_month, r.day_of_month, r.end_count, r.end_date} \subseteq Int \cup {Null}

\* The months of the model have no gap, and the dates asked about lie in them.
ASSUME MonthsAssumption ==
  /\ Null \notin Int
  /\ Months \subseteq Int /\ \A a, b \in Months : a..b \subseteq Months
  /\ \A q \in RuleQuestions : Dated(q.rule.start_date) /\ Dated(q.to)

ASSUME QuestionsAssumption ==
  /\ \A q \in RuleQuestions :
       /\ q.kind = "expand"
       /\ RuleIsTyped(q.rule)
       /\ q.from \in Int /\ q.to \in Int
  /\ \A q \in DayQuestions :
       /\ q.kind = "day"
       /\ q.default \in Nat \ {0}
       /\ \A b \in q.blocks : OnTheDay(b) /\ b.override \in Nat
       /\ \A e \in q.exceptions : e = FullDay \/ (e.timed = TRUE /\ e.off \in BOOLEAN /\ OnTheDay(e))
       /\ \A b \in q.booked : EntryOnTheDay(b)
  /\ \A q \in ListQuestions :
       /\ q.kind = "list"
       /\ \A e \in q.entries : EntryOnTheDay(e)
       /\ \A a, b \in q.entries : a.id = b.id => a = b
       /\ IsFiniteSet(q.entries)
       /\ q.limit \in Nat \ {0}

VARIABLES
  question,
  phase,      \* asked, answering or done
  answer

vars == <<question, phase, answer>>

----------------------------------------------------------------------------

\* 422: the rule is not stored, so it is never expanded.
RejectRule ==
  /\ phase = "asked" /\ question.kind = "expand"
  /\ ~Accepted(question.rule)
  /\ phase' = "done"
  /\ answer' = [rejected |-> TRUE]
  /\ UNCHANGED question

BeginWalk ==
  /\ phase = "asked" /\ question.kind = "expand"
  /\ Accepted(question.rule)
  /\ phase' = "answering"
  /\ answer' = StartWalk
  /\ UNCHANGED question

Walk ==
  /\ phase = "answering" /\ question.kind = "expand"
  /\ ~answer.ended
  /\ answer.k < Horizon
  /\ answer' = WalkOn(question.rule, answer, question.from, question.to)
  /\ UNCHANGED <<question, phase>>

EndWalk ==
  /\ phase = "answering" /\ question.kind = "expand"
  /\ answer.ended
  /\ phase' = "done"
  /\ UNCHANGED <<question, answer>>

\* A block as the tiler sees it for the chosen service, or for a room.
ServiceBlocks(q) ==
  {[start |-> b.start, end |-> b.end, slot |-> SlotMinutes(b, q.default)] : b \in q.blocks}
RoomBlocks(q) == {[start |-> b.start, end |-> b.end, slot |-> Tile] : b \in q.blocks}

OpenBooked(q) == {b \in q.booked : b.virtual \/ IsOpen(b)}
BookedIntervals(q) == {BookedInterval(b) : b \in OpenBooked(q)}

\* loadOwnerState for the professional with a service, without one, and for a
\* room with the same hours; a client outside the window is offered nothing.
ComputeDay ==
  /\ phase = "asked" /\ question.kind = "day"
  /\ answer' =
       [grid  |-> ComputeServiceSlots(ServiceBlocks(question), question.exceptions, {}),
        slots |-> IF IsOutsideBookingWindow(question.ahead, question.window) THEN {}
                  ELSE ComputeServiceSlots(ServiceBlocks(question), question.exceptions,
                                           BookedIntervals(question)),
        free  |-> ComputeFreeWindows(question.blocks, question.exceptions, BookedIntervals(question)),
        room  |-> ComputeServiceSlots(RoomBlocks(question), question.exceptions, {})]
  /\ phase' = "done"
  /\ UNCHANGED question

\* The next page; each request may receive the stored entries in any order.
FetchPage ==
  /\ phase = "asked" /\ question.kind = "list"
  /\ \E arrival \in SetToSeqs(question.entries) :
       LET page == Page(question.entries, question.slots, question.now, question.sort,
                        question.conflicting, arrival, question.limit, answer.page)
       IN  /\ answer' = [page |-> answer.page + 1, seen |-> answer.seen \o page.rows]
           /\ phase' = IF answer.page * question.limit >= page.total THEN "done" ELSE "asked"
  /\ UNCHANGED question

Init ==
  /\ question \in RuleQuestions \cup DayQuestions \cup ListQuestions
  /\ phase = "asked"
  /\ answer = [page |-> 1, seen |-> <<>>]

Next == RejectRule \/ BeginWalk \/ Walk \/ EndWalk \/ ComputeDay \/ FetchPage

Spec == Init /\ [][Next]_vars

----------------------------------------------------------------------------
(* Properties *)

Answered(kind) == phase = "done" /\ question.kind = kind

\* An expansion gives exactly the dates the rule means, counted from its start
\* and not from the window: the walk by week and month agrees with a calendar
\* read day by day.
ExpansionIsExact ==
  Answered("expand") /\ "out" \in DOMAIN answer =>
    answer.out = Meaning(question.rule, question.from, question.to)

\* A walk runs on past every date of the model only for a rule whose months
\* never have its day: any other rule comes to the end of the window.
RunawayOnlyWhenBarren ==
  /\ phase = "answering" /\ question.kind = "expand"
  /\ answer.k = Horizon /\ ~answer.ended
  => Barren(question.rule)

Minutes(iv) == iv.start..(iv.end - 1)

\* Minutes of the blocks, of the hours off and of the extra hours.
WorkedMinutes(q) == UNION {Minutes(b) : b \in q.blocks}
TimedMinutes(q, off) == UNION {Minutes(e) : e \in {x \in q.exceptions : x.timed /\ x.off = off}}

FreeMinutes(q) ==
  IF FullDay \in q.exceptions THEN {}
  ELSE (WorkedMinutes(q) \cup TimedMinutes(q, FALSE)) \ TimedMinutes(q, TRUE)

\* Minutes of the bookings as they are read back.
TakenMinutes(q) == UNION {Minutes(iv) : iv \in BookedIntervals(q)}

\* The windows are the free minutes, in as few pieces as possible, and the
\* slots offered are the tiles with no minute off or taken.
SlotsAreExact ==
  Answered("day") =>
    /\ UNION {Minutes(iv) : iv \in answer.free} = FreeMinutes(question) \ TakenMinutes(question)
    /\ \A a, b \in answer.free : a # b => a.end < b.start \/ b.end < a.start
    /\ ~IsOutsideBookingWindow(question.ahead, question.window) =>
         answer.slots = {slot \in UNION {Tiles(b) : b \in ServiceBlocks(question)} :
                           Minutes(slot) \subseteq FreeMinutes(question) \ TakenMinutes(question)}

Verdict(q, p, kind, slots) == OwnerConflicts(p, kind, slots, OpenBooked(q), 0)

Proposals == {p \in [start : 0..(Midnight - 1), end : 1..Midnight] : p.start < p.end}

\* A slot shown to a client can be booked: the length the server resolves for
\* it and its verdict agree with the screen, unless blocks overlap and the
\* length of the other block wins.
OfferedSlotIsBookable ==
  Answered("day") =>
    \A slot \in answer.slots :
      \/ \A d \in EffectiveDurations(question.blocks, question.default, slot.start) :
           /\ ~CrossesMidnight(slot.start, d)
           /\ Verdict(question, Interval(slot.start, slot.start + d), "professional", answer.grid) = {}
      \/ \E a, b \in question.blocks : a # b /\ DetectOverlap(a, b)

\* The verdict misses an overlapping booking only when that booking ends at
\* 24:00, and it calls a placement off the grid exactly when it has a minute
\* outside every tile.
OverlapMissedOnlyAtMidnight ==
  Answered("day") =>
    \A p \in Proposals :
      LET verdict == Verdict(question, p, "professional", answer.grid)
          found   == {c.with : c \in verdict} \ {0}
          sharing == {b \in OpenBooked(question) : Minutes(b) \cap Minutes(p) # {}}
      IN  /\ found \subseteq {b.id : b \in sharing}
          /\ \A b \in sharing : b.id \in found \/ (b.end = Midnight /\ ~b.virtual)
          /\ (\E c \in verdict : c.type = "professional_availability")
               <=> ~(Minutes(p) \subseteq UNION {Minutes(s) : s \in answer.grid})

\* The tiles of a room do not decide what can be booked in it when its hours
\* are whole tiles: then only containment in the free hours counts.
RoomVerdictIsContainment ==
  /\ Answered("day")
  /\ \A b \in question.blocks : (b.end - b.start) % Tile = 0
  /\ \A e \in question.exceptions : ~e.timed
  => \A p \in Proposals :
       (\E c \in Verdict(question, p, "resource", answer.room) : c.type = "resource_availability")
         <=> ~(Minutes(p) \subseteq FreeMinutes(question))

\* Time off flags the open future bookings that share a minute with it, but
\* for those that end at 24:00, and what it flags a recheck would refuse as
\* well: the SQL of the flag and the aggregator agree.
TimeOffAgreesWithVerdict ==
  Answered("day") =>
    \A r \in {b \in question.booked : ~b.virtual} :
      LET offs == {e \in question.exceptions : e.off} IN
      /\ FlaggedByTimeOff(r, offs, 0) =>
           \E c \in OwnerConflicts(Interval(r.start, r.end), "professional", answer.grid, {}, 0) :
             c.type = "professional_availability"
      /\ \A off \in offs :
           ConflictEligible(r, 0) /\ (off.timed => Minutes(r) \cap Minutes(off) # {}) =>
             HitByTimeOff(r, off, 0) \/ (r.end = Midnight /\ off.timed)

\* Paging shows every entry exactly once, in the order of the column, though
\* the rows of each request arrive in any order and many share the sort value.
PagesPartition ==
  Answered("list") =>
    LET kept == Kept(question.entries, question.slots, question.now, question.conflicting)
        value(i) == SortValue(answer.seen[i], question.sort.column)
    IN  /\ ToSet(answer.seen) = kept
        /\ Len(answer.seen) = Cardinality(kept)
        /\ \A i, j \in DOMAIN answer.seen :
             i < j => IF question.sort.dir = "asc" THEN value(i) <= value(j) ELSE value(j) <= value(i)

\* A double booking rings on both sides: an occurrence that overlaps an open
\* row still to come is flagged, and so is the row, but for the rows staff
\* acknowledged and those that end at 24:00.
BothSidesRing ==
  question.kind = "list" =>
    \A v, r \in question.entries :
      /\ v.virtual /\ ~r.virtual
      /\ ConflictEligible(r, question.now)
      /\ Minutes(v) \cap Minutes(r) # {}
      /\ r.end # Midnight
      => /\ Flagged(v, question.entries, question.slots, question.now)
         /\ Flagged(r, question.entries, question.slots, question.now)

=============================================================================
