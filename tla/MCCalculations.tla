---------------------------- MODULE MCCalculations ----------------------------
(***************************************************************************)
(* Questions for Calculations: rules around the end of February 2023 and   *)
(* 2024, days of ten minutes with up to two blocks, exceptions and         *)
(* bookings, and lists of up to three entries.                             *)
(***************************************************************************)
EXTENDS Calculations, FiniteSetsExt, TLC

----------------------------------------------------------------------------
(* Rules *)

Year(y) == 12 * y
Feb23 == Year(2023) + 1
TwoYears == Year(2022)..(Year(2025) + 11)

Starts == {DayNumber(Feb23, 28), DayNumber(Feb23 - 1, 31), DayNumber(Feb23 + 2, 5)}

Patterns ==
       [frequency : {"weekly"}, weekday : {0, 2, 5}, week_of_month : {Null}, day_of_month : {Null}]
  \cup [frequency : {"monthly_dow"}, weekday : {0, 3}, week_of_month : {1, 4, 5}, day_of_month : {Null}]
  \cup [frequency : {"monthly_dom"}, weekday : {Null}, week_of_month : {Null}, day_of_month : {1, 29, 30, 31}]
  \cup [frequency : {"weekly", "monthly_dow"}, weekday : {2}, week_of_month : {Null, 6}, day_of_month : {31}]

Ends ==
       [end_kind : {"open"}, end_count : {Null}, end_date : {Null}]
  \cup [end_kind : {"count"}, end_count : {0, 1, 3}, end_date : {Null}]
  \cup [end_kind : {"until"}, end_count : {Null}, end_date : {DayNumber(Feb23, 27), DayNumber(Feb23 + 3, 31)}]

SomeRules ==
  {[frequency |-> p.frequency, weekday |-> p.weekday, week_of_month |-> p.week_of_month,
    day_of_month |-> p.day_of_month, interval |-> i, start_date |-> s, end_kind |-> e.end_kind,
    end_count |-> e.end_count, end_date |-> e.end_date] :
     p \in Patterns, i \in {0, 1, 2, 12}, s \in Starts, e \in Ends}

\* Three months, a window that ends on the day it starts, and for the monthly
\* patterns a year that ends on a leap day.
Spans == {<<DayNumber(Feb23 - 1, 1), DayNumber(Feb23 + 2, 30)>>,
          <<DayNumber(Feb23 + 2, 5), DayNumber(Feb23 + 2, 5)>>}
LeapYear == <<DayNumber(Feb23 + 1, 29), DayNumber(Feb23 + 12, 29)>>

SomeRuleQuestions ==
       {[kind |-> "expand", rule |-> r, from |-> s[1], to |-> s[2]] : r \in SomeRules, s \in Spans}
  \cup {[kind |-> "expand", rule |-> r, from |-> LeapYear[1], to |-> LeapYear[2]] :
          r \in {x \in SomeRules : x.frequency # "weekly"}}

----------------------------------------------------------------------------
(* Days *)

UpTo(n, S) == UNION {kSubset(k, S) : k \in 0..n}

Block(s, e, override) == [start |-> s, end |-> e, override |-> override]
Blocks == {Block(0, 4, 0), Block(4, 8, 0), Block(4, 9, 3), Block(2, 6, 3)}

Off(s, e)   == [off |-> TRUE, timed |-> TRUE, start |-> s, end |-> e]
Extra(s, e) == [off |-> FALSE, timed |-> TRUE, start |-> s, end |-> e]
Exceptions == {FullDay, Off(0, 2), Off(3, 5), Off(7, 9), Extra(4, 7)}

Entry(id, s, e, state, virtual, ignored) ==
  [id |-> id, start |-> s, end |-> e, state |-> state, virtual |-> virtual, ignored |-> ignored]
Bookings == {Entry(1, 2, 4, "scheduled", FALSE, FALSE), Entry(2, 5, 6, "requested", FALSE, FALSE),
             Entry(3, 8, Midnight, "scheduled", FALSE, FALSE), Entry(4, 0, 2, "canceled", FALSE, FALSE),
             Entry(-1, 3, 5, "scheduled", TRUE, FALSE)}

SomeDayQuestions ==
  {[kind |-> "day", blocks |-> b, default |-> 2, exceptions |-> e, booked |-> k,
    ahead |-> 1, window |-> w] :
     b \in UpTo(2, Blocks), e \in UpTo(2, Exceptions), k \in UpTo(2, Bookings),
     w \in {[min |-> 1, max |-> -1], [min |-> 0, max |-> 0]}}

----------------------------------------------------------------------------
(* Lists *)

Entries == Bookings \cup
  {Entry(5, 4, 6, "scheduled", FALSE, TRUE), Entry(-2, 2, 4, "scheduled", TRUE, FALSE),
   Entry(-3, 8, 9, "scheduled", TRUE, FALSE)}

SomeListQuestions ==
  {[kind |-> "list", entries |-> k, slots |-> {Interval(0, 2), Interval(2, 4), Interval(4, 6), Interval(8, 9), Interval(3, 5)},
    now |-> n, sort |-> [column |-> c, dir |-> d], conflicting |-> f, limit |-> l] :
     k \in UpTo(3, Entries), n \in {0, 3}, c \in {"starts_at", "duration_minutes"},
     d \in {"asc", "desc"}, f \in BOOLEAN, l \in {1, 2}}

=============================================================================
