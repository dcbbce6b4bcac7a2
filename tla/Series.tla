-------------------------------- MODULE Series --------------------------------
(***************************************************************************)
(* Recurring appointments: a rule is stored once, its occurrences are      *)
(* computed on demand ("virtual") and become rows of the appointments      *)
(* table when something real happens to them.  Concurrent requests create, *)
(* edit, split, end and list series and materialize occurrences, over one  *)
(* Postgres database.                                                      *)
(*                                                                         *)
(* As in Booking a handler is cut where it awaits, and what it read from   *)
(* the pool may be stale when it writes.  The plain booking endpoints,     *)
(* which Booking shows to act atomically, are one step each here.          *)
(*                                                                         *)
(* One professional owns every series, so one advisory lock is enough.     *)
(* Time is a day and a time of day; two placements clash when both agree.  *)
(* Rules are weekly with a week of Week days; the monthly patterns, which  *)
(* only choose other dates, are in Recurrence.                             *)
(***************************************************************************)
EXTENDS Integers, FiniteSets

CONSTANTS
  Requests,    \* the HTTP requests; what q inserts gets the id q
  Stored,      \* ids of the series stored when the model starts
  Rules,       \* the rules a create may ask for and Stored may hold
  Patches,     \* the rule fields an edit or a split may send
  Days,        \* the horizon: the dates looked at
  Times,       \* start times
  Week,        \* days in a week
  Free,        \* the holder of the lock when nobody holds it
  OneOff,      \* the SQL NULL of appointments.series_id
  NoId         \* the id of a virtual occurrence in a list

SeriesIds == Stored \cup Requests

ASSUME SeriesAssumption ==
  /\ Stored \cap Requests = {}
  /\ Free \notin Requests /\ NoId \notin Requests
  /\ OneOff \notin SeriesIds
  /\ Days \subseteq Nat
  /\ Week \in Nat \ {0}

VARIABLES
  series,   \* the appointment_series table
  row,      \* the appointments table
  vetted,   \* ghost: rows whose placement, as it stands, passed a recheck
  lock,     \* the advisory lock of the professional
  pc,       \* where each handler is
  job,      \* what each handler was asked and has read so far
  result,   \* how each request ended
  listed    \* what each finished list request answered

tables == <<series, row, vetted>>
vars == <<series, row, vetted, lock, pc, job, result, listed>>

----------------------------------------------------------------------------
(* Rows *)

EndShapes == [kind: {"open"}, count: {0}, until: {0}]
        \cup [kind: {"count"}, count: Nat \ {0}, until: {0}]
        \cup [kind: {"until"}, count: {0}, until: Int]

RuleFields == {"start", "interval", "time", "end"}

\* What parseRecurrenceRule lets through.
ValidRule(r) ==
  /\ r.start \in Int
  /\ r.interval \in Nat \ {0}
  /\ r.end \in EndShapes
  /\ r.end.kind = "until" => r.end.until >= r.start

NoSeries == [status |-> "absent"]
NoRow    == [state |-> "absent"]

IsOpen(r) == r.state = "scheduled"

----------------------------------------------------------------------------
(* Occurrences of a rule *)

\* Counted from the start of the rule, never from the window looked at.
OnPattern(r, d) ==
  LET step == r.interval * Week IN
  /\ d >= r.start
  /\ (d - r.start) % step = 0
  /\ r.end.kind = "count" => (d - r.start) \div step < r.end.count
  /\ r.end.kind = "until" => d <= r.end.until

Materialized(s, d) == {i \in Requests : row[i] # NoRow /\ row[i].series = s /\ row[i].occ = d}

\* An occurrence that is still virtual: an active series whose rule hits the
\* date, and no row for it, canceled ones included.
VirtualAt(s, d) ==
  /\ series[s].status = "active"
  /\ OnPattern(series[s], d)
  /\ Materialized(s, d) = {}

\* What the conflict aggregator finds at a slot, but for row i.
Taken(i, d, t) ==
  \/ \E j \in Requests \ {i} : IsOpen(row[j]) /\ row[j].day = d /\ row[j].time = t
  \/ \E s \in SeriesIds : VirtualAt(s, d) /\ series[s].time = t

----------------------------------------------------------------------------
(* Handlers *)

InTx  == {"existing", "lock", "check", "insert", "edit", "split", "end"}
Steps == {"idle", "listSeries", "listOverrides", "done"} \cup InTx
NoJob == [op |-> "none"]

GoTo(q, step) == pc' = [pc EXCEPT ![q] = step]

\* COMMIT or ROLLBACK, the locks with it, and the response.
Finish(q, outcome) ==
  /\ GoTo(q, "done")
  /\ result' = [result EXCEPT ![q] = outcome]
  /\ job' = [job EXCEPT ![q] = NoJob]
  /\ lock' = IF lock = q THEN Free ELSE lock

Begin(q, j, step) ==
  /\ pc[q] = "idle"
  /\ GoTo(q, step)
  /\ job' = [job EXCEPT ![q] = j]
  /\ UNCHANGED <<tables, lock, result, listed>>

\* Every handler but create and list starts from a row read on the pool.
Load(q, s, op, date, fields, step) ==
  /\ series[s] # NoSeries
  /\ Begin(q, [op |-> op, series |-> s, seen |-> series[s], date |-> date,
               forced |-> FALSE, fields |-> fields], step)

\* A field the request does not send keeps the value of the row as it was read.
Merged(seen, patch) ==
  [f \in RuleFields |-> IF f \in DOMAIN patch THEN patch[f] ELSE seen[f]]

WithStatus(rule, status) ==
  [start |-> rule.start, interval |-> rule.interval, time |-> rule.time,
   end |-> rule.end, status |-> status]

----------------------------------------------------------------------------
(* POST /series: the rule is stored; its occurrences are not *)

CreateSeries(q) ==
  \E rule \in Rules :
    /\ pc[q] = "idle"
    /\ ValidRule(rule)
    /\ series' = [series EXCEPT ![q] = WithStatus(rule, "active")]
    /\ Finish(q, "created")
    /\ UNCHANGED <<row, vetted, listed>>

----------------------------------------------------------------------------
(* POST /series/:id/materialize *)

\* The date is checked against the rule as it was read, whatever the status.
LoadForMaterialize(q) ==
  \E s \in SeriesIds, d \in Days :
    /\ series[s] # NoSeries
    /\ OnPattern(series[s], d)
    /\ Load(q, s, "materialize", d, <<>>, "existing")

ReturnExisting(q) ==
  /\ pc[q] = "existing"
  /\ Materialized(job[q].series, job[q].date) # {}
  /\ Finish(q, "returned")
  /\ UNCHANGED <<tables, listed>>

FindNone(q) ==
  /\ pc[q] = "existing"
  /\ Materialized(job[q].series, job[q].date) = {}
  /\ GoTo(q, "lock")
  /\ UNCHANGED <<tables, lock, job, result, listed>>

LockOwner(q) ==
  /\ pc[q] = "lock"
  /\ lock = Free
  /\ lock' = q
  /\ GoTo(q, "check")
  /\ UNCHANGED <<tables, job, result, listed>>

\* Mutant: the recheck runs in a transaction of its own, and its lock with it.
RecheckOccurrence_OwnTx(q) ==
  /\ pc[q] = "check"
  /\ job' = [job EXCEPT ![q].forced = Taken(q, job[q].date, job[q].seen.time)]
  /\ lock' = Free
  /\ GoTo(q, "insert")
  /\ UNCHANGED <<tables, result, listed>>

\* No id is excluded: the occurrence's own virtual booking is found as well.
RecheckOccurrence(q) ==
  /\ pc[q] = "check"
  /\ job' = [job EXCEPT ![q].forced = Taken(q, job[q].date, job[q].seen.time)]
  /\ GoTo(q, "insert")
  /\ UNCHANGED <<tables, lock, result, listed>>

\* Mutant: an INSERT that no unique index refuses.
InsertOccurrence_NoIndex(q) ==
  /\ pc[q] = "insert"
  /\ row' = [row EXCEPT ![q] =
               [state |-> "scheduled", series |-> job[q].series, occ |-> job[q].date,
                day |-> job[q].date, time |-> job[q].seen.time, forced |-> job[q].forced]]
  /\ vetted' = vetted \cup {q}
  /\ Finish(q, "materialized")
  /\ UNCHANGED <<series, listed>>

InsertOccurrence(q) ==
  /\ pc[q] = "insert"
  /\ Materialized(job[q].series, job[q].date) = {}
  /\ row' = [row EXCEPT ![q] =
               [state |-> "scheduled", series |-> job[q].series, occ |-> job[q].date,
                day |-> job[q].date, time |-> job[q].seen.time, forced |-> job[q].forced]]
  /\ vetted' = vetted \cup {q}
  /\ Finish(q, "materialized")
  /\ UNCHANGED <<series, listed>>

\* 23505: the transaction is aborted, so the re-select of the winner fails as
\* well and the request with it.
LoseRace(q) ==
  /\ pc[q] = "insert"
  /\ Materialized(job[q].series, job[q].date) # {}
  /\ Finish(q, "failed")
  /\ UNCHANGED <<tables, listed>>

----------------------------------------------------------------------------
(* PUT /series/:id, POST .../future, POST .../end *)

LoadForEdit(q) ==
  \E s \in SeriesIds, p \in Patches :
    /\ series[s] # NoSeries
    /\ ValidRule(Merged(series[s], p))
    /\ Load(q, s, "edit", 0, Merged(series[s], p), "edit")

\* The UPDATE writes every rule field, patched or not, and never the status.
EditRule(q) ==
  LET s == job[q].series IN
  /\ pc[q] = "edit"
  /\ series' = [series EXCEPT ![s] = WithStatus(job[q].fields, @.status)]
  /\ Finish(q, "edited")
  /\ UNCHANGED <<row, vetted, listed>>

\* Mutant: the count of the rule is kept beside its new end date.
EndAt_KeepsCount(rule, last) ==
  [rule EXCEPT !.end = [kind |-> "until", count |-> @.count, until |-> last],
               !.status = "ended"]

\* endSeriesAt: the rule is bounded, its count cleared and its status closed.
EndAt(rule, last) ==
  [rule EXCEPT !.end = [kind |-> "until", count |-> 0, until |-> last],
               !.status = "ended"]

LoadForSplit(q) ==
  \E s \in SeriesIds, p \in Patches, from \in Days :
    /\ series[s] # NoSeries
    /\ ValidRule([Merged(series[s], p) EXCEPT !.start = from])
    /\ Load(q, s, "split", from, [Merged(series[s], p) EXCEPT !.start = from], "split")

\* The new series takes what was read before the transaction; the count of the
\* old one is taken over whole.
SplitSeries(q) ==
  LET s == job[q].series IN
  /\ pc[q] = "split"
  /\ series' = [series EXCEPT ![s] = EndAt(@, job[q].date - 1),
                              ![q] = WithStatus(job[q].fields, "active")]
  /\ Finish(q, "split")
  /\ UNCHANGED <<row, vetted, listed>>

\* Without a date in the request, from is the start of the rule.
LoadForEnd(q) ==
  \E s \in SeriesIds :
    /\ series[s] # NoSeries
    /\ \E from \in Days \cup {series[s].start} :
         Load(q, s, "end", from, <<>>, "end")

CancelFrom(s, from) ==
  [i \in Requests |->
     IF IsOpen(row[i]) /\ row[i].series = s /\ row[i].occ >= from
     THEN [row[i] EXCEPT !.state = "canceled"] ELSE row[i]]

\* One action: the INSERT of a materialization in flight is not seen by the
\* UPDATE that cancels, whether it commits before or after this transaction.
EndSeries(q) ==
  LET s == job[q].series IN
  /\ pc[q] = "end"
  /\ series' = [series EXCEPT ![s] = EndAt(@, job[q].date - 1)]
  /\ row' = CancelFrom(s, job[q].date)
  /\ Finish(q, "ended")
  /\ UNCHANGED <<vetted, listed>>

----------------------------------------------------------------------------
(* GET /appointments over a date range: stored rows, then series, then the   *)
(* occurrences that have a row, each a statement of its own on the pool      *)

RowEntry(i)     == [id |-> i, series |-> row[i].series, occ |-> row[i].occ]
VirtualEntry(s, d) == [id |-> NoId, series |-> s, occ |-> d]

ReadRows(q) ==
  Begin(q, [op |-> "list", rows |-> {RowEntry(i) : i \in {j \in Requests : row[j] # NoRow}}],
        "listSeries")

ReadSeries(q) ==
  /\ pc[q] = "listSeries"
  /\ job' = [job EXCEPT ![q] =
       [op |-> "list", rows |-> @.rows,
        virtual |-> {v \in SeriesIds \X Days :
                       series[v[1]].status = "active" /\ OnPattern(series[v[1]], v[2])}]]
  /\ GoTo(q, "listOverrides")
  /\ UNCHANGED <<tables, lock, result, listed>>

\* Mutant: the occurrences to leave out are those of the rows already read.
ReadOverrides_Cached(q) ==
  /\ pc[q] = "listOverrides"
  /\ listed' = [listed EXCEPT ![q] = job[q].rows \cup
       {VirtualEntry(v[1], v[2]) : v \in job[q].virtual}]
  /\ Finish(q, "listed")
  /\ UNCHANGED tables

ReadOverrides(q) ==
  /\ pc[q] = "listOverrides"
  /\ listed' = [listed EXCEPT ![q] = job[q].rows \cup
       {VirtualEntry(v[1], v[2]) :
          v \in {w \in job[q].virtual : Materialized(w[1], w[2]) = {}}}]
  /\ Finish(q, "listed")
  /\ UNCHANGED tables

----------------------------------------------------------------------------
(* The booking endpoints, atomic (Booking implements Agenda) *)

\* POST /schedule: a one-off appointment, marked when it overrides a conflict.
BookOneOff(q) ==
  \E d \in Days, t \in Times :
    /\ pc[q] = "idle"
    /\ lock = Free
    /\ row' = [row EXCEPT ![q] =
                 [state |-> "scheduled", series |-> OneOff, occ |-> -1, day |-> d,
                  time |-> t, forced |-> Taken(q, d, t)]]
    /\ vetted' = vetted \cup {q}
    /\ Finish(q, "booked")
    /\ UNCHANGED <<series, listed>>

\* POST /:id/reschedule of any open row; its occurrence date stays.
MoveRow(q) ==
  \E i \in Requests, d \in Days, t \in Times :
    /\ pc[q] = "idle"
    /\ lock = Free
    /\ IsOpen(row[i])
    /\ row' = [row EXCEPT ![i].day = d, ![i].time = t, ![i].forced = Taken(i, d, t)]
    /\ vetted' = vetted \cup {i}
    /\ Finish(q, "moved")
    /\ UNCHANGED <<series, listed>>

\* POST /:id/transition to canceled.
CancelRow(q) ==
  \E i \in Requests :
    /\ pc[q] = "idle"
    /\ IsOpen(row[i])
    /\ row' = [row EXCEPT ![i].state = "canceled"]
    /\ Finish(q, "canceled")
    /\ UNCHANGED <<series, vetted, listed>>

----------------------------------------------------------------------------

\* 403, 404, 422, or a statement that fails: everything is rolled back.
Refuse(q) ==
  /\ pc[q] # "done"
  /\ Finish(q, "failed")
  /\ UNCHANGED <<tables, listed>>

Init ==
  /\ series \in [SeriesIds -> {NoSeries} \cup {WithStatus(r, "active") : r \in Rules}]
  /\ \A s \in SeriesIds : series[s] # NoSeries <=> s \in Stored
  /\ \A s \in Stored : ValidRule(series[s])
  /\ row = [i \in Requests |-> NoRow]
  /\ vetted = {}
  /\ lock = Free
  /\ pc = [q \in Requests |-> "idle"]
  /\ job = [q \in Requests |-> NoJob]
  /\ result = [q \in Requests |-> "pending"]
  /\ listed = [q \in Requests |-> {}]

Receive(q) ==
  \/ CreateSeries(q)
  \/ LoadForMaterialize(q)
  \/ LoadForEdit(q)
  \/ LoadForSplit(q)
  \/ LoadForEnd(q)
  \/ ReadRows(q)
  \/ BookOneOff(q)
  \/ MoveRow(q)
  \/ CancelRow(q)

Proceed(q) ==
  \/ ReturnExisting(q)
  \/ FindNone(q)
  \/ LockOwner(q)
  \/ RecheckOccurrence(q)
  \/ InsertOccurrence(q)
  \/ LoseRace(q)
  \/ EditRule(q)
  \/ SplitSeries(q)
  \/ EndSeries(q)
  \/ ReadSeries(q)
  \/ ReadOverrides(q)

Next == \E q \in Requests : Receive(q) \/ Proceed(q) \/ Refuse(q)

Spec == Init /\ [][Next]_vars

\* Postgres and the event loop run every handler that can go on.
FairSpec == Spec /\ \A q \in Requests : WF_vars(Proceed(q))

----------------------------------------------------------------------------
(* Properties *)

\* The rules stay in a shape the CHECK constraints of the table accept, after
\* any edits, splits and ends, also those that merged a row read before.
RulesWellFormed ==
  \A s \in SeriesIds : series[s] # NoSeries =>
    /\ series[s].status \in {"active", "ended"}
    /\ series[s].interval >= 1
    /\ series[s].end \in EndShapes

\* A series has at most one row per occurrence date, however many requests
\* materialize it at once: each looked for the row before it held the lock, so
\* only the partial unique index keeps a second one out.
OneRowPerOccurrence ==
  \A i, j \in Requests :
    /\ row[i] # NoRow /\ row[j] # NoRow
    /\ row[i].series = row[j].series /\ row[i].series # OneOff
    /\ row[i].occ = row[j].occ
    => i = j

\* A list never shows an occurrence twice, as its row and as virtual, though
\* rows, series and overrides are read by three statements with commits in
\* between.
ListedOnce ==
  \A q \in Requests : \A e \in listed[q] :
    e.id # NoId => VirtualEntry(e.series, e.occ) \notin listed[q]

\* No silent double booking with recurring rows: of two open rows in one slot,
\* both placed by a recheck, one is marked as forced.
VettedClashIsForced ==
  \A i, j \in vetted :
    /\ i # j
    /\ IsOpen(row[i]) /\ IsOpen(row[j])
    /\ row[i].day = row[j].day /\ row[i].time = row[j].time
    => row[i].forced \/ row[j].forced

\* series-materialize.ts: a materialization is forced only when it bypassed a
\* real conflict: another open row, or an occurrence of another series.
ForcedMeansConflict ==
  [][\A q \in Requests : pc[q] = "check" /\ pc'[q] = "insert" /\ job'[q].forced =>
       \/ \E i \in Requests : /\ IsOpen(row[i])
                             /\ row[i].day = job[q].date
                             /\ row[i].time = job[q].seen.time
       \/ \E s \in SeriesIds \ {job[q].series} :
            VirtualAt(s, job[q].date) /\ series[s].time = job[q].seen.time]_vars

=============================================================================
