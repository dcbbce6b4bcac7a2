------------------------------- MODULE Booking -------------------------------
(***************************************************************************)
(* The write path of appointments: the handlers of POST .../request,       *)
(* .../schedule, .../approve, .../reschedule and .../transition, run by    *)
(* concurrent HTTP requests over one Postgres database.                    *)
(*                                                                         *)
(* A handler is cut where the code awaits: between two cuts nothing else   *)
(* runs that it could see.  Reads made before BEGIN go to the pool, so     *)
(* what they return (job[q].seen) may be stale when the transaction        *)
(* writes.  Transactions are READ COMMITTED: each statement sees what is   *)
(* committed when it starts, and a write becomes visible at COMMIT,        *)
(* together with the release of the transaction's advisory locks.          *)
(*                                                                         *)
(* Only the SQL of the model's own tables is kept.  The availability grid, *)
(* time-off and recurring occurrences reach the recheck as one extra,      *)
(* unpredictable conflict (OtherConflicts), which is weaker than what the  *)
(* code does and so safe for every property below.                         *)
(***************************************************************************)
EXTENDS AppointmentTypes

CONSTANTS
  Seeds,           \* ids of the appointments stored when the model starts
  Requests,        \* the HTTP requests; a row that q inserts gets the id q
  Free,            \* the holder of an advisory lock nobody holds
  Calendars,       \* the stored calendars the model may start from
  OtherConflicts,  \* may the recheck find a conflict that is not an overlap?
  Cutoff,          \* cancellation_cutoff_hours, in units of Starts
  MaxNow           \* bound on the clock

Ids == Seeds \cup Requests

ASSUME BookingAssumption ==
  /\ Seeds \cap Requests = {}
  /\ Free \notin Requests
  /\ \A c \in Calendars : /\ StoredCalendar(c, Ids)
                           /\ \A q \in Requests : c[q] = NoRow
  /\ OtherConflicts \in SUBSET BOOLEAN
  /\ Cutoff \in Nat /\ MaxNow \in Nat

VARIABLES
  appt,           \* the appointments table
  charges,        \* per appointment, the amounts of its session charges
  overrideAudit,  \* the conflict_override rows of audit_events
  vetted,         \* ghost: ids whose placement passed, as it stands, a recheck
  lock,           \* the advisory lock table
  pc,             \* where each handler is
  job,            \* what each handler was asked and has read so far
  verdict,        \* the conflict found so far by the recheck of each handler
  now             \* the wall clock

calendar == <<appt, charges, overrideAudit, vetted>>
vars == <<appt, charges, overrideAudit, vetted, lock, pc, job, verdict, now>>

----------------------------------------------------------------------------
(* Handlers *)

Ops == {"request", "schedule", "approve", "reschedule", "transition"}

InTx      == {"lockProf", "lockRes", "checkProf", "checkRes", "save"}
HasLocks  == {"checkProf", "checkRes", "save"}
Steps     == {"idle", "dryRun", "insert", "wallClock", "gate", "write", "done"}
               \cup InTx

Job == [op: Ops, id: Ids, at: Placement, price: Prices, override: BOOLEAN,
        actor: Staff \cup {Nobody}, to: AppointmentStates,
        seen: Appointment \cup {NoRow}]
NoJob == [op |-> "none"]

\* pg_advisory_xact_lock(1, professional) and (2, resource).
ProfKey(p) == <<1, p>>
ResKey(r)  == <<2, r>>
LockKeys   == {ProfKey(p) : p \in Professionals} \cup {ResKey(r) : r \in Resources}

GoTo(q, step) == pc' = [pc EXCEPT ![q] = step]

\* Mutant: session advisory locks, which outlive the transaction.
Finish_SessionLocks(q) ==
  /\ pc'      = [pc EXCEPT ![q] = "done"]
  /\ job'     = [job EXCEPT ![q] = NoJob]
  /\ verdict' = [verdict EXCEPT ![q] = FALSE]
  /\ lock'    = lock

\* The end of a request: COMMIT or ROLLBACK, then the response.
Finish(q) ==
  /\ pc'      = [pc EXCEPT ![q] = "done"]
  /\ job'     = [job EXCEPT ![q] = NoJob]
  /\ verdict' = [verdict EXCEPT ![q] = FALSE]
  /\ lock'    = [k \in LockKeys |-> IF lock[k] = q THEN Free ELSE lock[k]]

Begin(q, j, step) ==
  /\ pc[q] = "idle"
  /\ GoTo(q, step)
  /\ job' = [job EXCEPT ![q] = j]
  /\ UNCHANGED <<calendar, lock, verdict, now>>

----------------------------------------------------------------------------
(* Conflicts: any other open appointment of the owner that overlaps *)

\* Mutant: only appointments with the same start are compared.
ProfessionalBusy_SameStart(j) ==
  \E i \in Ids \ {j.id} : /\ IsOpen(appt[i])
                          /\ appt[i].at.prof = j.at.prof
                          /\ appt[i].at.start = j.at.start

ProfessionalBusy(j) ==
  \E i \in Ids \ {j.id} : /\ IsOpen(appt[i])
                          /\ appt[i].at.prof = j.at.prof
                          /\ Overlap(appt[i].at, j.at)

ResourceBusy(j) ==
  \E i \in Ids \ {j.id} : /\ IsOpen(appt[i])
                          /\ SameResource(appt[i].at, j.at)
                          /\ Overlap(appt[i].at, j.at)

----------------------------------------------------------------------------
(* POST .../request: a client asks; dry run on the pool, then an insert *)

ReceiveRequest(q) ==
  \E at \in Placement, price \in Prices :
    /\ at.res = NoResource
    /\ Begin(q, [op |-> "request", id |-> q, at |-> at, price |-> price,
                 override |-> FALSE, actor |-> Nobody, to |-> "requested",
                 seen |-> NoRow], "dryRun")

DryRun(q) ==
  /\ pc[q] = "dryRun"
  /\ \E other \in OtherConflicts :
       \/ (other \/ ProfessionalBusy(job[q])) /\ Finish(q)
       \/ /\ ~other /\ ~ProfessionalBusy(job[q])
          /\ GoTo(q, "insert")
          /\ UNCHANGED <<lock, job, verdict>>
  /\ UNCHANGED <<calendar, now>>

InsertRequested(q) ==
  /\ pc[q] = "insert"
  /\ appt' = [appt EXCEPT ![q] =
                [state |-> "requested", at |-> job[q].at, price |-> job[q].price,
                 override |-> FALSE, actor |-> Nobody]]
  /\ Finish(q)
  /\ UNCHANGED <<charges, overrideAudit, vetted, now>>

----------------------------------------------------------------------------
(* What schedule, approve and reschedule load before their transaction *)

ReceiveSchedule(q) ==
  \E at \in Placement, price \in Prices, override \in BOOLEAN, s \in Staff :
    Begin(q, [op |-> "schedule", id |-> q, at |-> at, price |-> price,
              override |-> override, actor |-> s, to |-> "scheduled",
              seen |-> NoRow], "lockProf")

\* Professional, resource and duration come from this read, the start from
\* the next one (getAppointmentWallClock).
LoadForApprove(q) ==
  \E i \in Ids, override \in BOOLEAN, s \in Staff :
    /\ appt[i].state = "requested"
    /\ Begin(q, [op |-> "approve", id |-> i, at |-> appt[i].at,
                 price |-> appt[i].price, override |-> override, actor |-> s,
                 to |-> "scheduled", seen |-> appt[i]], "wallClock")

ReadWallClock(q) ==
  /\ pc[q] = "wallClock"
  /\ job' = [job EXCEPT ![q].at.start = appt[job[q].id].at.start]
  /\ GoTo(q, "lockProf")
  /\ UNCHANGED <<calendar, lock, verdict, now>>

\* The body may name a new professional, service, resource, date, start and
\* duration; what it leaves out is filled from the row just read.  It cannot
\* clear the resource.  The price is resolved again.
LoadForReschedule(q) ==
  \E i \in Ids, at \in Placement, price \in Prices,
     override \in BOOLEAN, s \in Staff :
    /\ IsOpen(appt[i])
    /\ at.res \in Resources \cup {appt[i].at.res}
    /\ Begin(q, [op |-> "reschedule", id |-> i, at |-> at, price |-> price,
                 override |-> override, actor |-> s, to |-> appt[i].state,
                 seen |-> NoRow], "lockProf")

----------------------------------------------------------------------------
(* saveWithConflictRecheck: lock the owners, recheck, then write or not *)

LockProfessional(q) ==
  LET key == ProfKey(job[q].at.prof) IN
  /\ pc[q] = "lockProf"
  /\ lock[key] = Free
  /\ lock' = [lock EXCEPT ![key] = q]
  /\ GoTo(q, IF job[q].at.res = NoResource THEN "checkProf" ELSE "lockRes")
  /\ UNCHANGED <<calendar, job, verdict, now>>

\* Mutant: pg_try_advisory_xact_lock, with its answer ignored.
LockResource_TryLock(q) ==
  LET key == ResKey(job[q].at.res) IN
  /\ pc[q] = "lockRes"
  /\ lock' = [lock EXCEPT ![key] = IF @ = Free THEN q ELSE @]
  /\ GoTo(q, "checkProf")
  /\ UNCHANGED <<calendar, job, verdict, now>>

LockResource(q) ==
  LET key == ResKey(job[q].at.res) IN
  /\ pc[q] = "lockRes"
  /\ lock[key] = Free
  /\ lock' = [lock EXCEPT ![key] = q]
  /\ GoTo(q, "checkProf")
  /\ UNCHANGED <<calendar, job, verdict, now>>

CheckProfessional(q) ==
  /\ pc[q] = "checkProf"
  /\ \E other \in OtherConflicts :
       verdict' = [verdict EXCEPT ![q] = other \/ ProfessionalBusy(job[q])]
  /\ GoTo(q, IF job[q].at.res = NoResource THEN "save" ELSE "checkRes")
  /\ UNCHANGED <<calendar, lock, job, now>>

\* Mutant: the second recheck replaces the verdict of the first.
CheckResource_LastVerdict(q) ==
  /\ pc[q] = "checkRes"
  /\ \E other \in OtherConflicts :
       verdict' = [verdict EXCEPT ![q] = other \/ ResourceBusy(job[q])]
  /\ GoTo(q, "save")
  /\ UNCHANGED <<calendar, lock, job, now>>

CheckResource(q) ==
  /\ pc[q] = "checkRes"
  /\ \E other \in OtherConflicts :
       verdict' = [verdict EXCEPT ![q] = @ \/ other \/ ResourceBusy(job[q])]
  /\ GoTo(q, "save")
  /\ UNCHANGED <<calendar, lock, job, now>>

\* Mutant: the response is sent and the transaction is left open.
ReturnVerdict_OpenTx(q) ==
  /\ pc[q] = "save"
  /\ verdict[q] /\ ~job[q].override
  /\ GoTo(q, "done")
  /\ UNCHANGED <<calendar, lock, job, verdict, now>>

\* A conflict that no override covers: the verdict goes back, nothing is saved.
ReturnVerdict(q) ==
  /\ pc[q] = "save"
  /\ verdict[q] /\ ~job[q].override
  /\ Finish(q)
  /\ UNCHANGED <<calendar, now>>

\* An override marks the row only when it bypassed a conflict.
Forced(q) == job[q].override /\ verdict[q]

\* Mutant: the verdict is not looked at.
MaySave_Unchecked(q, op) == pc[q] = "save" /\ job[q].op = op

MaySave(q, op) == /\ pc[q] = "save"
                  /\ job[q].op = op
                  /\ verdict[q] => job[q].override

\* Mutant: an audit row that does not say which operation was forced.
AuditOverride_NoOp(q) ==
  overrideAudit' =
    IF Forced(q)
    THEN overrideAudit \cup {[id |-> job[q].id, actor |-> job[q].actor]}
    ELSE overrideAudit

AuditOverride(q) ==
  overrideAudit' =
    IF Forced(q)
    THEN overrideAudit \cup {[id |-> job[q].id, op |-> job[q].op, actor |-> job[q].actor]}
    ELSE overrideAudit

SaveScheduled(q) ==
  /\ MaySave(q, "schedule")
  /\ appt' = [appt EXCEPT ![q] =
                [state |-> "scheduled", at |-> job[q].at, price |-> job[q].price,
                 override |-> Forced(q),
                 actor |-> IF Forced(q) THEN job[q].actor ELSE Nobody]]
  /\ AuditOverride(q)
  /\ vetted' = vetted \cup {q}
  /\ Finish(q)
  /\ UNCHANGED <<charges, now>>

\* The UPDATE names only the id: it applies to the row as it is by then, which
\* need no longer be the row that was loaded.
SaveApproved(q) ==
  LET i == job[q].id IN
  /\ MaySave(q, "approve")
  /\ TriggerAllows(appt[i].state, "scheduled")
  /\ appt' = [appt EXCEPT ![i].state = "scheduled",
                          ![i].override = Forced(q),
                          ![i].actor = IF Forced(q) THEN job[q].actor
                                                    ELSE job[q].seen.actor]
  /\ AuditOverride(q)
  /\ vetted' = IF appt[i].at = job[q].at THEN vetted \cup {i} ELSE vetted \ {i}
  /\ Finish(q)
  /\ UNCHANGED <<charges, now>>

\* Mutant: a move keeps the mark of an earlier override but not who made it.
SaveRescheduled_KeepsMark(q) ==
  LET i == job[q].id IN
  /\ MaySave(q, "reschedule")
  /\ appt' = [appt EXCEPT ![i].at = job[q].at,
                          ![i].price = job[q].price,
                          ![i].override = @ \/ Forced(q),
                          ![i].actor = IF Forced(q) THEN job[q].actor ELSE Nobody]
  /\ AuditOverride(q)
  /\ vetted' = vetted \cup {i}
  /\ Finish(q)
  /\ UNCHANGED <<charges, now>>

SaveRescheduled(q) ==
  LET i == job[q].id IN
  /\ MaySave(q, "reschedule")
  /\ appt' = [appt EXCEPT ![i].at = job[q].at,
                          ![i].price = job[q].price,
                          ![i].override = Forced(q),
                          ![i].actor = IF Forced(q) THEN job[q].actor ELSE Nobody]
  /\ AuditOverride(q)
  /\ vetted' = vetted \cup {i}
  /\ Finish(q)
  /\ UNCHANGED <<charges, now>>

----------------------------------------------------------------------------
(* POST .../transition *)

\* A client (actor Nobody here) may only cancel.
LoadForTransition(q) ==
  \E i \in Ids, to \in AppointmentStates, s \in Staff \cup {Nobody} :
    /\ ValidTransition(appt[i].state, to)
    /\ s = Nobody => to = "canceled"
    /\ Begin(q, [op |-> "transition", id |-> i, at |-> appt[i].at,
                 price |-> appt[i].price, override |-> FALSE, actor |-> s,
                 to |-> to, seen |-> appt[i]], "gate")

\* The time rules, on the row that was loaded and the clock of this moment.
TimeAllows(j) ==
  LET until == j.seen.at.start - now IN
  /\ j.to = "completed" => until <= 0
  /\ j.to = "no_show" => until <= Cutoff
  /\ j.actor = Nobody /\ j.seen.state = "scheduled" => until > Cutoff

Gate(q) ==
  /\ pc[q] = "gate"
  /\ TimeAllows(job[q])
  /\ GoTo(q, "write")
  /\ UNCHANGED <<calendar, lock, job, verdict, now>>

AnswerTooEarly(q) ==
  /\ pc[q] = "gate"
  /\ ~TimeAllows(job[q])
  /\ Finish(q)
  /\ UNCHANGED <<calendar, now>>

\* Mutant: the write relies on the check of the row that was loaded.
WriteTransition_NoTrigger(q) ==
  LET i == job[q].id IN
  /\ pc[q] = "write"
  /\ appt' = [appt EXCEPT ![i].state = job[q].to]
  /\ charges' = IF job[q].to = "completed" /\ charges[i] = <<>>
                THEN [charges EXCEPT ![i] = Append(@, job[q].seen.price)]
                ELSE charges
  /\ Finish(q)
  /\ UNCHANGED <<overrideAudit, vetted, now>>

WriteTransition(q) ==
  LET i == job[q].id IN
  /\ pc[q] = "write"
  /\ TriggerAllows(appt[i].state, job[q].to)
  /\ appt' = [appt EXCEPT ![i].state = job[q].to]
  /\ charges' = IF job[q].to = "completed" /\ charges[i] = <<>>
                THEN [charges EXCEPT ![i] = Append(@, job[q].seen.price)]
                ELSE charges
  /\ Finish(q)
  /\ UNCHANGED <<overrideAudit, vetted, now>>

----------------------------------------------------------------------------
(* Requests that change nothing *)

\* A response before any transaction: validation, 403, 404, 422, the booking
\* window.
Refuse(q) ==
  /\ pc[q] \in {"idle", "dryRun", "wallClock", "gate"}
  /\ Finish(q)
  /\ UNCHANGED <<calendar, now>>

\* The state trigger raises check_violation and the transaction rolls back.
RejectedByTrigger(q) ==
  /\ \/ MaySave(q, "approve")
     \/ pc[q] = "write"
  /\ ~TriggerAllows(appt[job[q].id].state, job[q].to)
  /\ Finish(q)
  /\ UNCHANGED <<calendar, now>>

\* A statement of the transaction fails (lock_timeout, statement_timeout, a
\* lost connection, a failed audit insert) and everything rolls back.
Abort(q) ==
  /\ pc[q] \in InTx \cup {"insert", "write"}
  /\ Finish(q)
  /\ UNCHANGED <<calendar, now>>

Tick ==
  /\ now < MaxNow
  /\ now' = now + 1
  /\ UNCHANGED <<calendar, lock, pc, job, verdict>>

----------------------------------------------------------------------------

Init ==
  /\ appt \in Calendars
  /\ charges = [i \in Ids |-> <<>>]
  /\ overrideAudit = {}
  /\ vetted = {i \in Ids : appt[i].state = "scheduled"}
  /\ lock = [k \in LockKeys |-> Free]
  /\ pc = [q \in Requests |-> "idle"]
  /\ job = [q \in Requests |-> NoJob]
  /\ verdict = [q \in Requests |-> FALSE]
  /\ now = 0

Receive(q) ==
  \/ ReceiveRequest(q)
  \/ ReceiveSchedule(q)
  \/ LoadForApprove(q)
  \/ LoadForReschedule(q)
  \/ LoadForTransition(q)

\* The steps the server takes by itself once a request is being handled.
Proceed(q) ==
  \/ DryRun(q)
  \/ InsertRequested(q)
  \/ ReadWallClock(q)
  \/ LockProfessional(q)
  \/ LockResource(q)
  \/ CheckProfessional(q)
  \/ CheckResource(q)
  \/ ReturnVerdict(q)
  \/ SaveScheduled(q)
  \/ SaveApproved(q)
  \/ SaveRescheduled(q)
  \/ Gate(q)
  \/ AnswerTooEarly(q)
  \/ WriteTransition(q)
  \/ RejectedByTrigger(q)

Fail(q) == Refuse(q) \/ Abort(q)

Next == Tick \/ \E q \in Requests : Receive(q) \/ Proceed(q) \/ Fail(q)

Spec == Init /\ [][Next]_vars

\* The event loop and Postgres run every handler that can go on.  Nothing is
\* assumed of Receive, Fail and Tick: no request need arrive, no statement need
\* fail and no clock need advance.
Fairness == \A q \in Requests : WF_vars(Proceed(q))

FairSpec == Spec /\ Fairness

----------------------------------------------------------------------------
(* Properties *)

\* The shape of every variable.
TypeOK ==
  /\ appt \in [Ids -> Appointment \cup {NoRow}]
  /\ charges \in [Ids -> Seq(Prices)]
  /\ overrideAudit \subseteq [id: Ids, op: Ops, actor: Staff \cup {Nobody}]
  /\ vetted \subseteq Ids
  /\ lock \in [LockKeys -> Requests \cup {Free}]
  /\ pc \in [Requests -> Steps]
  /\ job \in [Requests -> Job \cup {NoJob}]
  /\ verdict \in [Requests -> BOOLEAN]
  /\ now \in 0 .. MaxNow

\* No silent double booking.  Two open appointments that share a professional
\* or a room and overlap, both placed by a recheck of that very placement: one
\* of them is marked as a sobreturno.  It is what the advisory locks taken
\* before the recheck are for (recheckConflictsInTx, saveWithConflictRecheck),
\* whatever requests, approvals, moves and transitions run meanwhile.
VettedClashIsForced ==
  \A i, j \in vetted :
    /\ i # j
    /\ IsOpen(appt[i]) /\ IsOpen(appt[j])
    /\ Clash(appt[i].at, appt[j].at)
    => appt[i].override \/ appt[j].override

\* A sobreturno names who forced it, on the row and in the audit trail, also
\* after later approvals and moves of the same row rewrote those columns.
OverrideIsAttributed ==
  \A i \in Ids : appt[i] # NoRow /\ appt[i].override =>
    \E e \in overrideAudit : e.id = i /\ e.actor = appt[i].actor /\ e.actor # Nobody

\* A completed appointment carries exactly one session charge and no other
\* carries any, though the handlers that complete, cancel or mark it absent
\* checked a row that others may have changed since.
BilledOnce ==
  \A i \in Ids : Len(charges[i]) = IF appt[i].state = "completed" THEN 1 ELSE 0

\* No handler leaves an advisory lock behind, and a handler that rechecks or
\* saves still holds the locks of the owners it is about to write.
LocksMatchHandlers ==
  /\ \A k \in LockKeys : lock[k] # Free => pc[lock[k]] \in InTx \ {"lockProf"}
  /\ \A q \in Requests :
       /\ pc[q] \in InTx \ {"lockProf"} => lock[ProfKey(job[q].at.prof)] = q
       /\ pc[q] \in HasLocks /\ job[q].at.res # NoResource
            => lock[ResKey(job[q].at.res)] = q

\* What a handler's rechecks, as far as it has made them, say of a row.
Rechecked(q, row) ==
  IsOpen(row) /\ Overlap(row.at, job[q].at) =>
    /\ row.at.prof # job[q].at.prof
    /\ pc[q] = "save" => ~SameResource(row.at, job[q].at)

\* What a handler concluded from its recheck is still true when it saves: while
\* it goes on without a conflict, no other open and vetted appointment of its
\* professional, and past the second recheck none of its room, overlaps it.
RecheckStillHolds ==
  \A q \in Requests : pc[q] \in {"checkRes", "save"} /\ ~verdict[q] =>
    \A i \in vetted \ {job[q].id} : Rechecked(q, appt[i])

\* A closed appointment never comes back and never changes how it closed, even
\* when the handler that writes loaded it while it was still open.
TerminalStays ==
  [][\A i \in Ids : appt[i].state \in TerminalStates
       => appt'[i].state = appt[i].state]_vars

\* Every request the server starts on is answered: the lock order leaves no
\* cycle of waiting handlers, and it needs no timeout to be broken.
EveryRequestIsAnswered ==
  \A q \in Requests : pc[q] # "idle" ~> pc[q] = "done"

----------------------------------------------------------------------------
(* Implementation and induction *)

\* The handlers, interleaved, do what the atomic agenda promises.
Promise ==
  INSTANCE Agenda WITH appt <- appt, charges <- charges,
                       overrideAudit <- overrideAudit, vetted <- vetted
ImplementsAgenda == Promise!Spec

\* Which steps a handler of each kind goes through.
StepsOf ==
  [request |-> {"dryRun", "insert"}, schedule |-> InTx,
   approve |-> InTx \cup {"wallClock"}, reschedule |-> InTx,
   transition |-> {"gate", "write"}]

\* A handler is at a step of its own operation, on a stored row (or on the row
\* it is about to insert); a row a request inserts is there only once it ended.
HandlerKnows(q) ==
  /\ appt[q] # NoRow => pc[q] = "done"
  /\ pc[q] \notin {"idle", "done"} =>
       /\ job[q] \in Job
       /\ pc[q] \in StepsOf[job[q].op]
       /\ IF job[q].op \in {"request", "schedule"}
          THEN job[q].id = q
          ELSE appt[job[q].id] # NoRow
       /\ job[q].op \in {"approve", "transition"} => job[q].seen # NoRow
       /\ job[q].op = "transition" => ValidTransition(job[q].seen.state, job[q].to)
       /\ job[q].op \in {"schedule", "approve"} => job[q].to = "scheduled"
       /\ job[q].op \in {"schedule", "approve", "reschedule"} => job[q].actor # Nobody

HandlersKnowTheirRows == \A q \in Requests : HandlerKnows(q)

\* A vetted placement belongs to a stored row.
VettedRowsExist == \A i \in vetted : appt[i] # NoRow

\* The inductive invariant of the proofs (BookingProofs).
IndInv ==
  /\ TypeOK
  /\ HandlersKnowTheirRows
  /\ VettedRowsExist
  /\ LocksMatchHandlers
  /\ RecheckStillHolds
  /\ BilledOnce
  /\ OverrideIsAttributed

----------------------------------------------------------------------------
(* What the documents promise and stale reads break.  Each is checked by a    *)
(* run that shows how; README.md tells the stories.                           *)

\* FEATURES.md F10.11: every overlap that is saved was confirmed by staff.
\* VettedClashIsForced without the restriction to vetted placements.
NoSilentOverlap ==
  \A i, j \in Ids :
    /\ i # j
    /\ appt[i].state = "scheduled" /\ appt[j].state = "scheduled"
    /\ Clash(appt[i].at, appt[j].at)
    => appt[i].override \/ appt[j].override

\* FEATURES.md F9.21: on a closed appointment only the staff note changes.
TerminalFrozen ==
  [][\A i \in Ids : appt[i].state \in TerminalStates
       => appt'[i].at = appt[i].at /\ appt'[i].price = appt[i].price]_vars

\* FEATURES.md F9.19: completing charges the session at the price frozen on the
\* row.  Of the charge as it is written: no later move can break it.
ChargedAtRowPrice ==
  [][\A i \in Ids : charges'[i] # charges[i]
       => charges'[i] = <<appt[i].price>>]_vars

=============================================================================
