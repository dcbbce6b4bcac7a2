----------------------------- MODULE BookingProofs -----------------------------
(***************************************************************************)
(* Proofs about the booking handlers, for every set of professionals,      *)
(* rooms, instants, stored appointments and concurrent requests.           *)
(*                                                                         *)
(* Everything rests on one inductive invariant, IndInv of Booking.  The    *)
(* lemmas below take its conjuncts one at a time, each over all actions;   *)
(* then the theorems follow from it.                                       *)
(***************************************************************************)
EXTENDS Booking, TLAPS

----------------------------------------------------------------------------
(* Appointments, their states and their overlaps *)

\* The end-exclusive overlap test (detectOverlap) and the sharing of an owner do
\* not depend on which of the two appointments was there first.
LEMMA ClashSymmetric ==
  ASSUME NEW x, NEW y, Clash(x, y) PROVE Clash(y, x)
  BY DEF Clash, Overlap, SameResource

\* The six states, split: an appointment is open or terminal.
LEMMA StatesSplit ==
  /\ OpenStates = {"requested", "scheduled"}
  /\ TerminalStates = {"completed", "canceled", "no_show", "rejected"}
  BY DEF OpenStates, TerminalStates, TransitionMap, AppointmentStates

\* A row that is open, or has a state of its own, is a stored appointment.
LEMMA RowIsAppointment ==
  ASSUME NEW row \in Appointment \cup {NoRow}, row # NoRow
  PROVE  /\ row \in Appointment
         /\ row.at \in Placement /\ row.price \in Prices
         /\ row.override \in BOOLEAN /\ row.state \in AppointmentStates
  BY DEF Appointment

\* NoRow is in no state of the machine.
LEMMA NoRowHasNoState ==
  /\ NoRow.state \notin AppointmentStates
  /\ ~IsOpen(NoRow)
  BY StatesSplit DEF NoRow, AppointmentStates, IsOpen

\* The transition map of the handlers and the trigger of the database agree: the
\* trigger lets exactly the edges of the map through, and writes that keep the
\* state.  The two lists are written down twice, in TypeScript and in SQL.
THEOREM TriggerMatchesMap ==
  ASSUME NEW from \in AppointmentStates, NEW to \in AppointmentStates
  PROVE  TriggerAllows(from, to) <=> from = to \/ ValidTransition(from, to)
  BY StatesSplit DEF TriggerAllows, ValidTransition, TransitionMap, AppointmentStates

----------------------------------------------------------------------------
(* Rows, keys and jobs *)

\* The keys of a placement's owners are keys of the lock table.
LEMMA KeysOfPlacement ==
  ASSUME NEW at \in Placement
  PROVE  /\ ProfKey(at.prof) \in LockKeys
         /\ at.res # NoResource => ResKey(at.res) \in LockKeys
  BY DEF Placement, LockKeys

\* Two owners of a kind have two keys.
LEMMA KeysDiffer ==
  /\ \A x, y : ProfKey(x) = ProfKey(y) => x = y
  /\ \A x, y : ResKey(x) = ResKey(y) => x = y
  BY DEF ProfKey, ResKey

\* Ending a request keeps the handler variables in their types.
LEMMA FinishTypes ==
  ASSUME TypeOK, NEW q \in Requests, Finish(q)
  PROVE  /\ lock' \in [LockKeys -> Requests \cup {Free}]
         /\ pc' \in [Requests -> Steps]
         /\ job' \in [Requests -> Job \cup {NoJob}]
         /\ verdict' \in [Requests -> BOOLEAN]
  BY DEF TypeOK, Finish, Steps

\* So does starting one on a job of the right shape.
LEMMA BeginTypes ==
  ASSUME TypeOK, NEW q \in Requests, NEW j \in Job, NEW step \in Steps,
         Begin(q, j, step)
  PROVE  TypeOK'
  BY DEF TypeOK, Begin, GoTo, calendar

\* A row that is open, or that a handler loaded, is a stored appointment.
LEMMA StoredRow ==
  ASSUME TypeOK, NEW i \in Ids, appt[i] # NoRow \/ appt[i].state \in AppointmentStates
  PROVE  /\ appt[i] \in Appointment
         /\ appt[i].at \in Placement /\ appt[i].price \in Prices
         /\ appt[i].state \in AppointmentStates
  BY RowIsAppointment, NoRowHasNoState DEF TypeOK

\* What a handler that is under way knows.
LEMMA HandlerUnderWay ==
  ASSUME TypeOK, HandlersKnowTheirRows, NEW q \in Requests,
         pc[q] \notin {"idle", "done"}
  PROVE  /\ job[q] \in Job /\ job[q].id \in Ids /\ job[q].at \in Placement
         /\ job[q].price \in Prices /\ job[q].actor \in Staff \cup {Nobody}
         /\ job[q].override \in BOOLEAN /\ job[q].op \in Ops
         /\ pc[q] \in StepsOf[job[q].op]
         /\ pc[q] \in InTx => job[q].actor \in Staff
         /\ job[q].op \in {"approve", "transition"} => job[q].seen \in Appointment
  <1>1. job[q] \in Job /\ pc[q] \in StepsOf[job[q].op]
    BY DEF HandlersKnowTheirRows, HandlerKnows
  <1>2. pc[q] \in InTx => job[q].op \in {"schedule", "approve", "reschedule"}
    BY <1>1 DEF StepsOf, InTx, Job, Ops
  <1>3. job[q].op \in {"approve", "transition"} => job[q].seen # NoRow
    BY DEF HandlersKnowTheirRows, HandlerKnows
  <1>4. job[q].op \in {"schedule", "approve", "reschedule"} => job[q].actor # Nobody
    BY DEF HandlersKnowTheirRows, HandlerKnows
  <1>5. QED BY <1>1, <1>2, <1>3, <1>4 DEF Job

\* A handler that may save knows a staff member, a placement and the row to write.
LEMMA SaverKnows ==
  ASSUME TypeOK, HandlersKnowTheirRows, NEW q \in Requests, NEW op \in Ops,
         MaySave(q, op)
  PROVE  /\ pc[q] = "save" /\ job[q].op = op
         /\ job[q] \in Job /\ job[q].id \in Ids /\ job[q].at \in Placement
         /\ job[q].price \in Prices /\ job[q].actor \in Staff
         /\ Forced(q) \in BOOLEAN
         /\ op = "approve" => job[q].seen \in Appointment
         /\ IF op \in {"request", "schedule"} THEN job[q].id = q
                                              ELSE appt[job[q].id] \in Appointment
<1>1. pc[q] = "save" /\ job[q].op = op
  BY DEF MaySave
<1>2. pc[q] \in InTx
  BY <1>1 DEF InTx
<1>3. Forced(q) \in BOOLEAN
  BY DEF Forced
<1>4. IF op \in {"request", "schedule"} THEN job[q].id = q ELSE appt[job[q].id] # NoRow
  BY <1>1 DEF HandlersKnowTheirRows, HandlerKnows
<1>5. job[q].id \in Ids
  BY <1>1, HandlerUnderWay
<1>6. IF op \in {"request", "schedule"} THEN job[q].id = q
                                        ELSE appt[job[q].id] \in Appointment
  BY <1>4, <1>5, StoredRow
<1>7. QED BY <1>1, <1>2, <1>3, <1>6, HandlerUnderWay

\* So does a handler that is about to write a transition.
LEMMA WriterKnows ==
  ASSUME TypeOK, HandlersKnowTheirRows, NEW q \in Requests, pc[q] = "write"
  PROVE  /\ job[q] \in Job /\ job[q].id \in Ids /\ job[q].to \in AppointmentStates
         /\ job[q].op = "transition"
         /\ job[q].seen \in Appointment /\ appt[job[q].id] \in Appointment
         /\ ValidTransition(job[q].seen.state, job[q].to)
<1>1. /\ job[q] \in Job /\ job[q].id \in Ids /\ job[q].op \in Ops
      /\ pc[q] \in StepsOf[job[q].op]
  BY HandlerUnderWay
<1>2. job[q].op = "transition"
  BY <1>1 DEF StepsOf, InTx, Ops
<1>3. job[q].seen \in Appointment
  BY <1>2, HandlerUnderWay
<1>4. appt[job[q].id] # NoRow /\ ValidTransition(job[q].seen.state, job[q].to)
  BY <1>2 DEF HandlersKnowTheirRows, HandlerKnows
<1>5. appt[job[q].id] \in Appointment
  BY <1>1, <1>4, StoredRow
<1>6. job[q].to \in AppointmentStates
  BY <1>1 DEF Job
<1>7. QED BY <1>1, <1>2, <1>3, <1>4, <1>5, <1>6

\* The audit row of an override has the shape of an audit row.
LEMMA AuditTypes ==
  ASSUME TypeOK, NEW q \in Requests, AuditOverride(q),
         job[q].id \in Ids, job[q].op \in Ops, job[q].actor \in Staff
  PROVE  overrideAudit' \subseteq [id: Ids, op: Ops, actor: Staff \cup {Nobody}]
  BY DEF TypeOK, AuditOverride

----------------------------------------------------------------------------
(* Types *)

\* A job a receiving handler builds has the shape of a job.
LEMMA JobShape ==
  ASSUME NEW op \in Ops, NEW i \in Ids, NEW at \in Placement, NEW price \in Prices,
         NEW override \in BOOLEAN, NEW s \in Staff \cup {Nobody},
         NEW to \in AppointmentStates, NEW seen \in Appointment \cup {NoRow}
  PROVE  [op |-> op, id |-> i, at |-> at, price |-> price, override |-> override,
          actor |-> s, to |-> to, seen |-> seen] \in Job
  BY DEF Job

\* Every step keeps every variable in its type.
LEMMA TypeStep == TypeOK /\ HandlersKnowTheirRows /\ [Next]_vars => TypeOK'
<1> SUFFICES ASSUME TypeOK, HandlersKnowTheirRows, [Next]_vars PROVE TypeOK'
  OBVIOUS
<1>ops. /\ \A op \in {"request", "schedule", "approve", "reschedule", "transition"} : op \in Ops
        /\ \A st \in {"requested", "scheduled", "completed", "canceled"} : st \in AppointmentStates
        /\ \A p \in {"dryRun", "insert", "wallClock", "gate", "write", "done", "lockProf",
                     "lockRes", "checkProf", "checkRes", "save"} : p \in Steps
  BY DEF Ops, AppointmentStates, Steps, InTx
<1>ids. \A q \in Requests : q \in Ids
  BY DEF Ids
<1>1. ASSUME NEW q \in Requests, ReceiveRequest(q) PROVE TypeOK'
  <2>1. PICK at \in Placement, price \in Prices :
          Begin(q, [op |-> "request", id |-> q, at |-> at, price |-> price,
                    override |-> FALSE, actor |-> Nobody, to |-> "requested",
                    seen |-> NoRow], "dryRun")
    BY <1>1 DEF ReceiveRequest
  <2>2. QED BY <2>1, <1>ops, <1>ids, JobShape, BeginTypes
<1>2. ASSUME NEW q \in Requests, ReceiveSchedule(q) PROVE TypeOK'
  <2>1. PICK at \in Placement, price \in Prices, override \in BOOLEAN, s \in Staff :
          Begin(q, [op |-> "schedule", id |-> q, at |-> at, price |-> price,
                    override |-> override, actor |-> s, to |-> "scheduled",
                    seen |-> NoRow], "lockProf")
    BY <1>2 DEF ReceiveSchedule
  <2>2. QED BY <2>1, <1>ops, <1>ids, JobShape, BeginTypes
<1>3. ASSUME NEW q \in Requests, LoadForApprove(q) PROVE TypeOK'
  <2>1. PICK i \in Ids, override \in BOOLEAN, s \in Staff :
          /\ appt[i].state = "requested"
          /\ Begin(q, [op |-> "approve", id |-> i, at |-> appt[i].at,
                       price |-> appt[i].price, override |-> override, actor |-> s,
                       to |-> "scheduled", seen |-> appt[i]], "wallClock")
    BY <1>3 DEF LoadForApprove
  <2>2. appt[i] \in Appointment /\ appt[i].at \in Placement /\ appt[i].price \in Prices
    BY <2>1, <1>ops, StoredRow
  <2>3. QED BY <2>1, <2>2, <1>ops, JobShape, BeginTypes
<1>4. ASSUME NEW q \in Requests, LoadForReschedule(q) PROVE TypeOK'
  <2>1. PICK i \in Ids, at \in Placement, price \in Prices, override \in BOOLEAN, s \in Staff :
          /\ IsOpen(appt[i])
          /\ Begin(q, [op |-> "reschedule", id |-> i, at |-> at, price |-> price,
                       override |-> override, actor |-> s, to |-> appt[i].state,
                       seen |-> NoRow], "lockProf")
    BY <1>4 DEF LoadForReschedule
  <2>2. appt[i].state \in AppointmentStates
    BY <2>1, StatesSplit DEF IsOpen, AppointmentStates
  <2>3. QED BY <2>1, <2>2, <1>ops, JobShape, BeginTypes
<1>5. ASSUME NEW q \in Requests, LoadForTransition(q) PROVE TypeOK'
  <2>1. PICK i \in Ids, to \in AppointmentStates, s \in Staff \cup {Nobody} :
          /\ ValidTransition(appt[i].state, to)
          /\ Begin(q, [op |-> "transition", id |-> i, at |-> appt[i].at,
                       price |-> appt[i].price, override |-> FALSE, actor |-> s,
                       to |-> to, seen |-> appt[i]], "gate")
    BY <1>5 DEF LoadForTransition
  <2>2. appt[i] \in Appointment /\ appt[i].at \in Placement /\ appt[i].price \in Prices
    BY <2>1, StatesSplit, StoredRow DEF ValidTransition, AppointmentStates
  <2>3. QED BY <2>1, <2>2, <1>ops, JobShape, BeginTypes
<1>6. ASSUME NEW q \in Requests, DryRun(q) PROVE TypeOK'
  <2>1. CASE Finish(q)
    BY <2>1, <1>6, FinishTypes DEF DryRun, calendar, TypeOK
  <2>2. CASE GoTo(q, "insert") /\ UNCHANGED <<lock, job, verdict>>
    BY <2>2, <1>6, <1>ops DEF DryRun, GoTo, calendar, TypeOK
  <2>3. QED BY <1>6, <2>1, <2>2 DEF DryRun
<1>7. ASSUME NEW q \in Requests, InsertRequested(q) PROVE TypeOK'
  <2>1. job[q].at \in Placement /\ job[q].price \in Prices
    BY <1>7, HandlerUnderWay DEF InsertRequested
  <2>2. [state |-> "requested", at |-> job[q].at, price |-> job[q].price,
         override |-> FALSE, actor |-> Nobody] \in Appointment
    BY <2>1, <1>ops DEF Appointment
  <2>3. QED BY <2>2, <1>7, <1>ids, FinishTypes DEF InsertRequested, TypeOK
<1>8. ASSUME NEW q \in Requests, ReadWallClock(q) PROVE TypeOK'
  <2>1. job[q] \in Job /\ job[q].id \in Ids /\ job[q].op \in Ops /\ pc[q] \in StepsOf[job[q].op]
    BY <1>8, HandlerUnderWay DEF ReadWallClock
  <2>2. appt[job[q].id] # NoRow
    <3>1. job[q].op \notin {"request", "schedule"}
      BY <2>1, <1>8 DEF ReadWallClock, StepsOf, InTx, Ops
    <3>2. QED BY <1>8, <3>1 DEF ReadWallClock, HandlersKnowTheirRows, HandlerKnows
  <2>3. appt[job[q].id].at.start \in Starts
    BY <2>1, <2>2, StoredRow DEF Placement
  <2>4. [job[q] EXCEPT !.at.start = appt[job[q].id].at.start] \in Job
    BY <2>1, <2>3 DEF Job, Placement
  <2>5. job' = [job EXCEPT ![q] = [job[q] EXCEPT !.at.start = appt[job[q].id].at.start]]
    BY <1>8 DEF ReadWallClock, TypeOK
  <2>6. QED BY <2>4, <2>5, <1>8, <1>ops DEF ReadWallClock, GoTo, calendar, TypeOK
<1>9. ASSUME NEW q \in Requests, LockProfessional(q) PROVE TypeOK'
  BY <1>9, <1>ops DEF LockProfessional, GoTo, calendar, TypeOK
<1>10. ASSUME NEW q \in Requests, LockResource(q) PROVE TypeOK'
  BY <1>10, <1>ops DEF LockResource, GoTo, calendar, TypeOK
<1>11. ASSUME NEW q \in Requests, CheckProfessional(q) PROVE TypeOK'
  BY <1>11, <1>ops, BookingAssumption DEF CheckProfessional, GoTo, calendar, TypeOK
<1>12. ASSUME NEW q \in Requests, CheckResource(q) PROVE TypeOK'
  BY <1>12, <1>ops, BookingAssumption DEF CheckResource, GoTo, calendar, TypeOK
<1>13. ASSUME NEW q \in Requests, ReturnVerdict(q) PROVE TypeOK'
  BY <1>13, FinishTypes DEF ReturnVerdict, calendar, TypeOK
<1>14. ASSUME NEW q \in Requests, SaveScheduled(q) PROVE TypeOK'
  <2>1. /\ job[q].at \in Placement /\ job[q].price \in Prices /\ job[q].actor \in Staff
        /\ job[q].id \in Ids /\ job[q].op \in Ops /\ Forced(q) \in BOOLEAN
    BY <1>14, <1>ops, SaverKnows DEF SaveScheduled
  <2>2. [state |-> "scheduled", at |-> job[q].at, price |-> job[q].price,
         override |-> Forced(q),
         actor |-> IF Forced(q) THEN job[q].actor ELSE Nobody] \in Appointment
    BY <2>1, <1>ops DEF Appointment
  <2>3. appt' \in [Ids -> Appointment \cup {NoRow}]
    BY <2>2, <1>14, <1>ids DEF SaveScheduled, TypeOK
  <2>4. QED
    BY <2>1, <2>3, <1>14, <1>ids, FinishTypes, AuditTypes DEF SaveScheduled, TypeOK
<1>15. ASSUME NEW q \in Requests, SaveApproved(q) PROVE TypeOK'
  <2>1. /\ job[q].at \in Placement /\ job[q].price \in Prices /\ job[q].actor \in Staff
        /\ job[q].id \in Ids /\ job[q].op \in Ops /\ Forced(q) \in BOOLEAN
        /\ job[q].seen \in Appointment /\ appt[job[q].id] \in Appointment
    BY <1>15, <1>ops, SaverKnows DEF SaveApproved
  <2>2. job[q].seen.actor \in Staff \cup {Nobody}
    BY <2>1 DEF Appointment
  <2>3. appt' \in [Ids -> Appointment \cup {NoRow}]
    <3>1. (IF Forced(q) THEN job[q].actor ELSE job[q].seen.actor) \in Staff \cup {Nobody}
      BY <2>1, <2>2
    <3>2. QED BY <3>1, <2>1, <1>15, <1>ops DEF SaveApproved, TypeOK, Appointment
  <2>4. QED
    BY <2>1, <2>3, <1>15, FinishTypes, AuditTypes DEF SaveApproved, TypeOK
<1>16. ASSUME NEW q \in Requests, SaveRescheduled(q) PROVE TypeOK'
  <2>1. /\ job[q].at \in Placement /\ job[q].price \in Prices /\ job[q].actor \in Staff
        /\ job[q].id \in Ids /\ job[q].op \in Ops /\ Forced(q) \in BOOLEAN
        /\ appt[job[q].id] \in Appointment
    BY <1>16, <1>ops, SaverKnows DEF SaveRescheduled
  <2>2. [appt[job[q].id] EXCEPT !.at = job[q].at, !.price = job[q].price,
           !.override = Forced(q),
           !.actor = IF Forced(q) THEN job[q].actor ELSE Nobody] \in Appointment
    BY <2>1 DEF Appointment
  <2>3. appt' \in [Ids -> Appointment \cup {NoRow}]
    BY <2>1, <2>2, <1>16 DEF SaveRescheduled, TypeOK
  <2>4. QED
    BY <2>1, <2>3, <1>16, FinishTypes, AuditTypes DEF SaveRescheduled, TypeOK
<1>17. ASSUME NEW q \in Requests, Gate(q) PROVE TypeOK'
  BY <1>17, <1>ops DEF Gate, GoTo, calendar, TypeOK
<1>18. ASSUME NEW q \in Requests, AnswerTooEarly(q) PROVE TypeOK'
  BY <1>18, FinishTypes DEF AnswerTooEarly, calendar, TypeOK
<1>19. ASSUME NEW q \in Requests, WriteTransition(q) PROVE TypeOK'
  <2>1. job[q].id \in Ids /\ job[q].to \in AppointmentStates
        /\ job[q].seen \in Appointment /\ appt[job[q].id] \in Appointment
    BY <1>19, WriterKnows DEF WriteTransition
  <2>2. [appt[job[q].id] EXCEPT !.state = job[q].to] \in Appointment
    BY <2>1 DEF Appointment
  <2>3. appt' \in [Ids -> Appointment \cup {NoRow}]
    BY <2>1, <2>2, <1>19 DEF WriteTransition, TypeOK
  <2>4. charges' \in [Ids -> Seq(Prices)]
    <3>1. job[q].seen.price \in Prices
      BY <2>1 DEF Appointment
    <3>2. Append(charges[job[q].id], job[q].seen.price) \in Seq(Prices)
      BY <2>1, <3>1 DEF TypeOK
    <3>3. QED BY <2>1, <3>2, <1>19 DEF WriteTransition, TypeOK
  <2>5. QED
    BY <2>3, <2>4, <1>19, FinishTypes DEF WriteTransition, TypeOK
<1>20. ASSUME NEW q \in Requests, RejectedByTrigger(q) PROVE TypeOK'
  BY <1>20, FinishTypes DEF RejectedByTrigger, calendar, TypeOK
<1>21. ASSUME NEW q \in Requests, Fail(q) PROVE TypeOK'
  BY <1>21, FinishTypes DEF Fail, Refuse, Abort, calendar, TypeOK
<1>22. CASE Tick
  BY <1>22, BookingAssumption DEF Tick, calendar, TypeOK
<1>23. CASE UNCHANGED vars
  BY <1>23 DEF vars, TypeOK
<1>24. QED
  BY <1>1, <1>2, <1>3, <1>4, <1>5, <1>6, <1>7, <1>8, <1>9, <1>10, <1>11, <1>12, <1>13,
     <1>14, <1>15, <1>16, <1>17, <1>18, <1>19, <1>20, <1>21, <1>22, <1>23
  DEF Next, Receive, Proceed

----------------------------------------------------------------------------
(* Handlers and their rows *)

\* One handler's step leaves what the others have read and decided alone.
LEMMA OthersStay ==
  ASSUME TypeOK, NEW q \in Requests, Receive(q) \/ Proceed(q) \/ Fail(q),
         NEW r \in Requests \ {q}
  PROVE  pc'[r] = pc[r] /\ job'[r] = job[r] /\ verdict'[r] = verdict[r]
<1> USE DEF TypeOK
<1>1. CASE Receive(q)
  BY <1>1 DEF Receive, ReceiveRequest, ReceiveSchedule, LoadForApprove,
              LoadForReschedule, LoadForTransition, Begin, GoTo
<1>2. CASE Finish(q)
  BY <1>2 DEF Finish
<1>3. CASE Proceed(q) /\ ~Finish(q)
  BY <1>3 DEF Proceed, DryRun, InsertRequested, ReadWallClock, LockProfessional,
              LockResource, CheckProfessional, CheckResource, ReturnVerdict,
              SaveScheduled, SaveApproved, SaveRescheduled, Gate, AnswerTooEarly,
              WriteTransition, RejectedByTrigger, GoTo
<1>4. CASE Fail(q)
  BY <1>4, <1>2 DEF Fail, Refuse, Abort
<1>5. QED BY <1>1, <1>2, <1>3, <1>4

\* The five actions that write the calendar; all others leave it alone.
LEMMA WritesOrQuiet ==
  ASSUME [Next]_vars
  PROVE  \/ UNCHANGED calendar
         \/ \E q \in Requests : \/ InsertRequested(q) \/ SaveScheduled(q)
                                \/ SaveApproved(q) \/ SaveRescheduled(q)
                                \/ WriteTransition(q)
<1>1. ASSUME NEW q \in Requests, Receive(q) \/ Fail(q) PROVE UNCHANGED calendar
  BY <1>1 DEF Receive, ReceiveRequest, ReceiveSchedule, LoadForApprove,
              LoadForReschedule, LoadForTransition, Begin, Fail, Refuse, Abort
<1>2. ASSUME NEW q \in Requests,
             \/ DryRun(q) \/ ReadWallClock(q) \/ LockProfessional(q) \/ LockResource(q)
             \/ CheckProfessional(q) \/ CheckResource(q) \/ ReturnVerdict(q)
             \/ Gate(q) \/ AnswerTooEarly(q) \/ RejectedByTrigger(q)
      PROVE  UNCHANGED calendar
  BY <1>2 DEF DryRun, ReadWallClock, LockProfessional, LockResource, CheckProfessional,
              CheckResource, ReturnVerdict, Gate, AnswerTooEarly, RejectedByTrigger
<1>3. CASE Tick \/ UNCHANGED vars
  BY <1>3 DEF Tick, vars, calendar
<1>4. QED BY <1>1, <1>2, <1>3 DEF Next, Proceed

\* The five writers, row by row: what the written row becomes, and that all other
\* rows stay as they are.
LEMMA InsertedRow ==
  ASSUME TypeOK, HandlersKnowTheirRows, NEW q \in Requests, InsertRequested(q)
  PROVE  /\ q \in Ids /\ appt[q] = NoRow /\ pc'[q] = "done"
         /\ job[q].at \in Placement /\ job[q].price \in Prices
         /\ appt'[q].state = "requested" /\ ~appt'[q].override
         /\ appt' = [appt EXCEPT ![q] = [state |-> "requested", at |-> job[q].at,
                                         price |-> job[q].price, override |-> FALSE,
                                         actor |-> Nobody]]
         /\ \A j \in Ids \ {q} : appt'[j] = appt[j]
<1>1. q \in Ids /\ appt[q] = NoRow
  BY DEF InsertRequested, Ids, HandlersKnowTheirRows, HandlerKnows
<1>2. job[q].at \in Placement /\ job[q].price \in Prices
  BY HandlerUnderWay DEF InsertRequested
<1>3. QED BY <1>1, <1>2 DEF InsertRequested, Finish, TypeOK

\* A schedule inserts the row its handler placed, marked if it was forced.
LEMMA ScheduledRow ==
  ASSUME TypeOK, HandlersKnowTheirRows, NEW q \in Requests, SaveScheduled(q)
  PROVE  /\ q \in Ids /\ job[q].id = q /\ appt[q] = NoRow /\ pc'[q] = "done"
         /\ appt'[q].state = "scheduled" /\ appt'[q].at = job[q].at
         /\ appt'[q].override = Forced(q)
         /\ appt'[q].actor = IF Forced(q) THEN job[q].actor ELSE Nobody
         /\ \A j \in Ids \ {q} : appt'[j] = appt[j]
<1>1. pc[q] = "save" /\ job[q].id = q
  BY SaverKnows DEF SaveScheduled, Ops
<1>2. q \in Ids /\ appt[q] = NoRow
  BY <1>1 DEF Ids, HandlersKnowTheirRows, HandlerKnows
<1>3. QED BY <1>1, <1>2 DEF SaveScheduled, Finish, TypeOK

\* An approval confirms the row it loaded and leaves its placement alone.
LEMMA ApprovedRow ==
  ASSUME TypeOK, HandlersKnowTheirRows, NEW q \in Requests, SaveApproved(q), NEW i,
         i = job[q].id
  PROVE  /\ i \in Ids /\ appt[i] \in Appointment /\ appt[i] # NoRow /\ IsOpen(appt[i])
         /\ appt'[i].state = "scheduled" /\ appt'[i].at = appt[i].at
         /\ appt'[i].override = Forced(q)
         /\ appt'[i].actor = IF Forced(q) THEN job[q].actor ELSE job[q].seen.actor
         /\ \A j \in Ids \ {i} : appt'[j] = appt[j]
<1>1. i \in Ids /\ appt[i] \in Appointment
  BY SaverKnows DEF SaveApproved, Ops
<1>2. appt[i] # NoRow
  BY <1>1, NoRowHasNoState DEF Appointment
<1>3. IsOpen(appt[i])
  BY <1>1, StatesSplit DEF SaveApproved, TriggerAllows, IsOpen
<1>4. QED BY <1>1, <1>2, <1>3 DEF SaveApproved, TypeOK, Appointment

\* A move rewrites placement, price and mark, and keeps the state.
LEMMA RescheduledRow ==
  ASSUME TypeOK, HandlersKnowTheirRows, NEW q \in Requests, SaveRescheduled(q), NEW i,
         i = job[q].id
  PROVE  /\ i \in Ids /\ appt[i] \in Appointment /\ appt[i] # NoRow
         /\ appt'[i].state = appt[i].state /\ appt'[i].at = job[q].at
         /\ appt'[i].override = Forced(q)
         /\ appt'[i].actor = IF Forced(q) THEN job[q].actor ELSE Nobody
         /\ \A j \in Ids \ {i} : appt'[j] = appt[j]
<1>1. i \in Ids /\ appt[i] \in Appointment
  BY SaverKnows DEF SaveRescheduled, Ops
<1>2. appt[i] # NoRow
  BY <1>1, NoRowHasNoState DEF Appointment
<1>3. QED BY <1>1, <1>2 DEF SaveRescheduled, TypeOK, Appointment

\* A transition changes the state of one row and nothing else of it.
LEMMA TransitionedRow ==
  ASSUME TypeOK, HandlersKnowTheirRows, NEW q \in Requests, WriteTransition(q), NEW i,
         i = job[q].id
  PROVE  /\ i \in Ids /\ appt[i] \in Appointment /\ appt[i] # NoRow
         /\ appt'[i].state = job[q].to /\ appt'[i].at = appt[i].at
         /\ job[q].to \in AppointmentStates
         /\ appt'[i].override = appt[i].override /\ appt'[i].actor = appt[i].actor
         /\ job[q].to = appt[i].state \/ ValidTransition(appt[i].state, job[q].to)
         /\ IsOpen(appt'[i]) => IsOpen(appt[i])
         /\ \A j \in Ids \ {i} : appt'[j] = appt[j]
<1>1. /\ i \in Ids /\ appt[i] \in Appointment /\ appt[i].state \in AppointmentStates
      /\ job[q].to \in AppointmentStates
  BY WriterKnows DEF WriteTransition, Appointment
<1>2. appt[i] # NoRow
  BY <1>1, NoRowHasNoState
<1>3. job[q].to = appt[i].state \/ ValidTransition(appt[i].state, job[q].to)
  BY <1>1, TriggerMatchesMap DEF WriteTransition
<1>4. appt'[i].state = job[q].to
  BY <1>1 DEF WriteTransition, TypeOK, Appointment
<1>5. IsOpen(appt'[i]) => IsOpen(appt[i])
  BY <1>3, <1>4 DEF IsOpen, ValidTransition
<1>6. QED BY <1>1, <1>2, <1>3, <1>4, <1>5 DEF WriteTransition, TypeOK, Appointment

\* Rows stay, and the only new ones are those of a request that has just ended.
LEMMA RowsAppear ==
  ASSUME TypeOK, HandlersKnowTheirRows, [Next]_vars, NEW i \in Ids
  PROVE  /\ appt[i] # NoRow => appt'[i] # NoRow
         /\ appt'[i] # NoRow => appt[i] # NoRow \/ (i \in Requests /\ pc'[i] = "done")
<1>row. \A row : row.state \in AppointmentStates => row # NoRow
  BY NoRowHasNoState
<1>st. {"requested", "scheduled"} \subseteq AppointmentStates
  BY DEF AppointmentStates
<1>1. CASE UNCHANGED calendar
  BY <1>1 DEF calendar
<1>2. ASSUME NEW q \in Requests, InsertRequested(q) \/ SaveScheduled(q)
      PROVE  appt'[i] = appt[i] \/ (i = q /\ pc'[i] = "done" /\ appt'[i] # NoRow)
  BY <1>2, <1>row, <1>st, InsertedRow, ScheduledRow
<1>3. ASSUME NEW q \in Requests, SaveApproved(q) \/ SaveRescheduled(q) \/ WriteTransition(q)
      PROVE  appt'[i] = appt[i] \/ (appt[i] # NoRow /\ appt'[i] # NoRow)
  <2>1. CASE SaveApproved(q)
    BY <2>1, <1>row, <1>st, ApprovedRow
  <2>2. CASE SaveRescheduled(q)
    BY <2>2, <1>row, RescheduledRow DEF Appointment
  <2>3. CASE WriteTransition(q)
    BY <2>3, <1>row, TransitionedRow
  <2>4. QED BY <1>3, <2>1, <2>2, <2>3
<1>4. QED BY <1>1, <1>2, <1>3, WritesOrQuiet

\* Every step keeps each handler at a step of its own operation, on a stored row.
LEMMA HandlersStep ==
  TypeOK /\ HandlersKnowTheirRows /\ [Next]_vars => HandlersKnowTheirRows'
<1> SUFFICES ASSUME TypeOK, HandlersKnowTheirRows, [Next]_vars, NEW r \in Requests
             PROVE  HandlerKnows(r)'
  BY DEF HandlersKnowTheirRows
<1> HandlerKnows(r)
  BY DEF HandlersKnowTheirRows
<1>types. TypeOK'
  BY TypeStep
<1>rows. \A i \in Ids :
           /\ appt[i] # NoRow => appt'[i] # NoRow
           /\ appt'[i] # NoRow => appt[i] # NoRow \/ (i \in Requests /\ pc'[i] = "done")
  BY RowsAppear
<1>ids. r \in Ids
  BY DEF Ids
<1>jobs. pc[r] \notin {"idle", "done"} => job[r].id \in Ids
  BY HandlerUnderWay
<1>same. ASSUME pc'[r] = pc[r], job'[r] = job[r]
         PROVE  HandlerKnows(r)'
  BY <1>same, <1>rows, <1>ids, <1>jobs DEF HandlerKnows
<1>fin. ASSUME Finish(r) PROVE HandlerKnows(r)'
  BY <1>fin DEF Finish, HandlerKnows, TypeOK
<1>goto. ASSUME NEW step \in Steps, GoTo(r, step), job' = job,
                pc[r] \notin {"idle", "done"}, step \in StepsOf[job[r].op]
         PROVE  HandlerKnows(r)'
  <2>1. pc'[r] = step /\ pc[r] # "done"
    BY <1>goto DEF GoTo, TypeOK
  <2>2. appt[r] = NoRow
    BY <1>goto DEF HandlerKnows
  <2>3. QED BY <1>goto, <2>1, <2>2, <1>rows, <1>ids, <1>jobs DEF HandlerKnows
<1>begin. ASSUME NEW j \in Job, NEW step \in StepsOf[j.op], Begin(r, j, step),
                 IF j.op \in {"request", "schedule"} THEN j.id = r ELSE appt[j.id] # NoRow,
                 j.op \in {"approve", "transition"} => j.seen # NoRow,
                 j.op = "transition" => ValidTransition(j.seen.state, j.to),
                 j.op \in {"schedule", "approve"} => j.to = "scheduled",
                 j.op \in {"schedule", "approve", "reschedule"} => j.actor # Nobody
          PROVE  HandlerKnows(r)'
  <2>1. pc[r] = "idle" /\ job'[r] = j /\ pc'[r] = step /\ appt' = appt
    BY <1>begin DEF Begin, GoTo, TypeOK, calendar
  <2>2. appt[r] = NoRow
    BY <2>1 DEF HandlerKnows
  <2>3. QED BY <1>begin, <2>1, <2>2 DEF HandlerKnows
<1>ops. /\ {"request", "schedule", "approve", "reschedule", "transition"} = Ops
        /\ {"requested", "scheduled", "canceled"} \subseteq AppointmentStates
        /\ "dryRun" \in StepsOf["request"] /\ "insert" \in StepsOf["request"]
        /\ "lockProf" \in StepsOf["schedule"] /\ "lockProf" \in StepsOf["approve"]
        /\ "lockProf" \in StepsOf["reschedule"] /\ "wallClock" \in StepsOf["approve"]
        /\ "gate" \in StepsOf["transition"] /\ "write" \in StepsOf["transition"]
  BY DEF Ops, AppointmentStates, StepsOf, InTx
<1>steps. /\ {"insert", "lockProf", "lockRes", "checkProf", "checkRes", "save", "write"} \subseteq Steps
          /\ \A op \in {"schedule", "approve", "reschedule"} : InTx \subseteq StepsOf[op]
          /\ pc[r] \notin {"idle", "done"} => pc[r] \in StepsOf[job[r].op] /\ job[r].op \in Ops
  BY HandlerUnderWay DEF Steps, InTx, StepsOf
<1>inTx. pc[r] \in InTx => job[r].op \in {"schedule", "approve", "reschedule"}
  BY <1>steps DEF StepsOf, InTx, Ops
<1>1. ASSUME Receive(r) PROVE HandlerKnows(r)'
  <2>1. CASE ReceiveRequest(r)
    <3>1. PICK at \in Placement, price \in Prices :
            Begin(r, [op |-> "request", id |-> r, at |-> at, price |-> price,
                      override |-> FALSE, actor |-> Nobody, to |-> "requested",
                      seen |-> NoRow], "dryRun")
      BY <2>1 DEF ReceiveRequest
    <3>2. QED BY <3>1, <1>ops, <1>ids, JobShape, <1>begin
  <2>2. CASE ReceiveSchedule(r)
    <3>1. PICK at \in Placement, price \in Prices, override \in BOOLEAN, s \in Staff :
            Begin(r, [op |-> "schedule", id |-> r, at |-> at, price |-> price,
                      override |-> override, actor |-> s, to |-> "scheduled",
                      seen |-> NoRow], "lockProf")
      BY <2>2 DEF ReceiveSchedule
    <3>2. QED BY <3>1, <1>ops, <1>ids, JobShape, <1>begin, TypesAssumption
  <2>3. CASE LoadForApprove(r)
    <3>1. PICK i \in Ids, override \in BOOLEAN, s \in Staff :
            /\ appt[i].state = "requested"
            /\ Begin(r, [op |-> "approve", id |-> i, at |-> appt[i].at,
                         price |-> appt[i].price, override |-> override, actor |-> s,
                         to |-> "scheduled", seen |-> appt[i]], "wallClock")
      BY <2>3 DEF LoadForApprove
    <3>2. appt[i] # NoRow /\ appt[i] \in Appointment /\ appt[i].at \in Placement
          /\ appt[i].price \in Prices
      BY <3>1, <1>ops, StoredRow, NoRowHasNoState
    <3>3. QED BY <3>1, <3>2, <1>ops, JobShape, <1>begin, TypesAssumption
  <2>4. CASE LoadForReschedule(r)
    <3>1. PICK i \in Ids, at \in Placement, price \in Prices, override \in BOOLEAN, s \in Staff :
            /\ IsOpen(appt[i])
            /\ Begin(r, [op |-> "reschedule", id |-> i, at |-> at, price |-> price,
                         override |-> override, actor |-> s, to |-> appt[i].state,
                         seen |-> NoRow], "lockProf")
      BY <2>4 DEF LoadForReschedule
    <3>2. appt[i] # NoRow /\ appt[i].state \in AppointmentStates
      BY <3>1, NoRowHasNoState, StatesSplit DEF IsOpen, AppointmentStates
    <3>3. QED BY <3>1, <3>2, <1>ops, JobShape, <1>begin, TypesAssumption
  <2>5. CASE LoadForTransition(r)
    <3>1. PICK i \in Ids, to \in AppointmentStates, s \in Staff \cup {Nobody} :
            /\ ValidTransition(appt[i].state, to)
            /\ Begin(r, [op |-> "transition", id |-> i, at |-> appt[i].at,
                         price |-> appt[i].price, override |-> FALSE, actor |-> s,
                         to |-> to, seen |-> appt[i]], "gate")
      BY <2>5 DEF LoadForTransition
    <3>2. appt[i].state \in AppointmentStates
      BY <3>1, StatesSplit DEF ValidTransition, AppointmentStates
    <3>3. appt[i] # NoRow /\ appt[i] \in Appointment /\ appt[i].at \in Placement
          /\ appt[i].price \in Prices
      BY <3>2, StoredRow, NoRowHasNoState
    <3>4. QED BY <3>1, <3>3, <1>ops, JobShape, <1>begin
  <2>6. QED BY <1>1, <2>1, <2>2, <2>3, <2>4, <2>5 DEF Receive
<1>2. ASSUME Proceed(r) PROVE HandlerKnows(r)'
  <2>1. CASE Finish(r)
    BY <2>1, <1>fin
  <2>2. CASE DryRun(r) /\ ~Finish(r)
    <3>1. pc[r] = "dryRun" /\ GoTo(r, "insert") /\ job' = job
      BY <2>2 DEF DryRun
    <3>2. job[r].op = "request"
      BY <3>1, <1>steps DEF StepsOf, InTx, Ops
    <3>3. QED BY <3>1, <3>2, <1>ops, <1>steps, <1>goto
  <2>3. CASE ReadWallClock(r)
    <3>1. pc[r] = "wallClock" /\ pc'[r] = "lockProf"
      BY <2>3 DEF ReadWallClock, GoTo, TypeOK
    <3>2. job[r].op = "approve"
      BY <3>1, <1>steps DEF StepsOf, InTx, Ops
    <3>3. job'[r] = [job[r] EXCEPT !.at.start = appt[job[r].id].at.start]
      BY <2>3 DEF ReadWallClock, TypeOK
    <3>4. job[r] \in Job
      BY <3>1, HandlerUnderWay
    <3>5. /\ job'[r].op = job[r].op /\ job'[r].id = job[r].id /\ job'[r].seen = job[r].seen
          /\ job'[r].to = job[r].to /\ job'[r].actor = job[r].actor
      BY <3>3, <3>4 DEF Job
    <3>6. job'[r] \in Job
      <4>1. job'[r] \in Job \cup {NoJob}
        BY <1>types DEF TypeOK
      <4>2. NoJob.op \notin Ops
        BY DEF NoJob, Ops
      <4>3. QED BY <4>1, <4>2, <3>2, <3>5, <1>ops
    <3>7. appt' = appt
      BY <2>3 DEF ReadWallClock, calendar
    <3>8. QED BY <3>1, <3>2, <3>5, <3>6, <3>7, <1>ops DEF HandlerKnows
  <2>4. CASE LockProfessional(r)
    <3>1. PICK step \in {"checkProf", "lockRes"} : GoTo(r, step)
      BY <2>4 DEF LockProfessional
    <3>2. pc[r] = "lockProf" /\ job' = job
      BY <2>4 DEF LockProfessional
    <3>3. QED BY <3>1, <3>2, <1>inTx, <1>steps, <1>goto DEF InTx
  <2>5. CASE LockResource(r)
    <3>1. GoTo(r, "checkProf") /\ pc[r] = "lockRes" /\ job' = job
      BY <2>5 DEF LockResource
    <3>2. QED BY <3>1, <1>inTx, <1>steps, <1>goto DEF InTx
  <2>6. CASE CheckProfessional(r)
    <3>1. PICK step \in {"checkRes", "save"} : GoTo(r, step)
      BY <2>6 DEF CheckProfessional
    <3>2. pc[r] = "checkProf" /\ job' = job
      BY <2>6 DEF CheckProfessional
    <3>3. QED BY <3>1, <3>2, <1>inTx, <1>steps, <1>goto DEF InTx
  <2>7. CASE CheckResource(r)
    <3>1. GoTo(r, "save") /\ pc[r] = "checkRes" /\ job' = job
      BY <2>7 DEF CheckResource
    <3>2. QED BY <3>1, <1>inTx, <1>steps, <1>goto DEF InTx
  <2>8. CASE Gate(r)
    <3>1. GoTo(r, "write") /\ pc[r] = "gate" /\ job' = job
      BY <2>8 DEF Gate
    <3>2. job[r].op = "transition"
      BY <3>1, <1>steps DEF StepsOf, InTx, Ops
    <3>3. QED BY <3>1, <3>2, <1>ops, <1>steps, <1>goto
  <2>9. QED
    BY <1>2, <2>1, <2>2, <2>3, <2>4, <2>5, <2>6, <2>7, <2>8
    DEF Proceed, InsertRequested, ReturnVerdict, SaveScheduled, SaveApproved,
        SaveRescheduled, AnswerTooEarly, WriteTransition, RejectedByTrigger
<1>3. ASSUME Fail(r) PROVE HandlerKnows(r)'
  BY <1>3, <1>fin DEF Fail, Refuse, Abort
<1>4. ASSUME NEW q \in Requests \ {r}, Receive(q) \/ Proceed(q) \/ Fail(q)
      PROVE  HandlerKnows(r)'
  BY <1>4, OthersStay, <1>same
<1>5. CASE Tick \/ UNCHANGED vars
  BY <1>5, <1>same DEF Tick, vars
<1>6. QED BY <1>1, <1>2, <1>3, <1>4, <1>5 DEF Next

\* Every step keeps checked ids stored.
LEMMA VettedRowsStep ==
  TypeOK /\ HandlersKnowTheirRows /\ VettedRowsExist /\ [Next]_vars => VettedRowsExist'
<1> SUFFICES ASSUME TypeOK, HandlersKnowTheirRows, VettedRowsExist, [Next]_vars,
                    NEW i \in vetted'
             PROVE  appt'[i] # NoRow
  BY DEF VettedRowsExist
<1>1. CASE i \in vetted
  BY <1>1, RowsAppear DEF VettedRowsExist, TypeOK
<1>2. CASE i \notin vetted
  <2>1. PICK q \in Requests : \/ InsertRequested(q) \/ SaveScheduled(q)
                              \/ SaveApproved(q) \/ SaveRescheduled(q)
                              \/ WriteTransition(q)
    BY <1>2, WritesOrQuiet DEF calendar
  <2>2. CASE SaveScheduled(q)
    <3>1. i = q
      BY <1>2, <2>2 DEF SaveScheduled
    <3>2. QED BY <3>1, <2>2, ScheduledRow DEF NoRow
  <2>3. CASE SaveApproved(q)
    <3>1. i = job[q].id
      BY <1>2, <2>3 DEF SaveApproved
    <3>2. QED BY <3>1, <2>3, ApprovedRow DEF NoRow
  <2>4. CASE SaveRescheduled(q)
    <3>1. i = job[q].id
      BY <1>2, <2>4 DEF SaveRescheduled
    <3>2. QED BY <3>1, <2>4, RescheduledRow, NoRowHasNoState DEF Appointment
  <2>5. CASE InsertRequested(q) \/ WriteTransition(q)
    BY <1>2, <2>5 DEF InsertRequested, WriteTransition
  <2>6. QED BY <2>1, <2>2, <2>3, <2>4, <2>5
<1>3. QED BY <1>1, <1>2

----------------------------------------------------------------------------
(* Billing and attribution *)

\* Every step keeps completed appointments charged once, the others never.
LEMMA BilledStep ==
  TypeOK /\ HandlersKnowTheirRows /\ BilledOnce /\ [Next]_vars => BilledOnce'
<1> SUFFICES ASSUME TypeOK, HandlersKnowTheirRows, BilledOnce, [Next]_vars, NEW i \in Ids
             PROVE  Len(charges'[i]) = IF appt'[i].state = "completed" THEN 1 ELSE 0
  BY DEF BilledOnce
<1>i. /\ charges[i] \in Seq(Prices)
      /\ Len(charges[i]) = IF appt[i].state = "completed" THEN 1 ELSE 0
  BY DEF TypeOK, BilledOnce
<1>same. ASSUME charges' = charges,
                appt'[i].state = "completed" <=> appt[i].state = "completed"
         PROVE  Len(charges'[i]) = IF appt'[i].state = "completed" THEN 1 ELSE 0
  BY <1>same, <1>i
<1>1. CASE UNCHANGED calendar
  BY <1>1, <1>same DEF calendar
<1>2. ASSUME NEW q \in Requests, InsertRequested(q) \/ SaveScheduled(q)
      PROVE  Len(charges'[i]) = IF appt'[i].state = "completed" THEN 1 ELSE 0
  <2>1. charges' = charges
    BY <1>2 DEF InsertRequested, SaveScheduled
  <2>2. NoRow.state # "completed"
    BY DEF NoRow
  <2>3. QED BY <2>1, <2>2, <1>2, <1>same, InsertedRow, ScheduledRow
<1>3. ASSUME NEW q \in Requests, SaveApproved(q)
      PROVE  Len(charges'[i]) = IF appt'[i].state = "completed" THEN 1 ELSE 0
  <2>1. charges' = charges
    BY <1>3 DEF SaveApproved
  <2>2. appt'[i].state = "completed" <=> appt[i].state = "completed"
    BY <1>3, ApprovedRow, StatesSplit DEF IsOpen
  <2>3. QED BY <2>1, <2>2, <1>same
<1>4. ASSUME NEW q \in Requests, SaveRescheduled(q)
      PROVE  Len(charges'[i]) = IF appt'[i].state = "completed" THEN 1 ELSE 0
  <2>1. charges' = charges
    BY <1>4 DEF SaveRescheduled
  <2>2. QED BY <2>1, <1>4, RescheduledRow, <1>same
<1>5. ASSUME NEW q \in Requests, WriteTransition(q)
      PROVE  Len(charges'[i]) = IF appt'[i].state = "completed" THEN 1 ELSE 0
  <2>1. CASE i # job[q].id
    <3>1. appt'[i] = appt[i]
      BY <2>1, <1>5, TransitionedRow
    <3>2. charges'[i] = charges[i]
      BY <2>1, <1>5 DEF WriteTransition, TypeOK
    <3>3. QED BY <3>1, <3>2, <1>i
  <2>2. CASE i = job[q].id
    <3>1. /\ appt'[i].state = job[q].to
          /\ job[q].to = appt[i].state \/ ValidTransition(appt[i].state, job[q].to)
      BY <2>2, <1>5, TransitionedRow
    <3>2. job[q].seen.price \in Prices
      BY <1>5, WriterKnows DEF WriteTransition, Appointment
    <3>3. ValidTransition(appt[i].state, job[q].to) => appt[i].state # "completed"
      BY StatesSplit DEF ValidTransition
    <3>4. CASE job[q].to = "completed" /\ charges[i] = <<>>
      <4>1. charges'[i] = Append(charges[i], job[q].seen.price)
        BY <3>4, <2>2, <1>5 DEF WriteTransition, TypeOK
      <4>2. QED BY <4>1, <3>1, <3>2, <3>4, <1>i
    <3>5. CASE ~(job[q].to = "completed" /\ charges[i] = <<>>)
      <4>1. charges'[i] = charges[i]
        BY <3>5, <2>2, <1>5 DEF WriteTransition, TypeOK
      <4>2. charges[i] # <<>> => Len(charges[i]) # 0
        BY <1>i
      <4>3. QED BY <4>1, <4>2, <3>1, <3>3, <3>5, <1>i
    <3>6. QED BY <3>4, <3>5
  <2>3. QED BY <2>1, <2>2
<1>6. QED BY <1>1, <1>2, <1>3, <1>4, <1>5, WritesOrQuiet

\* What the audit trail has to hold about one row.
Attributed(i) ==
  appt[i] # NoRow /\ appt[i].override =>
    \E e \in overrideAudit : e.id = i /\ e.actor = appt[i].actor /\ e.actor # Nobody

\* Every step keeps overrides attributed.
LEMMA OverrideStep ==
  TypeOK /\ HandlersKnowTheirRows /\ OverrideIsAttributed /\ [Next]_vars
    => OverrideIsAttributed'
<1> SUFFICES ASSUME TypeOK, HandlersKnowTheirRows, OverrideIsAttributed, [Next]_vars,
                    NEW i \in Ids
             PROVE  Attributed(i)'
  BY DEF OverrideIsAttributed, Attributed
<1> Attributed(i)
  BY DEF OverrideIsAttributed, Attributed
<1>same. ASSUME appt[i] # NoRow, appt'[i].override = appt[i].override,
                appt'[i].actor = appt[i].actor, overrideAudit \subseteq overrideAudit'
         PROVE  Attributed(i)'
  BY <1>same DEF Attributed
<1>kept. ASSUME appt'[i] = appt[i], overrideAudit \subseteq overrideAudit'
         PROVE  Attributed(i)'
  BY <1>kept DEF Attributed
<1>save. ASSUME NEW q \in Requests, NEW op \in Ops, MaySave(q, op), AuditOverride(q),
                i = job[q].id, appt'[i].override = Forced(q),
                Forced(q) => appt'[i].actor = job[q].actor
         PROVE  Attributed(i)'
  <2>1. job[q].actor \in Staff
    BY <1>save, SaverKnows
  <2>2. job[q].actor # Nobody
    BY <2>1, TypesAssumption
  <2>3. Forced(q) => [id |-> job[q].id, op |-> job[q].op, actor |-> job[q].actor] \in overrideAudit'
    BY <1>save DEF AuditOverride
  <2>4. QED BY <1>save, <2>2, <2>3 DEF Attributed
<1>audit. \A q \in Requests : AuditOverride(q) => overrideAudit \subseteq overrideAudit'
  BY DEF AuditOverride
<1>1. CASE UNCHANGED calendar
  BY <1>1, <1>kept DEF calendar
<1>2. ASSUME NEW q \in Requests, InsertRequested(q) PROVE Attributed(i)'
  <2>1. overrideAudit' = overrideAudit
    BY <1>2 DEF InsertRequested
  <2>2. CASE i = q
    BY <2>2, <1>2, InsertedRow DEF Attributed
  <2>3. CASE i # q
    BY <2>1, <2>3, <1>2, <1>kept, InsertedRow
  <2>4. QED BY <2>2, <2>3
<1>3. ASSUME NEW q \in Requests, SaveScheduled(q) PROVE Attributed(i)'
  <2>1. MaySave(q, "schedule") /\ AuditOverride(q) /\ "schedule" \in Ops
    BY <1>3 DEF SaveScheduled, Ops
  <2>2. CASE i = q
    BY <2>1, <2>2, <1>3, <1>save, ScheduledRow
  <2>3. CASE i # q
    BY <2>1, <2>3, <1>3, <1>kept, <1>audit, ScheduledRow
  <2>4. QED BY <2>2, <2>3
<1>4. ASSUME NEW q \in Requests, SaveApproved(q) PROVE Attributed(i)'
  <2>1. MaySave(q, "approve") /\ AuditOverride(q) /\ "approve" \in Ops
    BY <1>4 DEF SaveApproved, Ops
  <2>2. CASE i = job[q].id
    BY <2>1, <2>2, <1>4, <1>save, ApprovedRow
  <2>3. CASE i # job[q].id
    BY <2>1, <2>3, <1>4, <1>kept, <1>audit, ApprovedRow
  <2>4. QED BY <2>2, <2>3
<1>5. ASSUME NEW q \in Requests, SaveRescheduled(q) PROVE Attributed(i)'
  <2>1. MaySave(q, "reschedule") /\ AuditOverride(q) /\ "reschedule" \in Ops
    BY <1>5 DEF SaveRescheduled, Ops
  <2>2. CASE i = job[q].id
    BY <2>1, <2>2, <1>5, <1>save, RescheduledRow
  <2>3. CASE i # job[q].id
    BY <2>1, <2>3, <1>5, <1>kept, <1>audit, RescheduledRow
  <2>4. QED BY <2>2, <2>3
<1>6. ASSUME NEW q \in Requests, WriteTransition(q) PROVE Attributed(i)'
  <2>1. overrideAudit' = overrideAudit
    BY <1>6 DEF WriteTransition
  <2>2. CASE i = job[q].id
    BY <2>1, <2>2, <1>6, <1>same, TransitionedRow
  <2>3. CASE i # job[q].id
    BY <2>1, <2>3, <1>6, <1>kept, TransitionedRow
  <2>4. QED BY <2>2, <2>3
<1>7. QED BY <1>1, <1>2, <1>3, <1>4, <1>5, <1>6, WritesOrQuiet

----------------------------------------------------------------------------
(* Locks *)

\* One handler's step takes no lock another holds, and frees none of another's.
LEMMA OthersLocksStay ==
  ASSUME TypeOK, NEW q \in Requests, Receive(q) \/ Proceed(q) \/ Fail(q),
         NEW k \in LockKeys
  PROVE  /\ lock[k] \in Requests \ {q} => lock'[k] = lock[k]
         /\ lock'[k] \in Requests \ {q} => lock'[k] = lock[k]
<1> USE DEF TypeOK
<1>free. Free \notin Requests
  BY BookingAssumption
<1>1. CASE Finish(q)
  BY <1>1, <1>free DEF Finish
<1>2. CASE LockProfessional(q) \/ LockResource(q)
  BY <1>2, <1>free DEF LockProfessional, LockResource
<1>3. CASE lock' = lock
  BY <1>3
<1>4. Receive(q) => lock' = lock
  BY DEF Receive, ReceiveRequest, ReceiveSchedule, LoadForApprove,
         LoadForReschedule, LoadForTransition, Begin
<1>5. Fail(q) => Finish(q)
  BY DEF Fail, Refuse, Abort
<1>6. Proceed(q) => Finish(q) \/ LockProfessional(q) \/ LockResource(q) \/ lock' = lock
  BY DEF Proceed, DryRun, InsertRequested, ReadWallClock, CheckProfessional,
         CheckResource, ReturnVerdict, SaveScheduled, SaveApproved, SaveRescheduled,
         Gate, AnswerTooEarly, WriteTransition, RejectedByTrigger
<1>7. QED BY <1>1, <1>2, <1>3, <1>4, <1>5, <1>6

\* What one handler knows of its locks.
Locked(q) ==
  /\ pc[q] \in InTx \ {"lockProf"} => lock[ProfKey(job[q].at.prof)] = q
  /\ pc[q] \in HasLocks /\ job[q].at.res # NoResource
       => lock[ResKey(job[q].at.res)] = q

\* Every step keeps the lock table and the handlers in step.
LEMMA LocksStep ==
  TypeOK /\ HandlersKnowTheirRows /\ LocksMatchHandlers /\ [Next]_vars
    => LocksMatchHandlers'
<1> SUFFICES ASSUME TypeOK, HandlersKnowTheirRows, LocksMatchHandlers, [Next]_vars
             PROVE  LocksMatchHandlers'
  OBVIOUS
<1>free. Free \notin Requests
  BY BookingAssumption
<1>in. HasLocks \subseteq InTx \ {"lockProf"}
  BY DEF HasLocks, InTx
<1>keys. \A r \in Requests : pc[r] \in InTx =>
           /\ ProfKey(job[r].at.prof) \in LockKeys
           /\ job[r].at.res # NoResource => ResKey(job[r].at.res) \in LockKeys
  BY HandlerUnderWay, KeysOfPlacement DEF InTx
<1>1. CASE Tick \/ UNCHANGED vars
  BY <1>1 DEF Tick, vars, LocksMatchHandlers
<1>2. ASSUME NEW q \in Requests, Receive(q) \/ Proceed(q) \/ Fail(q)
      PROVE  LocksMatchHandlers'
  <2>types. TypeOK'
    BY TypeStep
  <2>rest. \A r \in Requests \ {q} : Locked(r)'
    <3> SUFFICES ASSUME NEW r \in Requests \ {q} PROVE Locked(r)'
      OBVIOUS
    <3>1. pc'[r] = pc[r] /\ job'[r] = job[r]
      BY <1>2, OthersStay
    <3>2. Locked(r)
      BY DEF LocksMatchHandlers, Locked
    <3>3. \A k \in LockKeys : lock[k] = r => lock'[k] = r
      BY <1>2, OthersLocksStay
    <3>4. QED BY <3>1, <3>2, <3>3, <1>keys, <1>in DEF Locked
  <2>theirs. \A k \in LockKeys : lock'[k] \in Requests \ {q} => pc'[lock'[k]] \in InTx \ {"lockProf"}
    <3> SUFFICES ASSUME NEW k \in LockKeys, lock'[k] \in Requests \ {q}
                 PROVE  pc'[lock'[k]] \in InTx \ {"lockProf"}
      OBVIOUS
    <3>1. lock[k] = lock'[k]
      BY <1>2, OthersLocksStay
    <3>2. pc'[lock[k]] = pc[lock[k]]
      BY <3>1, <1>2, OthersStay
    <3>3. QED BY <3>1, <3>2, <1>free DEF LocksMatchHandlers
  <2>own. ASSUME Locked(q)',
                 \A k \in LockKeys : lock'[k] = q => pc'[q] \in InTx \ {"lockProf"}
          PROVE  LocksMatchHandlers'
    <3>1. \A k \in LockKeys : lock'[k] # Free => pc'[lock'[k]] \in InTx \ {"lockProf"}
      BY <2>own, <2>theirs, <2>types DEF TypeOK
    <3>2. \A r \in Requests : Locked(r)'
      BY <2>own, <2>rest
    <3>3. QED BY <3>1, <3>2 DEF LocksMatchHandlers, Locked
  <2>mine. /\ Locked(q)
           /\ \A k \in LockKeys : lock[k] = q => pc[q] \in InTx \ {"lockProf"}
    BY <1>free DEF LocksMatchHandlers, Locked
  <2>out. ASSUME lock' = lock, pc[q] \notin InTx \ {"lockProf"},
                 pc'[q] \notin InTx \ {"lockProf"}
          PROVE  LocksMatchHandlers'
    BY <2>out, <2>mine, <2>own, <1>in DEF Locked
  <2>1. CASE Receive(q)
    <3>1. PICK step \in {"dryRun", "lockProf", "wallClock", "gate"} :
            pc[q] = "idle" /\ pc'[q] = step /\ lock' = lock
      BY <2>1 DEF Receive, ReceiveRequest, ReceiveSchedule, LoadForApprove,
                  LoadForReschedule, LoadForTransition, Begin, GoTo, TypeOK
    <3>2. QED BY <3>1, <2>out DEF InTx
  <2>2. CASE Finish(q)
    <3>1. pc'[q] = "done" /\ \A k \in LockKeys : lock'[k] # q
      BY <2>2, <1>free DEF Finish, TypeOK
    <3>2. Locked(q)'
      BY <3>1 DEF Locked, InTx, HasLocks
    <3>3. QED BY <3>1, <3>2, <2>own
  <2>3. CASE (DryRun(q) \/ ReadWallClock(q) \/ Gate(q)) /\ ~Finish(q)
    <3>1. /\ pc[q] \in {"dryRun", "wallClock", "gate"}
          /\ pc'[q] \in {"insert", "lockProf", "write"}
          /\ lock' = lock
      BY <2>3 DEF DryRun, ReadWallClock, Gate, GoTo, TypeOK
    <3>2. QED BY <3>1, <2>out DEF InTx
  <2>4. CASE LockProfessional(q)
    <3>0. pc[q] = "lockProf" /\ ProfKey(job[q].at.prof) \in LockKeys
      BY <2>4, <1>keys DEF LockProfessional, InTx
    <3>1. /\ job' = job
          /\ pc'[q] = IF job[q].at.res = NoResource THEN "checkProf" ELSE "lockRes"
          /\ lock'[ProfKey(job[q].at.prof)] = q
      BY <2>4, <3>0 DEF LockProfessional, GoTo, TypeOK
    <3>2. Locked(q)'
      BY <3>1 DEF Locked, HasLocks
    <3>3. pc'[q] \in InTx \ {"lockProf"}
      BY <3>1 DEF InTx
    <3>4. QED BY <3>2, <3>3, <2>own
  <2>5. CASE LockResource(q)
    <3>0. /\ pc[q] = "lockRes" /\ pc[q] \in InTx \ {"lockProf"}
          /\ ProfKey(job[q].at.prof) \in LockKeys
          /\ job[q].at.res # NoResource => ResKey(job[q].at.res) \in LockKeys
      BY <2>5, <1>keys DEF LockResource, InTx
    <3>1. /\ job' = job /\ pc'[q] = "checkProf"
          /\ job[q].at.res # NoResource => lock'[ResKey(job[q].at.res)] = q
      BY <2>5, <3>0 DEF LockResource, GoTo, TypeOK
    <3>2. lock[ProfKey(job[q].at.prof)] = q
      BY <3>0, <2>mine DEF Locked
    <3>3. lock'[ProfKey(job[q].at.prof)] = q
      BY <2>5, <3>0, <3>2 DEF LockResource, TypeOK
    <3>4. Locked(q)'
      BY <3>1, <3>3 DEF Locked
    <3>5. pc'[q] \in InTx \ {"lockProf"}
      BY <3>1 DEF InTx
    <3>6. QED BY <3>4, <3>5, <2>own
  <2>6. CASE CheckProfessional(q) \/ CheckResource(q)
    <3>1. /\ pc[q] \in {"checkProf", "checkRes"} /\ pc'[q] \in {"checkRes", "save"}
          /\ job' = job /\ lock' = lock
      BY <2>6 DEF CheckProfessional, CheckResource, GoTo, TypeOK
    <3>2. pc[q] \in HasLocks /\ pc'[q] \in HasLocks
      BY <3>1 DEF HasLocks
    <3>3. QED BY <3>1, <3>2, <2>mine, <2>own, <1>in DEF Locked
  <2>7. Fail(q) => Finish(q)
    BY DEF Fail, Refuse, Abort
  <2>8. QED
    BY <1>2, <2>1, <2>2, <2>3, <2>4, <2>5, <2>6, <2>7
    DEF Proceed, InsertRequested, ReturnVerdict, SaveScheduled, SaveApproved,
        SaveRescheduled, AnswerTooEarly, WriteTransition, RejectedByTrigger
<1>3. QED BY <1>1, <1>2 DEF Next

----------------------------------------------------------------------------
(* Rechecks *)

\* Two handlers past their locks place appointments of different professionals
\* and in different rooms: a placement one saves cannot spoil the other's recheck.
LEMMA LockedApart ==
  ASSUME TypeOK, HandlersKnowTheirRows, LocksMatchHandlers,
         NEW q \in Requests, NEW r \in Requests, q # r,
         pc[q] = "save", pc[r] \in {"checkRes", "save"}
  PROVE  /\ job[q].at.prof # job[r].at.prof
         /\ ~SameResource(job[q].at, job[r].at)
<1>1. {"checkRes", "save"} \subseteq HasLocks /\ HasLocks \subseteq InTx \ {"lockProf"}
  BY DEF HasLocks, InTx
<1>2. /\ lock[ProfKey(job[q].at.prof)] = q
      /\ lock[ProfKey(job[r].at.prof)] = r
  BY <1>1 DEF LocksMatchHandlers
<1>3. /\ job[q].at.res # NoResource => lock[ResKey(job[q].at.res)] = q
      /\ job[r].at.res # NoResource => lock[ResKey(job[r].at.res)] = r
  BY <1>1 DEF LocksMatchHandlers
<1>4. QED BY <1>2, <1>3 DEF SameResource

\* Every step keeps what the handlers concluded from their rechecks true.
LEMMA RecheckStep ==
  TypeOK /\ HandlersKnowTheirRows /\ VettedRowsExist
    /\ LocksMatchHandlers /\ RecheckStillHolds /\ [Next]_vars
  => RecheckStillHolds'
<1> SUFFICES ASSUME TypeOK, HandlersKnowTheirRows, VettedRowsExist,
                    LocksMatchHandlers, RecheckStillHolds, [Next]_vars,
                    NEW r \in Requests, pc'[r] \in {"checkRes", "save"}, ~verdict'[r],
                    NEW i \in vetted' \ {job'[r].id}
             PROVE  Rechecked(r, appt[i])'
  BY DEF RecheckStillHolds
<1>vetted. vetted \subseteq Ids
  BY DEF TypeOK
<1>still. ASSUME pc[r] \in {"checkRes", "save"}, ~verdict[r],
                 NEW j \in vetted \ {job[r].id}
          PROVE  Rechecked(r, appt[j])
  BY <1>still DEF RecheckStillHolds
<1>1. ASSUME UNCHANGED calendar, pc'[r] = pc[r], job'[r] = job[r], verdict'[r] = verdict[r]
      PROVE  Rechecked(r, appt[i])'
  BY <1>1, <1>still DEF Rechecked, calendar
<1>2. ASSUME NEW q \in Requests \ {r}, Receive(q) \/ Proceed(q) \/ Fail(q)
      PROVE  Rechecked(r, appt[i])'
  <2>1. pc'[r] = pc[r] /\ job'[r] = job[r] /\ verdict'[r] = verdict[r]
    BY <1>2, OthersStay
  <2>2. CASE UNCHANGED calendar
    BY <2>1, <2>2, <1>1
  <2>3. ASSUME i \in vetted, appt'[i] = appt[i]
        PROVE  Rechecked(r, appt[i])'
    BY <2>1, <2>3, <1>still DEF Rechecked
  <2>4. CASE InsertRequested(q)
    <3>1. i \in vetted /\ i # q
      BY <2>4, InsertedRow DEF InsertRequested, VettedRowsExist
    <3>2. QED BY <3>1, <2>3, <2>4, <1>vetted, InsertedRow
  <2>apart. pc[q] = "save" => /\ job[q].at.prof # job[r].at.prof
                              /\ ~SameResource(job[q].at, job[r].at)
    BY <2>1, LockedApart
  <2>moved. ASSUME pc[q] = "save", appt'[i].at = job[q].at
            PROVE  Rechecked(r, appt[i])'
    BY <2>1, <2>moved, <2>apart DEF Rechecked
  <2>5. CASE SaveScheduled(q)
    <3>1. CASE i = q
      <4>1. pc[q] = "save"
        BY <2>5 DEF SaveScheduled, MaySave
      <4>2. appt'[i].at = job[q].at
        BY <3>1, <2>5, ScheduledRow
      <4>3. QED BY <4>1, <4>2, <2>moved
    <3>2. CASE i # q
      BY <3>2, <2>5, <2>3, <1>vetted, ScheduledRow DEF SaveScheduled
    <3>3. QED BY <3>1, <3>2
  <2>6. CASE SaveApproved(q)
    <3>1. CASE i = job[q].id
      <4>1. appt[i].at = job[q].at
        BY <3>1, <2>6 DEF SaveApproved
      <4>2. pc[q] = "save"
        BY <2>6 DEF SaveApproved, MaySave
      <4>3. appt'[i].at = job[q].at
        BY <4>1, <3>1, <2>6, ApprovedRow
      <4>4. QED BY <4>2, <4>3, <2>moved
    <3>2. CASE i # job[q].id
      <4>1. i \in vetted
        BY <3>2, <2>6 DEF SaveApproved
      <4>2. QED BY <4>1, <3>2, <2>6, <2>3, <1>vetted, ApprovedRow
    <3>3. QED BY <3>1, <3>2
  <2>7. CASE SaveRescheduled(q)
    <3>1. CASE i = job[q].id
      <4>1. pc[q] = "save"
        BY <2>7 DEF SaveRescheduled, MaySave
      <4>2. appt'[i].at = job[q].at
        BY <3>1, <2>7, RescheduledRow
      <4>3. QED BY <4>1, <4>2, <2>moved
    <3>2. CASE i # job[q].id
      <4>1. i \in vetted
        BY <3>2, <2>7 DEF SaveRescheduled
      <4>2. QED BY <4>1, <3>2, <2>7, <2>3, <1>vetted, RescheduledRow
    <3>3. QED BY <3>1, <3>2
  <2>8. CASE WriteTransition(q)
    <3>1. i \in vetted
      BY <2>8 DEF WriteTransition
    <3>2. appt'[i].at = appt[i].at /\ (IsOpen(appt'[i]) => IsOpen(appt[i]))
      BY <3>1, <2>8, <1>vetted, TransitionedRow
    <3>3. QED BY <3>1, <3>2, <2>1, <1>still DEF Rechecked
  <2>9. QED
    <3>1. Proceed(q) => \/ UNCHANGED calendar
                        \/ InsertRequested(q) \/ SaveScheduled(q) \/ SaveApproved(q)
                        \/ SaveRescheduled(q) \/ WriteTransition(q)
      BY DEF Proceed, DryRun, ReadWallClock, LockProfessional, LockResource,
             CheckProfessional, CheckResource, ReturnVerdict, Gate, AnswerTooEarly,
             RejectedByTrigger
    <3>2. Receive(q) \/ Fail(q) => UNCHANGED calendar
      BY DEF Receive, ReceiveRequest, ReceiveSchedule, LoadForApprove,
             LoadForReschedule, LoadForTransition, Begin, Fail, Refuse, Abort
    <3>3. QED BY <1>2, <2>2, <2>4, <2>5, <2>6, <2>7, <2>8, <3>1, <3>2
<1>3. ASSUME CheckProfessional(r) PROVE Rechecked(r, appt[i])'
  <2>1. PICK other \in OtherConflicts :
          verdict' = [verdict EXCEPT ![r] = other \/ ProfessionalBusy(job[r])]
    BY <1>3 DEF CheckProfessional
  <2>2. ~ProfessionalBusy(job[r])
    BY <2>1 DEF TypeOK
  <2>3. /\ job' = job /\ appt' = appt /\ vetted' = vetted
        /\ pc'[r] = "save" => job[r].at.res = NoResource
    BY <1>3 DEF CheckProfessional, GoTo, TypeOK, calendar
  <2>4. IsOpen(appt[i]) /\ Overlap(appt[i].at, job[r].at) => appt[i].at.prof # job[r].at.prof
    BY <2>2, <2>3, <1>vetted DEF ProfessionalBusy
  <2>5. QED BY <2>3, <2>4 DEF Rechecked, SameResource
<1>4. ASSUME CheckResource(r) PROVE Rechecked(r, appt[i])'
  <2>1. PICK other \in OtherConflicts :
          verdict' = [verdict EXCEPT ![r] = @ \/ other \/ ResourceBusy(job[r])]
    BY <1>4 DEF CheckResource
  <2>2. ~ResourceBusy(job[r]) /\ ~verdict[r]
    BY <2>1 DEF TypeOK
  <2>3. job' = job /\ appt' = appt /\ vetted' = vetted /\ pc[r] = "checkRes"
    BY <1>4 DEF CheckResource, calendar
  <2>4. IsOpen(appt[i]) /\ Overlap(appt[i].at, job[r].at) => ~SameResource(appt[i].at, job[r].at)
    BY <2>2, <2>3, <1>vetted DEF ResourceBusy
  <2>5. Rechecked(r, appt[i])
    BY <2>2, <2>3, <1>still
  <2>6. QED BY <2>3, <2>4, <2>5 DEF Rechecked
<1>5. ASSUME (Receive(r) \/ Proceed(r) \/ Fail(r)) /\ ~CheckProfessional(r) /\ ~CheckResource(r)
      PROVE  FALSE
  <2>1. ~Finish(r)
    BY DEF Finish, TypeOK
  <2>2. ~Receive(r)
    BY DEF Receive, ReceiveRequest, ReceiveSchedule, LoadForApprove,
           LoadForReschedule, LoadForTransition, Begin, GoTo, TypeOK
  <2>3. QED
    BY <1>5, <2>1, <2>2
    DEF Proceed, Fail, Refuse, Abort, DryRun, InsertRequested, ReadWallClock,
        LockProfessional, LockResource, ReturnVerdict, SaveScheduled, SaveApproved,
        SaveRescheduled, Gate, AnswerTooEarly, WriteTransition, RejectedByTrigger,
        GoTo, TypeOK
<1>6. CASE Tick \/ UNCHANGED vars
  BY <1>6, <1>1 DEF Tick, vars, calendar
<1>7. QED BY <1>2, <1>3, <1>4, <1>5, <1>6 DEF Next

----------------------------------------------------------------------------
(* The theorems *)

\* The stored calendar the model starts from satisfies the invariant.
LEMMA InitIndInv == Init => IndInv
<1> SUFFICES ASSUME Init PROVE IndInv
  OBVIOUS
<1>1. StoredCalendar(appt, Ids) /\ \A q \in Requests : appt[q] = NoRow
  BY BookingAssumption DEF Init
<1>2. TypeOK
  <2>1. <<>> \in Seq(Prices)
    OBVIOUS
  <2>2. now \in 0 .. MaxNow
    BY BookingAssumption DEF Init
  <2>3. pc \in [Requests -> Steps]
    BY DEF Init, Steps
  <2>4. QED BY <1>1, <2>1, <2>2, <2>3 DEF Init, TypeOK, StoredCalendar
<1>3. HandlersKnowTheirRows
  BY <1>1 DEF Init, HandlersKnowTheirRows, HandlerKnows
<1>4. VettedRowsExist
  BY DEF Init, VettedRowsExist, NoRow
<1>5. LocksMatchHandlers
  BY DEF Init, LocksMatchHandlers, InTx, HasLocks
<1>6. RecheckStillHolds
  BY DEF Init, RecheckStillHolds
<1>7. BilledOnce
  <2> SUFFICES ASSUME NEW i \in Ids
               PROVE  Len(charges[i]) = IF appt[i].state = "completed" THEN 1 ELSE 0
    BY DEF BilledOnce
  <2>1. appt[i].state # "completed"
    BY <1>1, StatesSplit DEF StoredCalendar, IsOpen, NoRow
  <2>2. QED BY <2>1 DEF Init
<1>8. OverrideIsAttributed
  BY <1>1 DEF OverrideIsAttributed, StoredCalendar
<1>9. QED BY <1>2, <1>3, <1>4, <1>5, <1>6, <1>7, <1>8 DEF IndInv

\* Every step of the handlers preserves the invariant.
LEMMA NextIndInv == IndInv /\ [Next]_vars => IndInv'
  BY TypeStep, HandlersStep, VettedRowsStep, LocksStep, RecheckStep, BilledStep,
     OverrideStep DEF IndInv

\* The inductive invariant holds of every behaviour of the handlers.
THEOREM BookingInductive == Spec => []IndInv
<1>1. QED BY InitIndInv, NextIndInv, PTL DEF Spec

\* Type correctness of the booking handlers.
THEOREM BookingTypeCorrect == Spec => []TypeOK
<1>1. IndInv => TypeOK
  BY DEF IndInv
<1>2. QED BY <1>1, BookingInductive, PTL

\* A completed appointment is charged exactly once, the others never, however the
\* handlers of POST .../transition interleave.
THEOREM BookingBilledOnce == Spec => []BilledOnce
<1>1. IndInv => BilledOnce
  BY DEF IndInv
<1>2. QED BY <1>1, BookingInductive, PTL

\* Every sobreturno names who forced it, on the row and in the audit trail.
THEOREM BookingOverrideAttributed == Spec => []OverrideIsAttributed
<1>1. IndInv => OverrideIsAttributed
  BY DEF IndInv
<1>2. QED BY <1>1, BookingInductive, PTL

\* What a handler concluded under its advisory locks is still so when it saves.
THEOREM BookingRecheckStillHolds == Spec => []RecheckStillHolds
<1>1. IndInv => RecheckStillHolds
  BY DEF IndInv
<1>2. QED BY <1>1, BookingInductive, PTL

\* No handler keeps an advisory lock past its transaction, and one that rechecks
\* or saves holds the locks of both owners it writes for.
THEOREM BookingLocksMatch == Spec => []LocksMatchHandlers
<1>1. IndInv => LocksMatchHandlers
  BY DEF IndInv
<1>2. QED BY <1>1, BookingInductive, PTL

\* A closed appointment stays closed, and closed the same way.
THEOREM BookingTerminalStays == Spec => TerminalStays
<1> DEFINE Stays == \A i \in Ids : appt[i].state \in TerminalStates
                                    => appt'[i].state = appt[i].state
<1>1. IndInv /\ [Next]_vars => Stays
  <2> SUFFICES ASSUME TypeOK, HandlersKnowTheirRows, [Next]_vars, NEW i \in Ids,
                      appt[i].state \in TerminalStates
               PROVE  appt'[i].state = appt[i].state
    BY DEF IndInv
  <2>1. appt[i] # NoRow /\ ~IsOpen(appt[i])
    BY NoRowHasNoState, StatesSplit DEF IsOpen, TerminalStates
  <2>2. CASE UNCHANGED calendar
    BY <2>2 DEF calendar
  <2>3. ASSUME NEW q \in Requests, InsertRequested(q) \/ SaveScheduled(q)
        PROVE  appt'[i].state = appt[i].state
    BY <2>1, <2>3, InsertedRow, ScheduledRow
  <2>4. ASSUME NEW q \in Requests, SaveApproved(q) \/ SaveRescheduled(q)
        PROVE  appt'[i].state = appt[i].state
    BY <2>1, <2>4, ApprovedRow, RescheduledRow
  <2>5. ASSUME NEW q \in Requests, WriteTransition(q)
        PROVE  appt'[i].state = appt[i].state
    BY <2>1, <2>5, TransitionedRow DEF ValidTransition, IsOpen
  <2>6. QED BY <2>2, <2>3, <2>4, <2>5, WritesOrQuiet
<1>2. QED BY <1>1, BookingInductive, PTL DEF Spec, TerminalStays

----------------------------------------------------------------------------
(* Booking implements Agenda *)

\* The agenda's vocabulary, an instance of AppointmentTypes of its own, is ours.
LEMMA SameWords ==
  /\ Promise!NoRow = NoRow
  /\ Promise!Placement = Placement
  /\ Promise!AppointmentStates = AppointmentStates
  /\ \A c, ids : StoredCalendar(c, ids) <=> Promise!StoredCalendar(c, ids)
  /\ \A row : Promise!IsOpen(row) <=> IsOpen(row)
  /\ \A x, y : Promise!Clash(x, y) <=> Clash(x, y)
  /\ \A x, y : Promise!ValidTransition(x, y) <=> ValidTransition(x, y)
<1>1. Promise!TransitionMap = TransitionMap
  BY DEF Promise!TransitionMap, TransitionMap
<1>2. Promise!OpenStates = OpenStates
  BY <1>1 DEF Promise!OpenStates, OpenStates
<1>3. /\ \A row : Promise!IsOpen(row) <=> IsOpen(row)
      /\ \A x, y : Promise!ValidTransition(x, y) <=> ValidTransition(x, y)
  BY <1>1, <1>2 DEF Promise!IsOpen, IsOpen, Promise!ValidTransition, ValidTransition
<1>4. \A x, y : Promise!Overlap(x, y) <=> Overlap(x, y)
  BY DEF Promise!Overlap, Overlap
<1>5. \A x, y : Promise!SameResource(x, y) <=> SameResource(x, y)
  BY DEF Promise!SameResource, SameResource
<1>6. \A x, y : Promise!Clash(x, y) <=> Clash(x, y)
  BY <1>4, <1>5 DEF Promise!Clash, Clash
<1>7. /\ Promise!NoRow = NoRow
      /\ Promise!Placement = Placement
      /\ Promise!AppointmentStates = AppointmentStates
  BY DEF Promise!NoRow, NoRow, Promise!Placement, Placement,
         Promise!AppointmentStates, AppointmentStates
<1>8. Promise!Appointment = Appointment
  BY <1>7 DEF Promise!Appointment, Appointment
<1>9. \A c, ids : StoredCalendar(c, ids) <=> Promise!StoredCalendar(c, ids)
  BY <1>3, <1>6, <1>7, <1>8, Zenon DEF StoredCalendar, Promise!StoredCalendar
<1>10. QED BY <1>3, <1>6, <1>7, <1>9

\* A handler that saves unmarked found the calendar clear, and it still is.
LEMMA SaveIsClear ==
  ASSUME IndInv, NEW q \in Requests, NEW op \in Ops, MaySave(q, op)
  PROVE  Forced(q) \/ Promise!Clear(job[q].id, job[q].at)
<1> SUFFICES ASSUME ~Forced(q), NEW j \in vetted \ {job[q].id}, IsOpen(appt[j])
             PROVE  ~Clash(appt[j].at, job[q].at)
  BY SameWords DEF Promise!Clear
<1>1. pc[q] = "save" /\ ~verdict[q]
  BY DEF MaySave, Forced
<1>2. Rechecked(q, appt[j])
  BY <1>1 DEF IndInv, RecheckStillHolds
<1>3. QED BY <1>1, <1>2 DEF Rechecked, Clash

\* The audit row and the check of a saving handler are those of the agenda.
LEMMA SaveIsChecked ==
  ASSUME IndInv, NEW q \in Requests, NEW op \in Ops, MaySave(q, op), AuditOverride(q)
  PROVE  Promise!Checked(job[q].id, job[q].at, Forced(q), op, job[q].actor)
<1>1. job[q].op = op
  BY DEF MaySave
<1>2. Forced(q) \/ Promise!Clear(job[q].id, job[q].at)
  BY SaveIsClear
<1>3. QED BY <1>1, <1>2 DEF Promise!Checked, AuditOverride

\* Every step of the handlers is a step of the agenda, or none.
LEMMA StepImplements == IndInv /\ [Next]_vars => [Promise!Next]_(Promise!vars)
<1> SUFFICES ASSUME IndInv, [Next]_vars PROVE Promise!Next \/ UNCHANGED Promise!vars
  OBVIOUS
<1> TypeOK /\ HandlersKnowTheirRows /\ BilledOnce
  BY DEF IndInv
<1>ops. {"schedule", "approve", "reschedule"} \subseteq Ops
  BY DEF Ops
<1>1. CASE UNCHANGED calendar
  BY <1>1 DEF calendar, Promise!vars
<1>2. ASSUME NEW q \in Requests, InsertRequested(q) PROVE Promise!Next
  <2>1. Promise!Request(q, job[q].at, job[q].price)
    BY <1>2, InsertedRow, SameWords DEF InsertRequested, Promise!Request
  <2>2. q \in Ids /\ job[q].at \in Placement /\ job[q].price \in Prices
    BY <1>2, InsertedRow
  <2>3. QED BY <2>1, <2>2, SameWords DEF Promise!Next
<1>3. ASSUME NEW q \in Requests, SaveScheduled(q) PROVE Promise!Next
  <2>1. MaySave(q, "schedule") /\ AuditOverride(q)
    BY <1>3 DEF SaveScheduled
  <2>2. /\ job[q].id = q /\ q \in Ids /\ appt[q] = NoRow
        /\ job[q].at \in Placement /\ job[q].price \in Prices
        /\ Forced(q) \in BOOLEAN /\ job[q].actor \in Staff
    BY <1>3, <2>1, <1>ops, ScheduledRow, SaverKnows
  <2>3. Promise!Checked(q, job[q].at, Forced(q), "schedule", job[q].actor)
    BY <2>1, <2>2, <1>ops, SaveIsChecked
  <2>4. Promise!Schedule(q, job[q].at, job[q].price, Forced(q), job[q].actor)
    BY <1>3, <2>2, <2>3, SameWords DEF SaveScheduled, Promise!Schedule
  <2>5. QED BY <2>2, <2>4, SameWords DEF Promise!Next
<1>4. ASSUME NEW q \in Requests, SaveApproved(q) PROVE Promise!Next
  <2>1. MaySave(q, "approve") /\ AuditOverride(q)
    BY <1>4 DEF SaveApproved
  <2>2. /\ job[q].id \in Ids /\ IsOpen(appt[job[q].id])
        /\ job[q].at \in Placement /\ Forced(q) \in BOOLEAN /\ job[q].actor \in Staff
        /\ job[q].seen.actor \in Staff \cup {Nobody}
    BY <1>4, <2>1, <1>ops, ApprovedRow, SaverKnows DEF Appointment
  <2>3. Promise!Checked(job[q].id, job[q].at, Forced(q), "approve", job[q].actor)
    BY <2>1, <1>ops, SaveIsChecked
  <2>4. Promise!Approve(job[q].id, job[q].at, Forced(q), job[q].actor, job[q].seen.actor)
    BY <1>4, <2>2, <2>3, SameWords DEF SaveApproved, Promise!Approve
  <2>5. QED BY <2>2, <2>4, SameWords DEF Promise!Next
<1>5. ASSUME NEW q \in Requests, SaveRescheduled(q) PROVE Promise!Next
  <2>1. MaySave(q, "reschedule") /\ AuditOverride(q)
    BY <1>5 DEF SaveRescheduled
  <2>2. /\ job[q].id \in Ids /\ appt[job[q].id] # NoRow
        /\ job[q].at \in Placement /\ job[q].price \in Prices
        /\ Forced(q) \in BOOLEAN /\ job[q].actor \in Staff
    BY <1>5, <2>1, <1>ops, RescheduledRow, SaverKnows
  <2>3. Promise!Checked(job[q].id, job[q].at, Forced(q), "reschedule", job[q].actor)
    BY <2>1, <1>ops, SaveIsChecked
  <2>4. Promise!Reschedule(job[q].id, job[q].at, job[q].price, Forced(q), job[q].actor)
    BY <1>5, <2>2, <2>3, SameWords DEF SaveRescheduled, Promise!Reschedule
  <2>5. QED BY <2>2, <2>4, SameWords DEF Promise!Next
<1>6. ASSUME NEW q \in Requests, WriteTransition(q)
      PROVE  Promise!Next \/ UNCHANGED Promise!vars
  <2> DEFINE i == job[q].id
             price == job[q].seen.price
  <2>1. /\ i \in Ids /\ job[q].to \in AppointmentStates
        /\ job[q].to = appt[i].state \/ ValidTransition(appt[i].state, job[q].to)
        /\ appt[i] \in Appointment
    BY <1>6, TransitionedRow
  <2>2. price \in Prices
    BY <1>6, WriterKnows DEF WriteTransition, Appointment
  <2>3. /\ charges[i] \in Seq(Prices)
        /\ Len(charges[i]) = IF appt[i].state = "completed" THEN 1 ELSE 0
    BY <2>1 DEF TypeOK, BilledOnce
  <2>4. UNCHANGED <<overrideAudit, vetted>>
    BY <1>6 DEF WriteTransition
  <2>5. CASE job[q].to = appt[i].state
    <3>1. appt' = appt
      BY <2>1, <2>5, <1>6 DEF WriteTransition, TypeOK, Appointment
    <3>2. ~(job[q].to = "completed" /\ charges[i] = <<>>)
      BY <2>3, <2>5
    <3>3. charges' = charges
      BY <3>2, <1>6 DEF WriteTransition
    <3>4. QED BY <2>4, <3>1, <3>3 DEF Promise!vars
  <2>6. CASE ValidTransition(appt[i].state, job[q].to)
    <3>1. charges[i] = <<>>
      <4>1. appt[i].state # "completed"
        BY <2>6, StatesSplit DEF ValidTransition
      <4>2. QED BY <4>1, <2>3
    <3>2. Append(charges[i], price) = <<price>>
      BY <3>1
    <3>3. charges' = IF job[q].to = "completed" THEN [charges EXCEPT ![i] = <<price>>]
                                                ELSE charges
      BY <3>1, <3>2, <1>6 DEF WriteTransition
    <3>4. Promise!Transition(i, job[q].to, price)
      BY <2>4, <2>6, <3>3, <1>6, SameWords DEF WriteTransition, Promise!Transition
    <3>5. QED BY <2>1, <2>2, <3>4, SameWords DEF Promise!Next
  <2>7. QED BY <2>1, <2>5, <2>6
<1>7. QED BY <1>1, <1>2, <1>3, <1>4, <1>5, <1>6, WritesOrQuiet

\* The interleaved handlers implement the atomic agenda: what the locks are for.
THEOREM BookingImplementsAgenda == Spec => ImplementsAgenda
<1>1. Init => Promise!Init
  <2>1. Init => StoredCalendar(appt, Ids)
    BY BookingAssumption DEF Init
  <2>2. QED BY <2>1, SameWords DEF Init, Promise!Init
<1>2. QED
  BY <1>1, StepImplements, BookingInductive, PTL DEF Spec, ImplementsAgenda, Promise!Spec

----------------------------------------------------------------------------
(* No silent double booking *)

\* What a step that places appointment i has to leave true: i is marked, or no
\* other vetted open row clashes with it; every other row is as it was.
LEMMA PlacedKeepsClashForced ==
  ASSUME TypeOK, VettedClashIsForced, NEW i \in Ids,
         \A j \in Ids \ {i} : appt'[j] = appt[j],
         vetted' \ {i} \subseteq vetted,
         i \in vetted' => appt'[i].override \/ Promise!Clear(i, appt'[i].at)
  PROVE  VettedClashIsForced'
<1> SUFFICES ASSUME NEW j \in vetted', NEW k \in vetted', j # k,
                    IsOpen(appt'[j]), IsOpen(appt'[k]),
                    Clash(appt'[j].at, appt'[k].at)
             PROVE  appt'[j].override \/ appt'[k].override
  BY DEF VettedClashIsForced
<1>ids. vetted' \ {i} \subseteq Ids
  BY DEF TypeOK
<1>clear. ASSUME NEW l \in vetted \ {i}, appt'[l] = appt[l], i \in vetted',
                 IsOpen(appt[l]), Clash(appt[l].at, appt'[i].at)
          PROVE  appt'[i].override
  BY <1>clear, SameWords DEF Promise!Clear
<1>1. CASE j = i
  <2>1. k \in vetted \ {i} /\ appt'[k] = appt[k]
    BY <1>1, <1>ids
  <2>2. Clash(appt[k].at, appt'[i].at)
    BY <1>1, <2>1, ClashSymmetric
  <2>3. QED BY <1>1, <2>1, <2>2, <1>clear
<1>2. CASE k = i
  <2>1. j \in vetted \ {i} /\ appt'[j] = appt[j]
    BY <1>2, <1>ids
  <2>2. QED BY <1>2, <2>1, <1>clear
<1>3. CASE j # i /\ k # i
  <2>1. /\ j \in vetted /\ appt'[j] = appt[j]
        /\ k \in vetted /\ appt'[k] = appt[k]
    BY <1>3, <1>ids
  <2>2. QED BY <2>1 DEF VettedClashIsForced
<1>4. QED BY <1>1, <1>2, <1>3

\* Every step keeps clashes of vetted placements forced.
LEMMA VettedClashStep == IndInv /\ VettedClashIsForced /\ [Next]_vars => VettedClashIsForced'
<1> SUFFICES ASSUME IndInv, VettedClashIsForced, [Next]_vars
             PROVE  VettedClashIsForced'
  OBVIOUS
<1> TypeOK /\ HandlersKnowTheirRows /\ VettedRowsExist
  BY DEF IndInv
<1>vetted. vetted \subseteq Ids
  BY DEF TypeOK
<1>1. CASE UNCHANGED calendar
  BY <1>1 DEF calendar, VettedClashIsForced
<1>2. ASSUME NEW q \in Requests, InsertRequested(q) PROVE VettedClashIsForced'
  <2>1. /\ q \in Ids /\ q \notin vetted /\ vetted' = vetted
        /\ \A j \in Ids \ {q} : appt'[j] = appt[j]
    BY <1>2, InsertedRow DEF InsertRequested, VettedRowsExist
  <2>2. QED BY <2>1, PlacedKeepsClashForced
<1>3. ASSUME NEW q \in Requests, SaveScheduled(q) PROVE VettedClashIsForced'
  <2>1. Forced(q) \/ Promise!Clear(job[q].id, job[q].at)
    BY <1>3, SaveIsClear DEF SaveScheduled, Ops
  <2>2. vetted' \ {q} \subseteq vetted
    BY <1>3 DEF SaveScheduled
  <2>3. QED BY <1>3, <2>1, <2>2, ScheduledRow, PlacedKeepsClashForced
<1>4. ASSUME NEW q \in Requests, SaveApproved(q) PROVE VettedClashIsForced'
  <2>1. Forced(q) \/ Promise!Clear(job[q].id, job[q].at)
    BY <1>4, SaveIsClear DEF SaveApproved, Ops
  <2>2. /\ vetted' \ {job[q].id} \subseteq vetted
        /\ job[q].id \in vetted' => appt[job[q].id].at = job[q].at
    BY <1>4 DEF SaveApproved
  <2>3. QED BY <1>4, <2>1, <2>2, ApprovedRow, PlacedKeepsClashForced
<1>5. ASSUME NEW q \in Requests, SaveRescheduled(q) PROVE VettedClashIsForced'
  <2>1. Forced(q) \/ Promise!Clear(job[q].id, job[q].at)
    BY <1>5, SaveIsClear DEF SaveRescheduled, Ops
  <2>2. vetted' \ {job[q].id} \subseteq vetted
    BY <1>5 DEF SaveRescheduled
  <2>3. QED BY <1>5, <2>1, <2>2, RescheduledRow, PlacedKeepsClashForced
<1>6. ASSUME NEW q \in Requests, WriteTransition(q) PROVE VettedClashIsForced'
  <2>1. \A j \in Ids : /\ appt'[j].at = appt[j].at
                       /\ appt'[j].override = appt[j].override
                       /\ IsOpen(appt'[j]) => IsOpen(appt[j])
    BY <1>6, TransitionedRow
  <2>2. vetted' = vetted
    BY <1>6 DEF WriteTransition
  <2>3. QED BY <2>1, <2>2, <1>vetted DEF VettedClashIsForced
<1>7. QED BY <1>1, <1>2, <1>3, <1>4, <1>5, <1>6, WritesOrQuiet

\* No silent double booking: for every set of professionals, rooms, instants and
\* concurrent requests, two open appointments in a clash whose placements passed
\* the recheck of saveWithConflictRecheck include one marked as a sobreturno.
THEOREM BookingVettedClash == Spec => []VettedClashIsForced
<1>1. Init => VettedClashIsForced
  <2> SUFFICES ASSUME Init PROVE VettedClashIsForced
    OBVIOUS
  <2>1. StoredCalendar(appt, Ids) /\ vetted = {i \in Ids : appt[i].state = "scheduled"}
    BY BookingAssumption DEF Init
  <2>2. QED BY <2>1 DEF StoredCalendar, VettedClashIsForced
<1>2. QED
  BY <1>1, VettedClashStep, BookingInductive, PTL DEF Spec

=============================================================================
