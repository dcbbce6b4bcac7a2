----------------------------- MODULE AgendaProofs -----------------------------
(***************************************************************************)
(* Proofs about the abstract agenda.                                       *)
(***************************************************************************)
EXTENDS Agenda, TLAPS

\* The end-exclusive overlap test (detectOverlap) and the sharing of an owner do
\* not depend on which of the two appointments was there first.
LEMMA ClashSymmetric ==
  ASSUME NEW x, NEW y, Clash(x, y) PROVE Clash(y, x)
  BY DEF Clash, Overlap, SameResource

\* The six states, split: an appointment is open or terminal.
LEMMA StatesSplit ==
  /\ OpenStates = {"requested", "scheduled"}
  /\ TerminalStates = {"completed", "canceled", "no_show", "rejected"}
  BY DEF OpenStates, TerminalStates, TransitionMap, AppointmentStates

\* A row that is open, or has a state of its own, is a stored appointment.
LEMMA RowIsAppointment ==
  ASSUME NEW row \in Appointment \cup {NoRow}, row # NoRow
  PROVE  /\ row \in Appointment
         /\ row.at \in Placement /\ row.price \in Prices
         /\ row.override \in BOOLEAN /\ row.state \in AppointmentStates
  BY DEF Appointment

\* NoRow is in no state of the machine.
LEMMA NoRowHasNoState ==
  /\ NoRow.state \notin AppointmentStates
  /\ ~IsOpen(NoRow)
  BY StatesSplit DEF NoRow, AppointmentStates, IsOpen

\* Every step of the agenda keeps every variable in its type.
LEMMA AgendaTypeStep == TypeOK /\ [Next]_vars => TypeOK'
<1> SUFFICES ASSUME TypeOK, [Next]_vars PROVE TypeOK'
  OBVIOUS
<1>1. ASSUME NEW i \in Ids, NEW at \in Placement, NEW price \in Prices,
             Request(i, at, price)
      PROVE  TypeOK'
  BY <1>1 DEF Request, TypeOK, Appointment, AppointmentStates
<1>2. ASSUME NEW i \in Ids, NEW at \in Placement, NEW price \in Prices,
             NEW forced \in BOOLEAN, NEW s \in Staff,
             Schedule(i, at, price, forced, s)
      PROVE  TypeOK'
  BY <1>2 DEF Schedule, Checked, TypeOK, Appointment, AppointmentStates
<1>3. ASSUME NEW i \in Ids, NEW at \in Placement, NEW price \in Prices,
             NEW forced \in BOOLEAN, NEW s \in Staff,
             Reschedule(i, at, price, forced, s)
      PROVE  TypeOK'
  <2>1. appt[i] \in Appointment
    BY <1>3, RowIsAppointment DEF Reschedule, TypeOK
  <2>2. [appt[i] EXCEPT !.at = at, !.price = price, !.override = forced,
                        !.actor = IF forced THEN s ELSE Nobody] \in Appointment
    BY <2>1 DEF Appointment
  <2>3. QED BY <1>3, <2>1, <2>2 DEF Reschedule, Checked, TypeOK
<1>4. ASSUME NEW i \in Ids, NEW at \in Placement, NEW forced \in BOOLEAN,
             NEW s \in Staff, NEW kept \in Staff \cup {Nobody},
             Approve(i, at, forced, s, kept)
      PROVE  TypeOK'
  <2>1. appt[i] \in Appointment
    BY <1>4, NoRowHasNoState, RowIsAppointment DEF Approve, TypeOK
  <2>2. QED BY <1>4, <2>1 DEF Approve, Checked, TypeOK, Appointment, AppointmentStates
<1>5. ASSUME NEW i \in Ids, NEW to \in AppointmentStates, NEW price \in Prices,
             Transition(i, to, price)
      PROVE  TypeOK'
  <2>1. appt[i] \in Appointment
    BY <1>5, NoRowHasNoState, RowIsAppointment DEF Transition, ValidTransition, TypeOK, IsOpen
  <2>2. <<price>> \in Seq(Prices)
    OBVIOUS
  <2>3. QED BY <1>5, <2>1, <2>2 DEF Transition, TypeOK, Appointment
<1>6. CASE UNCHANGED vars
  BY <1>6 DEF vars, TypeOK
<1>7. QED BY <1>1, <1>2, <1>3, <1>4, <1>5, <1>6 DEF Next

\* Type correctness of the abstract agenda, for every set of ids.
THEOREM AgendaTypeCorrect == Spec => []TypeOK
<1>1. Init => TypeOK
  <2> SUFFICES ASSUME Init PROVE TypeOK
    OBVIOUS
  <2>1. appt \in [Ids -> Appointment \cup {NoRow}]
    BY DEF Init, StoredCalendar
  <2>2. <<>> \in Seq(Prices)
    OBVIOUS
  <2>3. QED BY <2>1, <2>2 DEF Init, TypeOK
<1>2. QED BY <1>1, AgendaTypeStep, PTL DEF Spec

----------------------------------------------------------------------------

\* What a step that places appointment i has to leave true for the calendar to
\* stay free of unmarked clashes: i is marked, or no other checked open row
\* clashes with it; every other row is as it was.
LEMMA PlacedKeepsClashForced ==
  ASSUME TypeOK, VettedClashIsForced, NEW i \in Ids,
         \A j \in Ids \ {i} : appt'[j] = appt[j],
         vetted' \ {i} \subseteq vetted,
         i \in vetted' => appt'[i].override \/ Clear(i, appt'[i].at)
  PROVE  VettedClashIsForced'
<1> SUFFICES ASSUME NEW j \in vetted', NEW k \in vetted', j # k,
                    IsOpen(appt'[j]), IsOpen(appt'[k]),
                    Clash(appt'[j].at, appt'[k].at)
             PROVE  appt'[j].override \/ appt'[k].override
  BY DEF VettedClashIsForced
<1>a. vetted' \ {i} \subseteq Ids
  BY DEF TypeOK
<1>1. CASE j = i
  <2>1. k \in vetted \ {i} /\ appt'[k] = appt[k]
    BY <1>1, <1>a
  <2>2. Clash(appt[k].at, appt'[i].at)
    BY <1>1, <2>1, ClashSymmetric
  <2>3. QED BY <1>1, <2>1, <2>2 DEF Clear
<1>2. CASE k = i
  <2>1. j \in vetted \ {i} /\ appt'[j] = appt[j]
    BY <1>2, <1>a
  <2>2. QED BY <1>2, <2>1 DEF Clear
<1>3. CASE j # i /\ k # i
  <2>1. /\ j \in vetted /\ appt'[j] = appt[j]
        /\ k \in vetted /\ appt'[k] = appt[k]
    BY <1>3, <1>a
  <2>2. QED BY <2>1 DEF VettedClashIsForced
<1>4. QED BY <1>1, <1>2, <1>3

\* A checked placement belongs to a stored row: without it a request inserted
\* under a checked id would bring a placement nobody checked.
VettedExist == \A i \in vetted : appt[i] # NoRow

\* Every step of the agenda keeps checked ids stored.
LEMMA VettedExistStep == TypeOK /\ VettedExist /\ [Next]_vars => VettedExist'
<1> SUFFICES ASSUME TypeOK, VettedExist, [Next]_vars, NEW j \in vetted'
             PROVE  appt'[j] # NoRow
  BY DEF VettedExist
<1> USE DEF TypeOK, VettedExist
<1>1. ASSUME NEW i \in Ids, NEW at \in Placement, NEW price \in Prices,
             Request(i, at, price)
      PROVE  appt'[j] # NoRow
  BY <1>1 DEF Request
<1>2. ASSUME NEW i \in Ids, NEW at \in Placement, NEW price \in Prices,
             NEW forced \in BOOLEAN, NEW s \in Staff,
             Schedule(i, at, price, forced, s)
      PROVE  appt'[j] # NoRow
  <2>1. appt'[i].state = "scheduled"
    BY <1>2 DEF Schedule
  <2>2. appt'[i] # NoRow
    BY <2>1 DEF NoRow
  <2>3. QED BY <1>2, <2>2 DEF Schedule
<1>3. ASSUME NEW i \in Ids, NEW at \in Placement, NEW price \in Prices,
             NEW forced \in BOOLEAN, NEW s \in Staff,
             Reschedule(i, at, price, forced, s)
      PROVE  appt'[j] # NoRow
  <2>1. appt[i] \in Appointment
    BY <1>3, RowIsAppointment DEF Reschedule
  <2>2. appt'[i].state \in AppointmentStates
    BY <1>3, <2>1 DEF Reschedule, Appointment
  <2>3. appt'[i] # NoRow
    BY <2>2, NoRowHasNoState
  <2>4. QED BY <1>3, <2>3 DEF Reschedule
<1>4. ASSUME NEW i \in Ids, NEW at \in Placement, NEW forced \in BOOLEAN,
             NEW s \in Staff, NEW kept \in Staff \cup {Nobody},
             Approve(i, at, forced, s, kept)
      PROVE  appt'[j] # NoRow
  <2>1. appt[i] \in Appointment
    BY <1>4, NoRowHasNoState, RowIsAppointment DEF Approve
  <2>2. appt'[i].state = "scheduled"
    BY <1>4, <2>1 DEF Approve, Appointment
  <2>3. appt'[i] # NoRow
    BY <2>2 DEF NoRow
  <2>4. QED BY <1>4, <2>3 DEF Approve
<1>5. ASSUME NEW i \in Ids, NEW to \in AppointmentStates, NEW price \in Prices,
             Transition(i, to, price)
      PROVE  appt'[j] # NoRow
  <2>1. appt[i] \in Appointment
    BY <1>5, NoRowHasNoState, RowIsAppointment DEF Transition, ValidTransition, IsOpen
  <2>2. appt'[i].state = to
    BY <1>5, <2>1 DEF Transition, Appointment
  <2>3. appt'[i] # NoRow
    BY <2>2, NoRowHasNoState
  <2>4. QED BY <1>5, <2>3 DEF Transition
<1>6. CASE UNCHANGED vars
  BY <1>6 DEF vars
<1>7. QED BY <1>1, <1>2, <1>3, <1>4, <1>5, <1>6 DEF Next

\* Every step of the agenda keeps clashes of checked placements forced.
LEMMA VettedClashStep ==
  TypeOK /\ VettedExist /\ VettedClashIsForced /\ [Next]_vars => VettedClashIsForced'
<1> SUFFICES ASSUME TypeOK, VettedExist, VettedClashIsForced, [Next]_vars
             PROVE  VettedClashIsForced'
  OBVIOUS
<1>1. ASSUME NEW i \in Ids, NEW at \in Placement, NEW price \in Prices,
             Request(i, at, price)
      PROVE  VettedClashIsForced'
  <2>1. i \notin vetted
    BY <1>1 DEF Request, VettedExist
  <2>2. \A j \in Ids \ {i} : appt'[j] = appt[j]
    BY <1>1 DEF Request, TypeOK
  <2>3. QED BY <1>1, <2>1, <2>2, PlacedKeepsClashForced DEF Request
<1>2. ASSUME NEW i \in Ids, NEW at \in Placement, NEW price \in Prices,
             NEW forced \in BOOLEAN, NEW s \in Staff,
             Schedule(i, at, price, forced, s)
      PROVE  VettedClashIsForced'
  <2>1. /\ \A j \in Ids \ {i} : appt'[j] = appt[j]
        /\ vetted' \ {i} \subseteq vetted
        /\ appt'[i].override = forced /\ appt'[i].at = at
    BY <1>2 DEF Schedule, TypeOK
  <2>2. forced \/ Clear(i, at)
    BY <1>2 DEF Schedule, Checked
  <2>3. QED BY <2>1, <2>2, PlacedKeepsClashForced
<1>3. ASSUME NEW i \in Ids, NEW at \in Placement, NEW price \in Prices,
             NEW forced \in BOOLEAN, NEW s \in Staff,
             Reschedule(i, at, price, forced, s)
      PROVE  VettedClashIsForced'
  <2>0. appt[i] \in Appointment
    BY <1>3, RowIsAppointment DEF Reschedule, TypeOK
  <2>1. /\ \A j \in Ids \ {i} : appt'[j] = appt[j]
        /\ vetted' \ {i} \subseteq vetted
        /\ appt'[i].override = forced /\ appt'[i].at = at
    BY <1>3, <2>0 DEF Reschedule, TypeOK, Appointment
  <2>2. forced \/ Clear(i, at)
    BY <1>3 DEF Reschedule, Checked
  <2>3. QED BY <2>1, <2>2, PlacedKeepsClashForced
<1>4. ASSUME NEW i \in Ids, NEW at \in Placement, NEW forced \in BOOLEAN,
             NEW s \in Staff, NEW kept \in Staff \cup {Nobody},
             Approve(i, at, forced, s, kept)
      PROVE  VettedClashIsForced'
  <2>0. appt[i] \in Appointment
    BY <1>4, NoRowHasNoState, RowIsAppointment DEF Approve, TypeOK
  <2>1. /\ \A j \in Ids \ {i} : appt'[j] = appt[j]
        /\ vetted' \ {i} \subseteq vetted
        /\ appt'[i].override = forced /\ appt'[i].at = appt[i].at
    BY <1>4, <2>0 DEF Approve, TypeOK, Appointment
  <2>2. i \in vetted' => appt[i].at = at
    BY <1>4 DEF Approve
  <2>3. forced \/ Clear(i, at)
    BY <1>4 DEF Approve, Checked
  <2>4. QED BY <2>1, <2>2, <2>3, PlacedKeepsClashForced
<1>5. ASSUME NEW i \in Ids, NEW to \in AppointmentStates, NEW price \in Prices,
             Transition(i, to, price)
      PROVE  VettedClashIsForced'
  <2>0. IsOpen(appt[i]) /\ appt[i] \in Appointment
    BY <1>5, NoRowHasNoState, RowIsAppointment
    DEF Transition, ValidTransition, TypeOK, IsOpen
  <2>1. \A j \in Ids : /\ appt'[j].at = appt[j].at
                       /\ appt'[j].override = appt[j].override
                       /\ IsOpen(appt'[j]) => IsOpen(appt[j])
    <3> TAKE j \in Ids
    <3>1. CASE j = i
      BY <1>5, <2>0, <3>1 DEF Transition, TypeOK, Appointment
    <3>2. CASE j # i
      BY <1>5, <3>2 DEF Transition, TypeOK
    <3>3. QED BY <3>1, <3>2
  <2>2. vetted' = vetted /\ vetted \subseteq Ids
    BY <1>5 DEF Transition, TypeOK
  <2>3. QED BY <2>1, <2>2 DEF VettedClashIsForced
<1>6. CASE UNCHANGED vars
  BY <1>6 DEF vars, VettedClashIsForced
<1>7. QED BY <1>1, <1>2, <1>3, <1>4, <1>5, <1>6 DEF Next

\* No silent double booking in the abstract agenda, for every set of ids,
\* professionals, rooms and instants.
THEOREM AgendaVettedClash == Spec => []VettedClashIsForced
<1>1. Init => TypeOK /\ VettedExist /\ VettedClashIsForced
  <2> SUFFICES ASSUME Init PROVE TypeOK /\ VettedExist /\ VettedClashIsForced
    OBVIOUS
  <2>1. StoredCalendar(appt, Ids)
    BY DEF Init
  <2>2. vetted = {i \in Ids : appt[i].state = "scheduled"}
    BY DEF Init
  <2>3. TypeOK
    <3>1. <<>> \in Seq(Prices)
      OBVIOUS
    <3>2. QED BY <2>1, <2>2, <3>1 DEF Init, TypeOK, StoredCalendar
  <2>4. VettedExist
    BY <2>2 DEF VettedExist, NoRow
  <2>5. VettedClashIsForced
    BY <2>1, <2>2 DEF VettedClashIsForced, StoredCalendar
  <2>6. QED BY <2>3, <2>4, <2>5
<1>2. QED
  BY <1>1, AgendaTypeStep, VettedExistStep, VettedClashStep, PTL DEF Spec

=============================================================================
