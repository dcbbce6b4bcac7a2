-------------------------------- MODULE Agenda --------------------------------
(***************************************************************************)
(* What the booking endpoints promise about the appointments table, with   *)
(* no handlers, locks, stale reads or clock: every operation is one step,  *)
(* and a step that places an appointment looks at the calendar it changes. *)
(*                                                                         *)
(* Booking implements this specification: its locks make the recheck and   *)
(* the write of a handler, which are several steps apart, act as one.      *)
(***************************************************************************)
EXTENDS AppointmentTypes

CONSTANTS
  Ids,        \* ids an appointment may have
  Calendars   \* the stored calendars the model may start from

VARIABLES
  appt,           \* the appointments table
  charges,        \* per appointment, the amounts of its session charges
  overrideAudit,  \* the conflict_override rows of audit_events
  vetted          \* ids whose placement, as it stands, was checked when saved

vars == <<appt, charges, overrideAudit, vetted>>

\* No other open appointment with a checked placement clashes with at.
Clear(i, at) == \A j \in vetted \ {i} : IsOpen(appt[j]) => ~Clash(appt[j].at, at)

\* A placement is saved unmarked only when it is clear; marked, it names who
\* forced it and leaves an audit row.
Checked(i, at, forced, op, s) ==
  /\ forced \/ Clear(i, at)
  /\ overrideAudit' = IF forced
                      THEN overrideAudit \cup {[id |-> i, op |-> op, actor |-> s]}
                      ELSE overrideAudit

\* A client's request enters the table unchecked against later ones.
Request(i, at, price) ==
  /\ appt[i] = NoRow
  /\ appt' = [appt EXCEPT ![i] = [state |-> "requested", at |-> at, price |-> price,
                                  override |-> FALSE, actor |-> Nobody]]
  /\ UNCHANGED <<charges, overrideAudit, vetted>>

Schedule(i, at, price, forced, s) ==
  /\ appt[i] = NoRow
  /\ Checked(i, at, forced, "schedule", s)
  /\ appt' = [appt EXCEPT ![i] = [state |-> "scheduled", at |-> at, price |-> price,
                                  override |-> forced,
                                  actor |-> IF forced THEN s ELSE Nobody]]
  /\ vetted' = vetted \cup {i}
  /\ UNCHANGED charges

\* The placement checked is the one that was loaded.  When the row has moved
\* meanwhile, its placement is no longer a checked one.
Approve(i, at, forced, s, kept) ==
  /\ IsOpen(appt[i])
  /\ Checked(i, at, forced, "approve", s)
  /\ appt' = [appt EXCEPT ![i].state = "scheduled",
                          ![i].override = forced,
                          ![i].actor = IF forced THEN s ELSE kept]
  /\ vetted' = IF appt[i].at = at THEN vetted \cup {i} ELSE vetted \ {i}
  /\ UNCHANGED charges

Reschedule(i, at, price, forced, s) ==
  /\ appt[i] # NoRow
  /\ Checked(i, at, forced, "reschedule", s)
  /\ appt' = [appt EXCEPT ![i].at = at, ![i].price = price, ![i].override = forced,
                          ![i].actor = IF forced THEN s ELSE Nobody]
  /\ vetted' = vetted \cup {i}
  /\ UNCHANGED charges

\* One edge of the transition map; completing charges the session, once.
Transition(i, to, price) ==
  /\ ValidTransition(appt[i].state, to)
  /\ appt' = [appt EXCEPT ![i].state = to]
  /\ charges' = IF to = "completed" THEN [charges EXCEPT ![i] = <<price>>] ELSE charges
  /\ UNCHANGED <<overrideAudit, vetted>>

Init ==
  /\ appt \in Calendars /\ StoredCalendar(appt, Ids)
  /\ charges = [i \in Ids |-> <<>>]
  /\ overrideAudit = {}
  /\ vetted = {i \in Ids : appt[i].state = "scheduled"}

Next == \E i \in Ids :
  \/ \E at \in Placement, price \in Prices : Request(i, at, price)
  \/ \E at \in Placement, price \in Prices, forced \in BOOLEAN, s \in Staff :
       Schedule(i, at, price, forced, s) \/ Reschedule(i, at, price, forced, s)
  \/ \E at \in Placement, forced \in BOOLEAN, s \in Staff, kept \in Staff \cup {Nobody} :
       Approve(i, at, forced, s, kept)
  \/ \E to \in AppointmentStates, price \in Prices : Transition(i, to, price)

Spec == Init /\ [][Next]_vars

----------------------------------------------------------------------------
(* Properties *)

TypeOK ==
  /\ appt \in [Ids -> Appointment \cup {NoRow}]
  /\ charges \in [Ids -> Seq(Prices)]
  /\ vetted \subseteq Ids

\* No silent double booking.  Two open appointments that share a professional
\* or a room and overlap, both placed by a check of that very placement: one
\* of them is marked as a sobreturno.  It is what the recheck inside the saving
\* transaction is for (saveWithConflictRecheck).
VettedClashIsForced ==
  \A i, j \in vetted :
    /\ i # j
    /\ IsOpen(appt[i]) /\ IsOpen(appt[j])
    /\ Clash(appt[i].at, appt[j].at)
    => appt[i].override \/ appt[j].override

=============================================================================
