-------------------------- MODULE AppointmentTypes --------------------------
(***************************************************************************)
(* The vocabulary every module about appointments ("turnos") shares: the   *)
(* states of an appointment and the edges between them, the rows of the    *)
(* appointments table as far as scheduling reads them, and the overlap     *)
(* test of the conflict aggregator.                                        *)
(*                                                                         *)
(* A placement is what the conflict recheck looks at: a professional, an   *)
(* optional resource (room), a start and a duration.  Starts are integers  *)
(* on one time line.  The code compares wall-clock minutes inside one date *)
(* and refuses a booking that would run past midnight, so one line is      *)
(* enough for every placement but one: a booking that ends at 24:00 sharp  *)
(* is accepted and read back as ending at 00:00.  Such placements are left *)
(* out here (see "Not modelled" in README.md).                             *)
(***************************************************************************)
EXTENDS Integers, Sequences

CONSTANTS
  Professionals,  \* ids of users whose role is Professional
  Resources,      \* ids of rooms
  NoResource,     \* the SQL NULL of appointments.resource_id
  Starts,         \* the start instants an appointment may be given
  Durations,      \* the durations an appointment may be given
  Prices,         \* the prices resolveBooking may produce
  Staff,          \* ids of the users who act on appointments
  Nobody          \* the SQL NULL of appointments.override_actor_id

ASSUME TypesAssumption ==
  /\ Starts \subseteq Int
  /\ Durations \subseteq Nat \ {0}
  /\ NoResource \notin Resources
  /\ Nobody \notin Staff

----------------------------------------------------------------------------
(* States and edges *)

AppointmentStates ==
  {"requested", "scheduled", "completed", "canceled", "no_show", "rejected"}

TransitionMap ==
  [requested |-> {"scheduled", "rejected", "canceled"},
   scheduled |-> {"completed", "canceled", "no_show"}]

OpenStates     == DOMAIN TransitionMap
TerminalStates == AppointmentStates \ OpenStates

\* The check of the route handlers, made on the row they loaded.
ValidTransition(from, to) == from \in OpenStates /\ to \in TransitionMap[from]

\* Mutant: a later edge that lets staff correct an absence.
TriggerAllows_Corrections(old, new) ==
  \/ old = new
  \/ old = "requested" /\ new \in {"scheduled", "rejected", "canceled"}
  \/ old \in {"scheduled", "no_show"} /\ new \in {"completed", "canceled", "no_show"}

\* The check of the BEFORE UPDATE trigger, made on the row as it is when the
\* UPDATE runs.  A write that keeps the state passes, whatever the state.
TriggerAllows(old, new) ==
  \/ old = new
  \/ old = "requested" /\ new \in {"scheduled", "rejected", "canceled"}
  \/ old = "scheduled" /\ new \in {"completed", "canceled", "no_show"}

----------------------------------------------------------------------------
(* Rows *)

Placement ==
  [prof: Professionals, res: Resources \cup {NoResource},
   start: Starts, dur: Durations]

Appointment ==
  [state: AppointmentStates, at: Placement, price: Prices,
   override: BOOLEAN, actor: Staff \cup {Nobody}]

NoRow == [state |-> "absent"]

IsOpen(row) == row.state \in OpenStates

----------------------------------------------------------------------------
(* Overlap: end-exclusive intervals, and an owner in common *)

Overlap(a, b) == a.start < b.start + b.dur /\ b.start < a.start + a.dur

SameResource(a, b) == a.res = b.res /\ a.res # NoResource

Clash(a, b) == Overlap(a, b) /\ (a.prof = b.prof \/ SameResource(a, b))

----------------------------------------------------------------------------
(* Calendars that earlier requests can have left: nothing closed, nothing    *)
(* forced, and no two confirmed appointments in a clash.                     *)

StoredCalendar(c, ids) ==
  /\ c \in [ids -> Appointment \cup {NoRow}]
  /\ \A i \in ids : c[i] # NoRow => IsOpen(c[i]) /\ ~c[i].override
  /\ \A i, j \in ids :
       i # j /\ c[i].state = "scheduled" /\ c[j].state = "scheduled"
         => ~Clash(c[i].at, c[j].at)

=============================================================================
