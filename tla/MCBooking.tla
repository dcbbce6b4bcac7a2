------------------------------ MODULE MCBooking ------------------------------
(***************************************************************************)
(* Small instances of Booking.                                             *)
(***************************************************************************)
EXTENDS Booking, TLC

CONSTANTS p1, p2, r1, s1, a, b, q1, q2, q3

Row(state, prof, res, start, dur, price) ==
  [state |-> state, at |-> [prof |-> prof, res |-> res, start |-> start, dur |-> dur],
   price |-> price, override |-> FALSE, actor |-> Nobody]

Stored(rows) == [i \in Ids |-> IF i \in DOMAIN rows THEN rows[i] ELSE NoRow]

CheapPrice == CHOOSE p \in Prices : \A q \in Prices : p <= q

\* One pending request of a client.
OnePending == {Stored(a :> Row("requested", p1, NoResource, 0, 1, CheapPrice))}

\* One confirmed appointment in a room.
OneInRoom == {Stored(b :> Row("scheduled", p2, r1, 0, 1, CheapPrice))}

\* The same without a room.
OneBooked == {Stored(a :> Row("scheduled", p1, NoResource, 0, 1, CheapPrice))}

\* Requests differ only by name: of the orders in which they start, one stands
\* for all in a safety run.
StartInOrder == /\ pc[q2] # "idle" => pc[q1] # "idle"
                /\ pc[q3] # "idle" => pc[q2] # "idle"

=============================================================================
