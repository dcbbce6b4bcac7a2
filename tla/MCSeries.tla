------------------------------- MODULE MCSeries -------------------------------
(***************************************************************************)
(* Small instances of Series.                                              *)
(***************************************************************************)
EXTENDS Series, TLC

CONSTANTS s1, q1, q2, q3

Open     == [kind |-> "open", count |-> 0, until |-> 0]
Count(n) == [kind |-> "count", count |-> n, until |-> 0]
Until(d) == [kind |-> "until", count |-> 0, until |-> d]

Rule(start, interval, time, end) ==
  [start |-> start, interval |-> interval, time |-> time, end |-> end]

TwoRules == {Rule(0, 1, 9, Count(2)), Rule(0, 2, 9, Open)}
OneRule  == {Rule(0, 1, 9, Count(2))}

\* Another time, another end: what the other field is comes from the row read.
SomePatches == {[time |-> 10], [end |-> Until(1)]}

\* Requests differ only by name: of the orders in which they start, one stands
\* for all.
StartInOrder == /\ pc[q2] # "idle" => pc[q1] # "idle"
                /\ pc[q3] # "idle" => pc[q2] # "idle"

=============================================================================
