-------------------------------- MODULE Server --------------------------------
(***************************************************************************)
(* What the request handlers of every part of the server share.            *)
(***************************************************************************)
EXTENDS Integers, FiniteSets

CONSTANTS
  Handlers,   \* requests the process can have in flight
  Null        \* SQL NULL

=============================================================================
