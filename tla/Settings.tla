------------------------------- MODULE Settings -------------------------------
(***************************************************************************)
(* PATCH of the settings of one business: an Admin sends the cutoff and,   *)
(* if they like, either end of the booking window.  What is left out is    *)
(* taken from the row as it was read, and all of it is written back.       *)
(***************************************************************************)
EXTENDS Server

CONSTANTS
  Days,           \* the day counts in use
  Missing,        \* a field the request leaves out
  MaxPatches      \* bound of the model

ASSUME SettingsAssumption == Days \subseteq Nat /\ MaxPatches \in Nat /\ Missing # Null

VARIABLES
  settings,   \* the row of businesses: both ends of the window; Null means no last day
  patch,      \* what each handler was sent, then what it is about to write
  patches     \* requests so far

settingsVars == <<settings, patch, patches>>

NoPatch == [at |-> "none"]

\* The window a request asks for, given the row.
Merged(sent, row) == [k \in {"min", "max"} |-> IF sent[k] = Missing THEN row[k] ELSE sent[k]]

Inverted(w) == w.max # Null /\ w.max < w.min

SettingsArrive(p) ==
  /\ patch[p] = NoPatch /\ patches < MaxPatches
  /\ \E min \in Days \cup {Missing}, max \in Days \cup {Null, Missing}:
       patch' = [patch EXCEPT ![p] = [at |-> "read", sent |-> [min |-> min, max |-> max]]]
  /\ patches' = patches + 1
  /\ UNCHANGED settings

\* getBusinessSettings and the check of the merged window
SettingsRead(p) ==
  /\ patch[p].at = "read"
  /\ LET w == Merged(patch[p].sent, settings)
     IN patch' = [patch EXCEPT ![p] =
          IF Inverted(w) THEN NoPatch ELSE [at |-> "write", sent |-> @.sent, merged |-> w]]
  /\ UNCHANGED <<settings, patches>>

\* Mutant: only the fields that were sent are written.
Written_OnlySent(c) == Merged(c.sent, settings)

Written(c) == c.merged

SettingsWrite(p) ==
  /\ patch[p].at = "write"
  /\ settings' = Written(patch[p])
  /\ patch' = [patch EXCEPT ![p] = NoPatch]
  /\ UNCHANGED patches

SettingsInit ==
  /\ settings = [min |-> 0, max |-> Null]
  /\ patch = [p \in Handlers |-> NoPatch]
  /\ patches = 0

SettingsStep(p) == SettingsArrive(p) \/ SettingsRead(p) \/ SettingsWrite(p)

SettingsNext == \E p \in Handlers: SettingsStep(p)

SettingsSpec == SettingsInit /\ [][SettingsNext]_settingsVars

----------------------------------------------------------------------------
(* Properties *)

\* Two admins who each move one end of the booking window never leave it with its end before its
\* start: no column constraint stands behind the check, only that both ends are written together.
WindowNeverInverted == ~Inverted(settings)

\* What is about to be written was checked whole, whatever the row has become (SettingsProofs).
SettingsInv ==
  /\ patch = [p \in Handlers |-> patch[p]]
  /\ WindowNeverInverted
  /\ \A p \in Handlers: patch[p].at = "write" => ~Inverted(Written(patch[p]))

=============================================================================
