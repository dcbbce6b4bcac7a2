-------------------------------- MODULE Sections -------------------------------
(***************************************************************************)
(* The sections of the settings page, the accounts and the profile: what   *)
(* each loads, and each form with the order in which it closes, waits and  *)
(* loads again.                                                            *)
(***************************************************************************)
EXTENDS Views

\* Business closures: a new one and a change wait for the warning about the bookings they hit;
\* the row and the fields are read once it has been answered, and only then is the flag raised.
ClosuresLoad  == Keeping(Load("loading"))
ClosureAdd    == Late(Gated(Fields("saving", {"rows"})))
ClosureEdit   == Hidden("loading", Late(Gated(Editor("editSaving", {"rows"}))))
ClosureRemove == Hidden("loading", Dialog({"rows"}))
Closures ==
  View({"rows"}, [rows |-> ClosuresLoad],
       [add |-> ClosureAdd, edit |-> ClosureEdit, remove |-> ClosureRemove])

\* Rooms: the room to remove is forgotten when the answer arrives, whichever it is by then.
RoomsLoad    == Load("loading")
RoomAdd      == Creator("savingAdd", {"rows"})
RoomEdit     == Editor("savingEdit", {"rows"})
RoomRemove   == Forgetting({"remove"}, Dialog({"rows"}))
RoomSchedule == Drawer({})
Rooms ==
  View({"rows"}, [rows |-> RoomsLoad],
       [add |-> RoomAdd, edit |-> RoomEdit, remove |-> RoomRemove, schedule |-> RoomSchedule])

\* Services of a professional: every change is written on the row it was made on.
OfferingsLoad   == About("subject", Guarded("question", Load("loading")))
OfferingToggle  == Hidden("loading", Patching({"rows"}, Button("busy", {})))
OfferingWindow  == Hidden("loading", Patching({"rows"}, [Editor("busy", {}) EXCEPT !.per = "row"]))
OfferingWithout == Hidden("loading", Patching({"rows"}, Unguarded(Button("busy", {}))))
Offerings ==
  View({"rows"}, [rows |-> OfferingsLoad],
       [toggle |-> OfferingToggle, window |-> OfferingWindow, without |-> OfferingWithout])

\* Calendar grants: one slot names the grant being revoked.
StaffLoad   == Keeping(Load(""))
GrantsLoad  == About("subject", Keeping(Load("loading")))
GrantAdd    == Sparing({"staff"}, Fields("granting", {"rows"}))
GrantRevoke == Sparing({"staff"}, Hidden("loading", Slot(Button("revoking", {"rows"}))))
Grants ==
  View({"staff", "rows"}, [staff |-> StaffLoad, rows |-> GrantsLoad],
       [add |-> GrantAdd, revoke |-> GrantRevoke])

\* Prices of a client: one panel, to create or to edit.
PricesLoad  == Load("loading")
PriceCreate == Drawn(Creator("submitting", {"rows"}))
PriceEdit   == Hidden("loading", Drawn(Editor("submitting", {"rows"})))
Prices ==
  View({"rows"}, [rows |-> PricesLoad], [create |-> PriceCreate, edit |-> PriceEdit])

\* Time off of a professional: the form is a component, keyed by the exception it edits.
ExceptionsLoad  == Load("")
ExceptionSave   == Child(Gated([Fields("saving", {"rows"}) EXCEPT !.opens = "keyed"]))
ExceptionRemove == Dialog({"rows"})
MyExceptions ==
  View({"rows"}, [rows |-> ExceptionsLoad], [save |-> ExceptionSave, remove |-> ExceptionRemove])

\* Accounts: the table is mounted anew after every change.
UserCreate     == Anew(Drawn(Creator("creating", {"rows"})))
UserDeactivate == Anew(Forgetting({"deactivate"}, Dialog({"rows"})))
UserReset      == Anew(Drawn(Editor("resetting", {"rows"})))

\* The business: an answer fills only the fields not typed in meanwhile, and is asked for once.
BusinessLoad == Guarded("untouched", Keeping(Load("")))
BusinessSave == Patching({"fields"}, Fields("saving", {}))
Business == View({"fields"}, [fields |-> BusinessLoad], [save |-> BusinessSave])

\* One's own profile; a save reads the session's user again.
ProfileLoad      == Keeping(Load("loading"))
OwnServicesLoad  == Load("svcLoading")
MeLoad           == Load("")
ProfileSave      == Sparing({"services"}, Hidden("loading", Patching({"profile"}, Fields("savingProfile", {"me"}))))
OwnServiceSave   == Sparing({"profile", "me"}, Hidden("svcLoading", Patching({"services"}, Button("savingService", {}))))
PasswordChange   == Sparing({"profile", "services"}, Patching({"me"}, Fields("changing", {})))
Profile ==
  View({"profile", "services"},
       [profile |-> ProfileLoad, services |-> OwnServicesLoad, me |-> MeLoad],
       [save |-> ProfileSave, service |-> OwnServiceSave, password |-> PasswordChange])
=============================================================================
