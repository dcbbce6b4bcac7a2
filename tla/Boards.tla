--------------------------------- MODULE Boards --------------------------------
(***************************************************************************)
(* The boards of the day: the dashboard with the turnos to settle and the  *)
(* ones in conflict, the requests to answer, the client's own turnos and   *)
(* the request of a new one.                                               *)
(***************************************************************************)
EXTENDS Views

\* The dashboard of each role.
AdminLoad        == Keeping(Load("loadingAdmin"))
ProfessionalLoad == Keeping(Load("loadingPro"))
ReceptionistLoad == Keeping(Load("loadingRec"))

\* Turnos to settle, asked again every minute: attended (and paid) or absent.  A payment that
\* fails after the attendance was taken leaves the turno completed, and loads again.  The day
\* beside them is loaded once.
CurrentLoad == Ticking(Keeping(Load("")))
Settle      == Missing({"day"}, Button("processing", {"current"}))
SettlePaid  == Repairing(Stepping(<<"write", "write">>, Settle))

\* Turnos in conflict, all still to come; every dashboard has them, beside the day.
ConflictsLoad   == Keeping(Load(""))
ConflictIgnore  == Missing({"day"}, Button("conflictBusy", {"conflicts"}))
ConflictResolve == Missing({"day"}, Dialog({"conflicts"}))
ConflictApprove == Missing({"day"}, Checked(Unguarded(Button("", {"conflicts"}))))
Triage(load) ==
  View({"day", "conflicts"}, [day |-> load, conflicts |-> ConflictsLoad],
       [ignore |-> ConflictIgnore, resolve |-> ConflictResolve, approve |-> ConflictApprove])

Dashboard(load) ==
  View({"day", "current"}, [day |-> load, current |-> CurrentLoad],
       [settle |-> Settle, paid |-> SettlePaid])
AdminDashboard        == Triage(AdminLoad)
ProfessionalDashboard == Dashboard(ProfessionalLoad)
ReceptionistDashboard == Dashboard(ReceptionistLoad)

\* Requests: approved or rejected from the list, or from the panel of one, which then closes.
RequestsLoad   == About("query", Keeping(Load("loading")))
RequestDetail  == Load("loadingDetail")
RequestOpen    == Hidden("loading", Drawer({"detail"}))
RequestApprove == Sparing({"detail"}, Closing({"open"}, Checked(Common(Button("acting", {"rows"})))))
RequestReject  == Sparing({"detail"}, Closing({"open"}, [Dialog({"rows"}) EXCEPT !.flag = "acting", !.waits = "acting"]))
Requests ==
  Listing("rows", View({"rows"}, [rows |-> RequestsLoad, detail |-> RequestDetail],
                       [open |-> RequestOpen, approve |-> Hidden("loading", RequestApprove),
                        approveOpen |-> Drawn(RequestApprove), reject |-> RequestReject,
                        rejectOpen |-> Within(RequestReject)]))

\* The client's own turnos.  The confirmation of a cancellation stays until it is answered.
OwnLoad        == Keeping(Load("loading"))
OwnNames       == Keeping(Load(""))
OwnOpen        == Drawer({})
OwnCancel      ==
  Sparing({"names"}, Hidden("loading", Forgetting({"cancel"}, [Dialog({"rows"}) EXCEPT !.flag = "canceling", !.leaves = "answered"])))
OwnCancelOpen  == Within(Shutting({"open"}, [OwnCancel EXCEPT !.waits = "", !.forgets = {"cancelOpen"}]))
OwnRequest     == Sparing({"names"}, Child(Drawn(Creator("submitting", {"rows"}))))
OwnTurnos ==
  View({"rows", "names"}, [rows |-> OwnLoad, names |-> OwnNames],
       [open |-> OwnOpen, cancel |-> OwnCancel, cancelOpen |-> OwnCancelOpen, request |-> OwnRequest])

\* The request of a turno: the window of dates of what is chosen, its free slots, its price.  Once
\* it is made, what was chosen it from is gone.
WindowLoad    == About("subject", Guarded("question", Load("")))
SlotsLoad     == About("subject", Load("loadingSlots"))
PriceLoad     == About("subject", Load("loadingPrice"))
PriceShow     == Only({"price"})
RequestSubmit == Sparing({"window", "slots", "price"}, Hidden("loadingPrice", Fields("submitting", {})))
RequestFlow ==
  View({"window", "slots"}, [window |-> WindowLoad, slots |-> SlotsLoad, price |-> PriceLoad],
       [show |-> PriceShow, submit |-> RequestSubmit])
=============================================================================
