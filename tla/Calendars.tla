------------------------------- MODULE Calendars -------------------------------
(***************************************************************************)
(* The staff calendar, the panel of one turno, the dialogs of a series,    *)
(* and the editor of a weekly schedule.  Dragging is what it commits; the  *)
(* geometry of the grid is left out.                                       *)
(***************************************************************************)
EXTENDS Views

\* The turnos of the range and the filter; the answer asks for what is drawn behind them, and
\* the next question aborts both.
TurnosLoad(ps) == Leading(ps, Aborting(Keeping(About("filter", Load("loading")))))
ClosedDaysLoad == Aborting(Load(""))
SnapLoad       == Kept(Aborting(About("subject", Load(""))))
RoomFreeLoad   == Kept(Aborting(About("subject", Load(""))))
MonthLoad      == Kept(Aborting(About("subject", Load(""))))
TimeOffLoad    == About("subject", Load(""))
BlocksLoad     == About("subject", Load(""))

\* Where a dragged turno may go; asked as the drag begins, dropped as it ends.
HighlightsLoad == Kept(Guarded("latest", Load("")))
Drag           == Drawer({"highlights"})

\* A move is confirmed, made real if it is virtual, and sent; the answer is drawn, then loaded.
\* What is highlighted for another drag by then stays.
Move ==
  Missing({"highlights"},
    Within(Shutting({"drag"}, Checked(Patching({"turnos"}, Stepping(<<"prepare", "write">>, Dialog({"turnos"})))))))

\* The form of a turno: a new one, or a change of one; both lead to its panel.  Saved as a series
\* it has no verdict and leads to a report, and the turnos are not loaded again when either closes.
SaveForm    == Child(Drawn(Creator("saving", {"turnos"})))
BookForm    == LeadingTo("detail", Checked(SaveForm))
ChangeForm  == LeadingTo("detail", Led(Checked(SaveForm)))
SeriesForm  == LeadingTo("report", Missing({"turnos"}, [SaveForm EXCEPT !.asks = {}, !.flag = "scheduling"]))
Report      == Led(Drawer({}))
Detail      == Drawer({})
TimeOffGone == Dialog({"timeOff", "turnos"})

WeekCalendar ==
  View({"turnos"}, [turnos |-> TurnosLoad({"snap"}), snap |-> SnapLoad, highlights |-> HighlightsLoad],
       [drag |-> Drag, move |-> Move])
MonthCalendar ==
  View({"turnos"}, [turnos |-> TurnosLoad({"month", "closed"}), month |-> MonthLoad, closed |-> ClosedDaysLoad],
       [detail |-> Detail, book |-> BookForm])
\* The hours of the professional of the filter, which nothing done here changes.
MonthHours == View({"blocks"}, [blocks |-> BlocksLoad], NoForms)
BookingCalendar ==
  View({"turnos"}, [turnos |-> TurnosLoad({})],
       [detail |-> Detail, book |-> BookForm, series |-> SeriesForm, report |-> Report])
RoomCalendar ==
  View({"turnos", "timeOff"},
       [turnos |-> TurnosLoad({"free"}), free |-> RoomFreeLoad, timeOff |-> TimeOffLoad],
       [remove |-> TimeOffGone])

\* The panel of a turno: every change first makes a virtual one real.
NoteSave   == Stepping(<<"prepare", "write">>, Drawn(Common(Button("saving", {"turnos"}))))
Transition == Stepping(<<"prepare", "write">>, Drawn(Common(Button("saving", {"turnos"}))))
Ignore     == Stepping(<<"prepare", "write">>, Drawn(Common(Button("saving", {"turnos"}))))
Approve    == Checked(Drawn(Common(Unguarded(Button("", {"turnos"})))))
Reschedule ==
  Closing({"detail"}, LeadingTo("change", Stepping(<<"prepare">>, Drawn(Common(Unguarded(Button("saving", {})))))))
DetailPanel ==
  View({"turnos"}, [turnos |-> TurnosLoad({})],
       [detail |-> Detail, note |-> NoteSave, transition |-> Transition, ignore |-> Ignore,
        approve |-> Hidden("saving", Approve), reschedule |-> Reschedule, change |-> ChangeForm])

\* A turno of a series: this one, this and the ones after it, or the whole series.
Scope       == Within(Dialog({"turnos"}))
ScopeCancel == Stepping(<<"prepare", "write">>, Scope)
ScopeEnd    == Closing({"detail"}, Scope)
ScopeMove   == Closing({"detail"}, LeadingTo("change", Stepping(<<"prepare">>, [Scope EXCEPT !.asks = {}])))
ScopeShift  == LeadingTo("shift", Stepping(<<"prepare">>, [Scope EXCEPT !.asks = {}]))
SeriesShift == Closing({"detail"}, Led(Drawn(Unguarded(Editor("", {"turnos"})))))
SeriesScopes ==
  View({"turnos"}, [turnos |-> TurnosLoad({})],
       [detail |-> Detail, cancel |-> ScopeCancel, end |-> ScopeEnd, move |-> ScopeMove,
        series |-> ScopeShift, shift |-> SeriesShift, change |-> ChangeForm])

\* The rule of a series: read, edited, and applied to a scope.
RuleRead  == LeadingTo("edit", Stepping(<<"prepare">>, Drawn(Common(Unguarded(Button("", {}))))))
RuleEdit  == LeadingTo("apply", Stepping(<<>>, Led(Drawn(Unguarded(Editor("", {}))))))
RuleApply == Closing({"detail"}, Led(Scope))
SeriesRule ==
  View({"turnos"}, [turnos |-> TurnosLoad({})],
       [detail |-> Detail, read |-> RuleRead, edit |-> RuleEdit, apply |-> RuleApply])

\* The weekly schedule of a professional or a room: a block is drawn where the answer puts it.
TemplateLoad == About("subject", Load(""))
BlockDraw    == Patching({"blocks"}, Unguarded(Fields("", {})))
BlockMove    == Patching({"blocks"}, Unguarded(Button("", {})))
BlockEdit    == Patching({"blocks"}, Drawn(Stepping(<<"write", "write">>, Editor("submitting", {}))))
BlockAdd     == Patching({"blocks"}, Drawn(Creator("submitting", {})))
BlockRemove  == Within(Shutting({"edit"}, Forgetting({"edit", "remove"}, Patching({"blocks"}, Dialog({})))))
Template ==
  View({"blocks"}, [blocks |-> TemplateLoad],
       [draw |-> BlockDraw, move |-> BlockMove, edit |-> BlockEdit, add |-> BlockAdd, remove |-> BlockRemove])

\* The services of a block are asked for when it is opened.  They are saved one call after the
\* other, each drawn as it is answered, and the ones after one that failed are made all the same.
BlockServicesLoad == About("subject", Guarded("question", Load("loading")))
BlockServicesSave == GoingOn(Patching({"services"}, Stepping(<<"write", "write">>, Fields("submitting", {}))))
BlockServices == View({"services"}, [services |-> BlockServicesLoad], [save |-> BlockServicesSave])
=============================================================================
