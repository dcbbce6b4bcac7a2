--------------------------------- MODULE Views ---------------------------------
(***************************************************************************)
(* How a view declares what it loads and what it lets its user do.  A load *)
(* fills a panel; a form is anything a user opens, submits or confirms.    *)
(* Titles, wording, validation messages and layout are left out.           *)
(***************************************************************************)
EXTENDS FiniteSets

----------------------------------------------------------------------------
(* Loads *)

\* guard: what a late answer is checked against.  keeps: a failure leaves the rows there
\* were.  then: the panels asked next.  shared: an identical request in flight is joined.
\* about: the question asked is "nothing", the "subject" the view is about (emptied without
\* one), the same as a "filter" (asked without one too), or the "query" of the list.
Load(flag) ==
  [guard |-> "none", keeps |-> FALSE, flag |-> flag, about |-> "nothing",
   shared |-> TRUE, kept |-> FALSE, then |-> {}, ticks |-> FALSE]

Keeping(l)      == [l EXCEPT !.keeps = TRUE]
About(what, l)  == [l EXCEPT !.about = what]
Guarded(how, l) == [l EXCEPT !.guard = how]
Aborting(l)     == [l EXCEPT !.guard = "abort", !.shared = FALSE]
Kept(l)         == [l EXCEPT !.kept = TRUE]
Leading(ps, l)  == [l EXCEPT !.then = ps]
Ticking(l)      == [l EXCEPT !.ticks = TRUE]        \* asked again every minute

----------------------------------------------------------------------------
(* Forms *)

\* A confirmation: closed as it is confirmed, in front of everything else.
Dialog(asks) ==
  [opens |-> "row", layer |-> 2, from |-> 0, shows |-> {},
   gate |-> FALSE, checked |-> FALSE, steps |-> <<"write">>, late |-> FALSE,
   flag |-> "", per |-> "form", busy |-> FALSE, leaves |-> "sent", forgets |-> {},
   asks |-> asks, anew |-> FALSE, patches |-> {}, spares |-> {}, misses |-> {}, shuts |-> {}, closes |-> {},
   leads |-> "", waits |-> "", child |-> FALSE, repairs |-> FALSE, goesOn |-> FALSE]

\* Fields beside a row, with a save button that is disabled while it saves.
Editor(flag, asks) ==
  [Dialog(asks) EXCEPT !.layer = 0, !.flag = flag, !.busy = TRUE, !.leaves = "saved"]
Creator(flag, asks) == [Editor(flag, asks) EXCEPT !.opens = "blank"]

\* Fields that are always there.
Fields(flag, asks) == [Editor(flag, asks) EXCEPT !.opens = "always", !.leaves = "stays"]

\* A button of a row; its flag names the row, or is the one of the view.
Button(flag, asks) == [Fields(flag, asks) EXCEPT !.opens = "press", !.per = "row"]
Common(f)          == [f EXCEPT !.per = "form"]
Slot(f)            == [f EXCEPT !.per = "slot"]

\* A panel that slides over the page.
Drawer(shows) == [Dialog({}) EXCEPT !.layer = 1, !.shows = shows, !.steps = <<>>, !.leaves = "stays"]
Drawn(f)      == [f EXCEPT !.layer = 1]
\* Opened from what a drawer holds.
Within(f)     == [f EXCEPT !.from = 1]
\* A component of its own: what it emits once it is gone is not heard.
Child(f)      == [f EXCEPT !.child = TRUE]

Hidden(flag, f)  == [f EXCEPT !.waits = flag]        \* not on the page while the flag is up
Gated(f)         == [f EXCEPT !.gate = TRUE]         \* warned of the bookings it hits first
Checked(f)       == [f EXCEPT !.checked = TRUE]      \* answered by a verdict, and sent again over it
Unguarded(f)     == [f EXCEPT !.busy = FALSE]
Late(f)          == [f EXCEPT !.late = TRUE]         \* the row is read when it is sent
Forgetting(fs, f) == [f EXCEPT !.forgets = fs]       \* whose rows are forgotten when the answer arrives
Shutting(fs, f)  == [f EXCEPT !.shuts = fs]          \* closed as this one opens
Anew(f)          == [f EXCEPT !.anew = TRUE]         \* the panels asked are mounted anew
Patching(ps, f)  == [f EXCEPT !.patches = ps]
\* A write changes what every panel of its view shows, but the ones it spares; the ones it
\* misses it changes as well, and nothing loads them again.
Sparing(ps, f)   == [f EXCEPT !.spares = ps]
Missing(ps, f)   == [f EXCEPT !.misses = ps]
Closing(fs, f)   == [f EXCEPT !.closes = fs]         \* closed when it is done
Led(f)           == [f EXCEPT !.opens = "lead"]      \* opened by another form only
LeadingTo(g, f)  == [f EXCEPT !.leads = g]           \* opened when it is done, on the same row
Stepping(s, f)   == [f EXCEPT !.steps = s]           \* the calls it makes, one after the other
Repairing(f)     == [f EXCEPT !.repairs = TRUE]      \* loads again when a later step fails
GoingOn(f)       == [f EXCEPT !.goesOn = TRUE]       \* makes the next call when one fails
Only(asks)       == [Button("", asks) EXCEPT !.steps = <<>>, !.busy = FALSE]

----------------------------------------------------------------------------
(* Views *)

NoForms == [none \in {} |-> 0]
View(mounts, loads, forms) == [mounts |-> mounts, loads |-> loads, forms |-> forms, list |-> ""]
Listing(panel, v) == [v EXCEPT !.list = panel]
=============================================================================
