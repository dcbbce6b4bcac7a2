---------------------------------- MODULE Tab ----------------------------------
(***************************************************************************)
(* One page of the application in one browser tab: what it has asked the   *)
(* server, the answers that arrive in any order, the panels they fill, the *)
(* forms that are open and the flags that say something is being done.     *)
(*                                                                         *)
(* The server is one number, the writes it has taken: an answer reflects   *)
(* the writes taken when it was served, whenever it arrives.  A request    *)
(* may fail.  What the user does is bounded by MaxEvents of the screen in  *)
(* one behaviour; nothing else is.                                         *)
(***************************************************************************)
EXTENDS Screens, Integers, Sequences, FiniteSetsExt

CONSTANTS
  None,        \* no row, nobody
  Nothing,     \* what a panel shows that was never filled
  Rows,        \* what a form is opened on
  Subjects,    \* whom a section is about
  Terms,       \* what a list is searched for
  MaxEvents    \* how much the user does on a screen, by screen

ASSUME TabAssumption == MaxEvents \in [DOMAIN ViewOf -> Nat] /\ None \notin Rows \cup Subjects

VARIABLES screen, tab, events

tabVars == <<screen, tab, events>>

Here      == ViewOf[screen]
LoadOf(p) == Here.loads[p]
FormOf(f) == Here.forms[f]

Addresses == Terms \X (1..2)

----------------------------------------------------------------------------
(* What is true of every view *)

\* A view refers to loads and forms of its own.
Refers(view) ==
  LET loads == DOMAIN view.loads
      forms == DOMAIN view.forms
  IN /\ IsFiniteSet(loads) /\ view.mounts \subseteq loads /\ view.list \in loads \cup {""}
     /\ \A p \in loads: view.loads[p].then \subseteq loads
     /\ \A f \in forms: LET form == view.forms[f]
                       IN /\ form.asks \cup form.shows \subseteq loads
                          /\ form.patches \cup form.spares \cup form.misses \subseteq loads
                          /\ form.shuts \cup form.closes \subseteq forms
                          /\ form.leads \in forms \cup {""}

\* A form that cannot be sent again while its flag is up; a flag that an enabled button also
\* lowers guards nothing.
Disabled(view, form) ==
  /\ form.busy /\ ~form.gate /\ form.per # "slot"
  /\ \A g \in DOMAIN view.forms: view.forms[g].flag = form.flag => view.forms[g].busy \/ view.forms[g].leaves = "sent"

Following(view, f) == \E h \in DOMAIN view.forms: view.forms[h].leads = f

\* A form of such a flag waits for it: it is disabled by it, or a dialog that is not opened while
\* it is up.  Components that share one are never open together.
Bars(view, f, g) ==
  LET this  == view.forms[f]
      other == view.forms[g]
  IN /\ this.flag # "" /\ \A p \in DOMAIN view.loads: view.loads[p].flag # this.flag
     /\ ~this.gate /\ ~this.late /\ this.per = other.per
     /\ IF this.busy THEN this.layer = 2 => ~other.checked
        ELSE /\ this.waits = this.flag /\ this.opens = "row" /\ this.layer = 2 /\ this.from # 2
             /\ this.leaves = "sent" /\ ~this.checked /\ ~Following(view, f) /\ other.layer # 2
     /\ f # g =>
          /\ this.child = other.child
          /\ this.child => /\ this.opens \in {"row", "blank"} /\ this.layer = 1 /\ this.from = 0
                           /\ ~this.checked /\ ~Following(view, f)
                           /\ \A h \in DOMAIN view.forms: f \notin view.forms[h].shuts \cup view.forms[h].closes
FlagsBar(view) ==
  \A f, g \in DOMAIN view.forms:
    Disabled(view, view.forms[g]) /\ view.forms[f].flag = view.forms[g].flag => Bars(view, f, g)

\* The answer to a load that raises a flag lowers it, whatever was asked since: what is asked
\* again without an answer to come lowers it at once, or is about nobody.
FlagsFall(view) ==
  \A p \in DOMAIN view.loads:
    LET l == view.loads[p]
    IN l.flag # "" =>
         /\ l.kept => l.guard = "none"
         /\ l.about = "subject" => l.guard # "abort"
         /\ l.guard = "question" => /\ p \in view.mounts /\ l.about \in {"subject", "filter"}
                                    /\ \A f \in DOMAIN view.forms: p \notin view.forms[f].shows
         /\ \A q \in DOMAIN view.loads: view.loads[q].guard = "abort" => p \notin view.loads[q].then
         /\ \A f \in DOMAIN view.forms:
              /\ view.forms[f].flag # l.flag
              /\ view.forms[f].anew /\ p \in view.forms[f].asks =>
                   ~l.kept /\ (l.about = "subject" => l.guard \in {"latest", "question"})

\* A load that others follow is asked again with whatever they are about, and its answer asks them;
\* one whose answer is checked against the section joins what asks the same, and one that must not
\* overwrite what was typed is asked by no form.
LoadsSettle(view) ==
  LET loads == DOMAIN view.loads
      follow(p) == {x \in loads: p \in view.loads[x].then}
  IN \A p \in loads:
       LET l == view.loads[p]
       IN /\ l.guard \in {"none", "latest", "abort", "question", "untouched"}
          /\ l.then # {} =>
               l.guard = "abort" /\ ~l.shared /\ ~l.kept /\ l.about = "filter" /\ p \in view.mounts /\ follow(p) = {}
          /\ l.guard = "question" => l.shared /\ ~l.kept /\ l.about \in {"subject", "filter"} /\ p \in view.mounts
          /\ l.guard = "untouched" => /\ ~l.kept /\ l.about = "nothing" /\ follow(p) = {}
                                      /\ \A f \in DOMAIN view.forms:
                                           LET form == view.forms[f]
                                           IN p \notin form.asks \cup form.shows \cup form.misses
          /\ l.about = "subject" /\ l.guard # "none" => p \in view.mounts \/ follow(p) # {}
          /\ l.about = "query" => p = view.list
          /\ \A f \in DOMAIN view.forms: p \in view.forms[f].shows => l.about = "nothing"

\* A write that is not among the steps of a form changes nothing.
Writing(form) == \E i \in DOMAIN form.steps: form.steps[i] = "write"
\* A call of it may fail when another has written.
Partial(form) == \E i \in DOMAIN form.steps: form.steps[i] = "write" /\ i < Len(form.steps)

\* What a form writes is loaded again wherever it shows, or drawn there, but where the form is
\* declared to miss it; and when one write of several fails, what the others wrote is.
WritesReload(view) ==
  \A f \in DOMAIN view.forms:
    LET form  == view.forms[f]
        drawn == form.patches \cup form.spares
    IN Writing(form) =>
         /\ DOMAIN view.loads \subseteq drawn \cup form.asks \cup form.misses \cup UNION {view.loads[p].then: p \in form.asks}
         /\ Partial(form) => form.repairs \/ DOMAIN view.loads \subseteq drawn

ASSUME ViewsAssumption ==
  \A s \in DOMAIN ViewOf:
    LET view == ViewOf[s]
    IN /\ Refers(view) /\ FlagsBar(view) /\ FlagsFall(view) /\ LoadsSettle(view) /\ WritesReload(view)
       /\ \A f \in DOMAIN view.forms: ~(view.forms[f].late /\ view.forms[f].checked)

----------------------------------------------------------------------------
(* Flags *)

\* A flag of the view, of one row, or one slot that names the row last raised.
Flag(form, row) == <<form.flag, IF form.per = "form" THEN None ELSE row>>
Without(up, name) == {x \in up: x[1] # name}

Raise(t, form, row) ==
  IF form.flag = "" THEN t
  ELSE [t EXCEPT !.up = (IF form.per = "slot" THEN Without(@, form.flag) ELSE @) \cup {Flag(form, row)}]
Lower(t, form, row) ==
  [t EXCEPT !.up = IF form.per = "slot" THEN Without(@, form.flag) ELSE @ \ {Flag(form, row)}]

----------------------------------------------------------------------------
(* Asking *)

Panel ==
  [no |-> 0, last |-> 0, of |-> None, shown |-> Nothing, at |-> {}, due |-> {},
   failed |-> FALSE, excuse |-> ""]
Request ==
  [kind |-> "load", for |-> "", of |-> None, no |-> 0, gen |-> 0, seen |-> 0, result |-> "",
   opening |-> 0, over |-> FALSE, step |-> 0, done |-> {}, meant |-> None, told |-> None]

InFlight(t, ps) == {c \in t.calls: c.kind = "load" /\ c.for \in ps}

Fill(p, of, seen, no) ==
  [p EXCEPT !.shown = of, !.at = 1..seen, !.last = no, !.failed = FALSE]

\* An answer still good is shown at once; an identical request in flight is joined, and its
\* answer may be older than the question; a load with a signal aborts the one before it and
\* what that one led to.
AskFor(l, t, p, q) ==
  LET n     == t.asked + 1
      good  == {k \in t.kept: l.kept /\ k.for = p /\ k.of = q /\ k.gen = t.told}
      same  == {c \in InFlight(t, {p}): l.shared /\ c.of = q}
      gone  == same \cup IF l.guard = "abort" THEN InFlight(t, {p} \cup l.then) ELSE {}
      fresh == [Request EXCEPT !.for = p, !.of = q, !.no = n, !.gen = t.told]
      asked == [t EXCEPT !.asked = n,
                         !.panels[p] = [@ EXCEPT !.no = n, !.of = q, !.excuse = IF same = {} THEN "" ELSE "joined"]]
  IN IF good # {}
     THEN [asked EXCEPT !.panels[p] = [Fill(@, q, (CHOOSE k \in good: TRUE).seen, n) EXCEPT !.excuse = ""]]
     ELSE [asked EXCEPT !.calls = (@ \ gone) \cup {[c EXCEPT !.no = n]: c \in IF same = {} THEN {fresh} ELSE same},
                        !.up = IF l.flag = "" THEN @ ELSE @ \cup {<<l.flag, None>>}]
Ask(t, p, q) == AskFor(LoadOf(p), t, p, q)

\* Nobody to ask about: the panel is emptied and what is in flight stays so; what was found stays.
Empty(l, t, p) ==
  IF l.guard = "latest" THEN [t EXCEPT !.up = Without(@, l.flag)]
  ELSE [t EXCEPT !.asked = @ + 1,
                 !.panels[p] = [@ EXCEPT !.no = t.asked + 1, !.of = None, !.shown = None, !.excuse = ""]]

Question(l, t, p) ==
  CASE l.about \in {"subject", "filter"} -> t.subject
    [] l.about = "query" -> t.query
    [] OTHER -> t.panels[p].of
AskAgain(l, t, p) ==
  IF l.about = "subject" /\ t.subject = None THEN Empty(l, t, p) ELSE AskFor(l, t, p, Question(l, t, p))
AskOne(t, p) == AskAgain(LoadOf(p), t, p)
AskAll(t, ps) == FoldSet(LAMBDA p, u: AskOne(u, p), t, ps)
AskAbout(t, ps, row) == FoldSet(LAMBDA p, u: Ask(u, p, row), t, ps)

----------------------------------------------------------------------------
(* Forms *)

Opened == {"row", "blank", "lead"}
Up(t, layer) == {f \in DOMAIN t.forms: t.forms[f].up /\ FormOf(f).opens \in Opened /\ FormOf(f).layer = layer}
Top(t) == IF t.gate # None \/ Up(t, 2) # {} THEN 2 ELSE IF Up(t, 1) # {} THEN 1 ELSE 0

\* What the panel in front is about.
InFront(t) == {t.forms[f].row: f \in Up(t, 1)} \ {None}
RowsFor(f) ==
  IF FormOf(f).from = 1 \/ (FormOf(f).opens = "press" /\ FormOf(f).layer = 1) THEN InFront(tab) ELSE Rows

\* A component that is gone takes its flag with it.
Left(f, opening) == [up |-> FormOf(f).opens = "keyed", row |-> None, opening |-> opening + IF FormOf(f).child THEN 1 ELSE 0]
ShutAll(t, fs) ==
  [t EXCEPT !.forms = [f \in DOMAIN @ |-> IF f \in fs THEN Left(f, @[f].opening) ELSE @[f]],
            !.up = {x \in @: \A f \in fs: FormOf(f).child => x[1] # FormOf(f).flag}]
Shut(t, f) == ShutAll(t, {f})

Show(t, f, row) ==
  AskAbout([ShutAll(t, FormOf(f).shuts) EXCEPT !.forms[f] = [up |-> TRUE, row |-> row, opening |-> @.opening + 1],
                                               !.up = IF FormOf(f).child THEN Without(@, FormOf(f).flag) ELSE @],
           FormOf(f).shows, row)
Lead(t, form, row) == IF form.leads = "" THEN t ELSE Show(t, form.leads, row)

\* Mutant: a form that is done loads only what it mounts anew.
Reload_Anew(t, form) == IF form.anew THEN AskAll([t EXCEPT !.calls = @ \ InFlight(t, form.asks)], form.asks) ELSE t

\* The loads a form asks again; a table mounted anew forgets what it had asked and typed.
Reload(t, form) ==
  LET fresh == [t EXCEPT !.calls = @ \ InFlight(t, form.asks)]
  IN AskAll(IF ~form.anew THEN t
            ELSE IF Here.list \in form.asks
                 THEN [fresh EXCEPT !.query = t.url, !.written = t.url, !.waiting = FALSE]
                 ELSE fresh,
            form.asks)

\* Nobody hears a component that is gone.
Gone(t, c) == FormOf(c.for).child /\ t.forms[c.for].opening # c.opening

\* Mutant: a write is of the row the form is on when it is sent, whatever was confirmed.
Send_Late(t, f, call) ==
  LET form == FormOf(f)
      made == [t EXCEPT !.asked = @ + 1,
                        !.calls = @ \cup {[call EXCEPT !.kind = "write", !.of = t.forms[f].row,
                                                      !.no = t.asked + 1, !.result = ""]}]
      sent == IF Gone(t, call) THEN made ELSE Raise(made, form, t.forms[f].row)
  IN IF form.leaves = "sent" THEN Shut(sent, f) ELSE sent

\* What is written is the row of the opening, or for a late form the row there is by now.
Send(t, f, call) ==
  LET form == FormOf(f)
      row  == IF form.late THEN t.forms[f].row ELSE call.of
      made == [t EXCEPT !.asked = @ + 1,
                        !.calls = @ \cup {[call EXCEPT !.kind = "write", !.of = row, !.no = t.asked + 1, !.result = ""]}]
      sent == IF Gone(t, call) THEN made ELSE Raise(made, form, row)
  IN IF form.leaves = "sent" THEN Shut(sent, f) ELSE sent

----------------------------------------------------------------------------
(* What the user does *)

Does == events < MaxEvents[screen] /\ events' = events + 1 /\ UNCHANGED screen
Waits(f) == FormOf(f).waits # "" /\ Without(tab.up, FormOf(f).waits) # tab.up

Open(f) ==
  /\ Does
  /\ Top(tab) = FormOf(f).from /\ ~Waits(f)
  /\ \/ /\ FormOf(f).opens \in {"row", "keyed"}
        /\ \E row \in RowsFor(f) : row # tab.forms[f].row /\ tab' = Show(tab, f, row)
     \/ FormOf(f).opens = "blank" /\ ~tab.forms[f].up /\ tab' = Show(tab, f, None)

Close(f) ==
  /\ Does
  /\ tab.forms[f].up /\ (FormOf(f).opens = "keyed" => tab.forms[f].row # None)
  /\ FormOf(f).opens \in Opened \cup {"keyed"}
  /\ Top(tab) = FormOf(f).layer
  /\ tab' = Shut(tab, f)

\* A form with nothing to send only asks, or opens the next one.
Submit(f) ==
  LET form == FormOf(f)
  IN /\ Does
     /\ Top(tab) = form.layer /\ ~Waits(f)
     /\ form.opens \in Opened => tab.forms[f].up
     /\ \E row \in IF form.opens = "press" THEN RowsFor(f) ELSE {tab.forms[f].row} :
          LET call == [Request EXCEPT !.for = f, !.of = row, !.meant = row, !.step = 1, !.opening = tab.forms[f].opening]
          IN /\ form.layer = 2 => row # None \/ form.opens = "blank"
             /\ form.opens = "row" /\ form.shows = {} => form.steps # <<>>
             /\ form.busy => Flag(form, row) \notin tab.up
             /\ tab' = IF form.steps = <<>> THEN Lead(ShutAll(Reload(tab, form), {f} \cap Up(tab, form.layer)), form, row)
                       ELSE IF form.gate
                       THEN [tab EXCEPT !.asked = @ + 1,
                                        !.calls = @ \cup {[call EXCEPT !.kind = "preview", !.no = tab.asked + 1]}]
                       ELSE Send(tab, f, call)

\* A warning or a verdict is confirmed, and what waited for it is sent.
Confirm ==
  /\ tab.gate # None
  /\ LET f == tab.gate.for
         over == tab.gate.kind = "write"
     IN tab' = Send([tab EXCEPT !.gate = None], f,
                    [tab.gate EXCEPT !.over = over, !.told = IF over THEN tab.gate.of ELSE None])
  /\ UNCHANGED <<screen, events>>
Cancel == tab.gate # None /\ tab' = [tab EXCEPT !.gate = None] /\ UNCHANGED <<screen, events>>

Switch(s) ==
  LET ps == {p \in Here.mounts: LoadOf(p).about \in {"subject", "filter"}}
  IN Does /\ ps # {} /\ s # tab.subject /\ tab' = AskAll([tab EXCEPT !.subject = s], ps)

\* The pointer enters a row: its panel is loaded ahead, unless it is kept already.
Prefetch(p, row) ==
  /\ Does
  /\ LoadOf(p).kept /\ LoadOf(p).shared
  /\ ~\E k \in tab.kept: k.for = p /\ k.of = row /\ k.gen = tab.told
  /\ ~\E c \in InFlight(tab, {p}): c.of = row
  /\ tab' = [tab EXCEPT !.calls = @ \cup {[Request EXCEPT !.for = p, !.of = row, !.gen = tab.told]}]

----------------------------------------------------------------------------
(* A list and its address *)

\* The address is written without a new entry, and never read back by the list that wrote it.
Commit(t, q) ==
  AskOne([t EXCEPT !.query = q, !.url = q, !.waiting = FALSE, !.written = IF q = t.url THEN @ ELSE q], Here.list)

Typed(term) ==
  /\ Does /\ Here.list # "" /\ Top(tab) = 0 /\ term # tab.query[1]
  /\ tab' = [tab EXCEPT !.query = <<term, 1>>, !.waiting = TRUE]
Turn(page) ==
  /\ Does /\ Here.list # "" /\ Top(tab) = 0 /\ page # tab.query[2]
  /\ tab' = Commit(tab, <<tab.query[1], page>>)
DebounceFires == tab.waiting /\ tab' = Commit(tab, tab.query) /\ UNCHANGED <<screen, events>>

\* Back and forward: what is typed and not yet sent is replaced, and its timer goes on.
Travel(u) ==
  /\ Does /\ Here.list # "" /\ u # tab.url
  /\ tab' = IF u = tab.written THEN [tab EXCEPT !.url = u]
            ELSE AskOne([tab EXCEPT !.url = u, !.query = u, !.written = u], Here.list)

----------------------------------------------------------------------------
(* The server, and time *)

\* A write with no row left to be about is refused.
Results(c) ==
  CASE c.kind = "load" -> {"ok", "failed"}
    [] c.kind = "preview" -> {"ok", "verdict"}
    [] c.kind = "write" ->
         IF FormOf(c.for).late /\ FormOf(c.for).opens = "row" /\ c.of = None THEN {"failed"}
         ELSE {"ok", "failed"} \cup
              IF FormOf(c.for).checked /\ ~c.over /\ c.step = Len(FormOf(c.for).steps) THEN {"verdict"} ELSE {}

Serve(c) ==
  /\ c.result = ""
  /\ \E r \in Results(c) :
       LET world == IF c.kind = "write" /\ r = "ok" THEN tab.world + 1 ELSE tab.world
       IN tab' = [tab EXCEPT !.world = world, !.calls = (@ \ {c}) \cup {[c EXCEPT !.result = r, !.seen = world]}]
  /\ UNCHANGED <<screen, events>>

Tick(p) == Does /\ LoadOf(p).ticks /\ tab' = AskOne(tab, p)
Forget(k) == k \in tab.kept /\ tab' = [tab EXCEPT !.kept = @ \ {k}] /\ UNCHANGED <<screen, events>>

----------------------------------------------------------------------------
(* Answers *)

Arrives(c, kind) == c.kind = kind /\ c.result # "" /\ UNCHANGED <<screen, events>>
Taken(c) == [tab EXCEPT !.calls = @ \ {c}]

\* Mutant: an answer is put on screen whatever was asked since.
TooLate_Never(c) == LoadOf(c.for).guard = "question" /\ c.of # tab.subject

TooLate(c) ==
  CASE LoadOf(c.for).guard \in {"latest", "abort"} -> c.no # tab.panels[c.for].no
    [] LoadOf(c.for).guard = "question" -> c.of # tab.subject
    [] OTHER -> FALSE

\* Mutant: an answer is kept as if it had been asked for when it came.
Keep_Answered(t, c) ==
  IF LoadOf(c.for).kept /\ c.result = "ok"
  THEN [t EXCEPT !.kept = {k \in @: k.for # c.for \/ k.of # c.of}
                            \cup {[for |-> c.for, of |-> c.of, gen |-> t.told, seen |-> c.seen]}]
  ELSE t

\* Kept for as long as nothing has been written since it was asked for.
Keep(t, c) ==
  IF LoadOf(c.for).kept /\ c.result = "ok"
  THEN [t EXCEPT !.kept = {k \in @: k.for # c.for \/ k.of # c.of}
                            \cup {[for |-> c.for, of |-> c.of, gen |-> c.gen, seen |-> c.seen]}]
  ELSE t

\* Fields keep what was typed in them; a failure leaves the rows there were, or none.
Filled(p, c, l) ==
  CASE c.result = "failed" -> [p EXCEPT !.shown = IF l.keeps THEN @ ELSE Nothing, !.last = c.no, !.failed = TRUE]
    [] c.result = "ok" /\ l.guard = "untouched" /\ p.due # {} -> [p EXCEPT !.shown = c.of, !.last = c.no]
    [] OTHER -> Fill(p, c.of, c.seen, c.no)

LoadAnswered(c) ==
  /\ Arrives(c, "load")
  /\ LET l      == LoadOf(c.for)
         filled == [Keep(Taken(c), c) EXCEPT !.panels[c.for] = Filled(@, c, l), !.up = Without(@, l.flag)]
     IN tab' = IF c.no = 0 \/ TooLate(c) THEN Keep(Taken(c), c)
               ELSE IF c.result = "ok" THEN AskAll(filled, l.then) ELSE filled

Previewed(c) ==
  /\ Arrives(c, "preview")
  /\ tab' = IF c.result = "ok" THEN Send(Taken(c), c.for, c)
            ELSE IF Gone(tab, c) THEN Taken(c) ELSE [Taken(c) EXCEPT !.gate = c]

\* The panels a form asks again, and the ones its writes change whether it asks them or not: those
\* must come to show what it wrote.
Asked(form) == form.asks \cup UNION {LoadOf(p).then: p \in form.asks}
Changed(form) == IF Writing(form) THEN DOMAIN Here.loads \ form.spares ELSE {}
Owe(t, form, ns) ==
  LET owed(p) == [t.panels[p] EXCEPT !.due = @ \cup ns, !.excuse = IF p \in form.misses THEN "missed" ELSE @]
  IN [t EXCEPT !.panels = [p \in DOMAIN @ |-> IF p \in Changed(form) \ form.patches THEN owed(p) ELSE @[p]]]

\* Drawn at once: it is lost again if the panel was asked for since, or still is.
Patch(t, form, c) ==
  LET lost(p) == t.panels[p].no > c.no \/ InFlight(t, {p}) # {}
      drawn(p) == [t.panels[p] EXCEPT !.due = @ \cup {c.seen}, !.at = @ \cup {c.seen},
                                      !.excuse = IF lost(p) THEN "stranded" ELSE @]
  IN [t EXCEPT !.panels = [p \in DOMAIN @ |-> IF p \in form.patches THEN drawn(p) ELSE @[p]]]

\* Whatever is open by now is closed by the answer to what was open then.
Finished(t, form, c) ==
  LET owed   == Owe(Lower(t, form, c.of), form, c.done)
      closed == ShutAll(owed, form.closes \cup (IF form.leaves \in {"saved", "answered"} /\ form.opens # "always"
                                                THEN {c.for} ELSE {}))
      forgot == [closed EXCEPT !.forms = [f \in DOMAIN @ |-> IF f \in form.forgets THEN [@[f] EXCEPT !.row = None] ELSE @[f]]]
  IN Lead(Reload(forgot, form), form, c.of)

\* Mutant: a failed write leaves its flag up.
Failed_FlagUp(t, form, c) == IF form.repairs /\ c.step > 1 THEN Reload(Owe(t, form, c.done), form) ELSE t

Failed(t, form, c) ==
  LET lowered == Lower(t, form, c.of)
      closed  == IF form.leaves = "answered" THEN Shut(lowered, c.for) ELSE lowered
      forgot  == [closed EXCEPT !.forms = [f \in DOMAIN @ |-> IF f \in form.forgets THEN [@[f] EXCEPT !.row = None] ELSE @[f]]]
      owed    == Owe(forgot, form, c.done)
  IN CASE form.repairs /\ c.step > 1 -> Reload(owed, form)
       [] ~form.repairs /\ Partial(form) -> owed
       [] OTHER -> forgot

Unheard(t, form, c) ==
  [Owe(t, form, c.done) EXCEPT !.panels = [p \in DOMAIN @ |-> IF p \in Asked(form) THEN [@[p] EXCEPT !.excuse = "untold"] ELSE @[p]]]

\* The calls left are made whatever became of this one.
GoesOn(form, c) == form.goesOn /\ c.step < Len(form.steps)

Written(c) ==
  /\ Arrives(c, "write")
  /\ LET form  == FormOf(c.for)
         write == form.steps[c.step] = "write"
         said  == [c EXCEPT !.done = IF write THEN @ \cup {c.seen} ELSE @]
         heard == [Taken(c) EXCEPT !.told = @ + 1, !.heard = IF write THEN @ \cup {c.seen} ELSE @]
         drawn == IF write THEN Patch(heard, form, c) ELSE heard
     IN \/ /\ c.result = "ok" /\ c.step < Len(form.steps)
           /\ tab' = [drawn EXCEPT !.calls = @ \cup {[said EXCEPT !.step = @ + 1, !.result = ""]}]
        \/ /\ c.result = "ok" /\ c.step = Len(form.steps)
           /\ tab' = IF Gone(tab, c) THEN Unheard(drawn, form, said) ELSE Finished(drawn, form, said)
        \/ /\ c.result = "failed" /\ GoesOn(form, c)
           /\ tab' = [Taken(c) EXCEPT !.calls = @ \cup {[c EXCEPT !.step = @ + 1, !.result = ""]}]
        \/ c.result # "ok" /\ ~GoesOn(form, c) /\ Gone(tab, c) /\ tab' = Taken(c)
        \/ c.result = "failed" /\ ~GoesOn(form, c) /\ ~Gone(tab, c) /\ tab' = Failed(Taken(c), form, c)
        \/ c.result = "verdict" /\ ~Gone(tab, c) /\ tab' = [Lower(Taken(c), form, c.of) EXCEPT !.gate = c]

----------------------------------------------------------------------------

Fresh(s, q) ==
  AskAll([calls |-> {}, up |-> {}, gate |-> None, subject |-> s, query |-> q, url |-> q, written |-> q,
             waiting |-> FALSE, world |-> 0, told |-> 0, heard |-> {}, kept |-> {}, asked |-> 0,
             panels |-> [p \in DOMAIN Here.loads |-> Panel],
             forms |-> [f \in DOMAIN Here.forms |->
                          [up |-> FormOf(f).opens \in {"always", "keyed"}, row |-> None, opening |-> 0]]],
            Here.mounts)

TabInit ==
  /\ screen \in DOMAIN ViewOf /\ events = 0
  /\ \E s \in Subjects, q \in Terms \X {1} : tab = Fresh(s, q)

TabNext ==
  \/ \E f \in DOMAIN tab.forms : Open(f) \/ Close(f) \/ Submit(f)
  \/ Confirm \/ Cancel
  \/ \E s \in Subjects \cup {None} : Switch(s)
  \/ \E p \in DOMAIN Here.loads : Tick(p) \/ \E row \in Rows : Prefetch(p, row)
  \/ \E term \in Terms : Typed(term)
  \/ \E page \in 1..2 : Turn(page)
  \/ DebounceFires
  \/ \E u \in Addresses : Travel(u)
  \/ \E c \in tab.calls : Serve(c) \/ LoadAnswered(c) \/ Previewed(c) \/ Written(c)
  \/ \E k \in tab.kept : Forget(k)

TabSpec == TabInit /\ [][TabNext]_tabVars

----------------------------------------------------------------------------
(* Properties *)

Leaders(p) == {x \in DOMAIN tab.panels: p \in LoadOf(x).then}
Followed(p) == p \in Here.mounts \/ Leaders(p) # {}

\* An answer may be taken for a newer one where nothing checks it, where the question joined
\* an older request, where what was drawn was loaded over, and where nobody was told to load.
Overtaken(p) ==
  \/ tab.panels[p].excuse \notin {"", "missed"}
  \/ LoadOf(p).guard = "none" /\ tab.panels[p].last # tab.panels[p].no
  \/ \E x \in {p} \cup Leaders(p) : tab.panels[x].failed

\* A write changed what the panel shows, and its form does not load it again: the form of a series,
\* the cards of a dashboard for its day, a booking for the clients seen, a move for another drag.
Missed(p) == tab.panels[p].excuse = "missed"
Excused(p) == Overtaken(p) \/ Missed(p)

\* A panel nothing is in flight for shows the answer to the question asked of it last, the list
\* of the address shows what the address asks for, and what was saved is in every panel of the
\* view that it changes, whether its form loads that panel or not: no late answer, abort, kept
\* answer, timer or reload left out leaves an older one there, but where it is excused.
\* A kept answer that may still be shown reflects every write this tab was told of.
SettledPanelsAreCurrent ==
  /\ \A p \in DOMAIN tab.panels :
       LET panel == tab.panels[p]
           about == LoadOf(p).about
       IN panel.no > 0 /\ InFlight(tab, {p} \cup Leaders(p)) = {} /\ ~Excused(p) =>
            IF about = "subject" /\ tab.subject = None /\ Followed(p)
            THEN LoadOf(p).guard = "latest" \/ panel.shown = None
            ELSE /\ panel.shown = panel.of /\ panel.due \subseteq panel.at
                 /\ about \in {"subject", "filter"} /\ Followed(p) => panel.of = tab.subject
                 /\ about = "query" /\ ~tab.waiting => panel.of = tab.query /\ tab.query = tab.url
  /\ \A k \in tab.kept : k.gen = tab.told => tab.heard \subseteq 1..k.seen

\* When nothing is in flight and no question is open, no flag is left up, so nothing stays
\* disabled or hidden: whichever way calls ended, overtook each other or lost their form.
\* (A section switched to nobody while it loads keeps its flag and shows nothing.)
FlagsEndWithTheirCalls ==
  tab.calls = {} /\ tab.gate = None =>
    \A x \in tab.up :
      tab.subject = None /\ \E p \in DOMAIN Here.loads : LoadOf(p).guard = "question" /\ x = <<LoadOf(p).flag, None>>

\* A write is of the row its user acted on, a retry over a verdict is of the row of that verdict,
\* and one opening of a form that is disabled while it saves has one write in flight at a time.
WritesAreMeant ==
  LET writes == {c \in tab.calls: c.kind = "write"}
  IN \A c \in writes :
       /\ FormOf(c.for).late \/ c.of = c.meant
       /\ c.over => c.told = c.of
       /\ \A d \in writes \ {c} :
            Disabled(Here, FormOf(c.for)) => <<c.for, c.opening, c.of>> # <<d.for, d.opening, d.of>>
=============================================================================
