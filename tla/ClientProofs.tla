----------------------------- MODULE ClientProofs -----------------------------
(***************************************************************************)
(* The writes, flags and panels of a tab, for any number of events, rows,  *)
(* subjects and terms, and a list request, for every table, viewer, query, *)
(* page length and set of rows.                                            *)
(*                                                                         *)
(* A write is of what its user meant because the flag of its form bars     *)
(* sending.  Meant says how: while a write is in flight its flag is up, no *)
(* other write has its flag or its key, nor has the one that waits to be   *)
(* confirmed; a dialog that only waits for a flag is not open while it is  *)
(* up; and of the components that share a flag, one is open at a time.     *)
(* What a panel asks leaves all of this aside, however many panels follow: *)
(* the folds over sets of panels are unfolded from their definition, and a *)
(* least set that broke the claim would break it one panel earlier.        *)
(*                                                                         *)
(* No flag is left up because whatever raises one puts a call in flight    *)
(* whose answer still lowers it.  Lit says so of every flag that is up:    *)
(* the last call of its load, or a write whose form is still there, ends   *)
(* it, or the section is about nobody.  A call that is dropped or comes    *)
(* too late ends no flag, or its load is asked again in the same step.     *)
(*                                                                         *)
(* A panel is current for a reason it has had since it was asked.  The     *)
(* requests are numbered and dated (Numbered, Dated): what was asked since *)
(* the tab was last told of a write reflects every write it was told of.   *)
(* Good says of one panel that its answer is in flight or shown, and that  *)
(* an answer that will count reflects what it owes.  A step that changes   *)
(* what is asked, or makes panels owe, leaves some of them out             *)
(* (CurrentBut), and asks each of them, or what each of them follows.      *)
(*                                                                         *)
(* Of a request: a filter and its negation split the rows, and the pages   *)
(* split the list.  The order ends with the key, so of two rows one comes  *)
(* before the other; then what comes before a page, with or without the    *)
(* page, is determined by how many rows it has.                            *)
(***************************************************************************)
EXTENDS Tab, Queries, FiniteSetTheorems, WellFoundedInduction, TLAPS

----------------------------------------------------------------------------
(* The state of a tab *)

TabFields == {"calls", "up", "gate", "subject", "query", "url", "written", "waiting", "world", "told", "heard",
              "kept", "asked", "panels", "forms"}
CallFields == {"kind", "for", "of", "no", "gen", "seen", "result", "opening", "over", "step", "done", "meant", "told"}

FormFields == {"up", "row", "opening"}

Loads(v) == DOMAIN v.loads
Forms(v) == DOMAIN v.forms

\* What a call of each kind is.
IsCall(v, t, c) ==
  /\ CallFields \subseteq DOMAIN c
  /\ c.kind \in {"load", "preview", "write"}
  /\ c.kind = "load" => c.for \in Loads(v)
  /\ c.kind # "load" =>
       /\ c.for \in Forms(v)
       /\ c.opening \in Nat /\ c.opening <= t.forms[c.for].opening
       /\ v.forms[c.for].late \/ c.of = c.meant
  /\ c.kind = "preview" => v.forms[c.for].gate /\ c.over = FALSE /\ c.result \in {"", "ok", "verdict"}
  /\ c.kind = "write" => /\ c.over => c.told = c.of
                         /\ c.result \in {"", "ok", "failed", "verdict"}
                         /\ c.result = "verdict" => v.forms[c.for].checked

\* What a tab that shows a view is.
IsTab(v, t) ==
  /\ TabFields \subseteq DOMAIN t
  /\ DOMAIN t.forms = Forms(v)
  /\ \A f \in Forms(v) : FormFields \subseteq DOMAIN t.forms[f] /\ t.forms[f].opening \in Nat
  /\ \A c \in t.calls : IsCall(v, t, c)
  /\ t.gate # None => IsCall(v, t, t.gate) /\ t.gate.kind # "load" /\ t.gate.result = "verdict"
  /\ t.waiting => v.list \in Loads(v)

----------------------------------------------------------------------------
(* What keeps a write as its user meant it *)

\* What is in flight, and what waits to be sent again over a verdict.
Writes(t) == {c \in t.calls : c.kind = "write"}
Retried(t) == t.gate # None /\ t.gate.kind = "write"

\* A write whose component is still the one that sent it; the others close with nobody to tell.
Heard(v, t, c) == v.forms[c.for].child => t.forms[c.for].opening = c.opening
FlagOf(v, c) == Flag(v.forms[c.for], c.of)
KeyOf(c) == <<c.for, c.opening, c.of>>

\* The forms whose flag bars sending; the components that share one; the dialogs that wait for one.
Barred(v, f) == \E g \in Forms(v) : Disabled(v, v.forms[g]) /\ v.forms[g].flag = v.forms[f].flag
Paired(v, f, g) == Barred(v, f) /\ f # g /\ v.forms[f].flag = v.forms[g].flag /\ v.forms[f].child
Dialogs(v) == {f \in Forms(v) : Barred(v, f) /\ ~v.forms[f].busy}

\* The flag of a write is up until it is answered.
FlagsUp(v, t) ==
  \A c \in Writes(t) : Barred(v, c.for) /\ Heard(v, t, c) => FlagOf(v, c) \in t.up

\* No two writes share a flag, nor does the one that waits to be confirmed with any in flight.
FlagsApart(v, t) ==
  \A c \in Writes(t) : Barred(v, c.for) /\ Heard(v, t, c) =>
    /\ \A d \in Writes(t) \ {c} : Barred(v, d.for) /\ Heard(v, t, d) => FlagOf(v, c) # FlagOf(v, d)
    /\ Retried(t) /\ Barred(v, t.gate.for) /\ Heard(v, t, t.gate) => FlagOf(v, c) # FlagOf(v, t.gate)

\* Nor the opening and row they were sent from.
KeysApart(v, t) ==
  \A c \in Writes(t) : Disabled(v, v.forms[c.for]) =>
    /\ \A d \in Writes(t) \ {c} : KeyOf(c) # KeyOf(d)
    /\ Retried(t) => KeyOf(c) # KeyOf(t.gate)

\* An open dialog finds its flag lowered, and is the only one of that flag.
DialogsWait(v, t, but) ==
  \A f \in Dialogs(v) \ but : t.forms[f].up =>
    /\ \A x \in t.up : x[1] # v.forms[f].flag
    /\ Retried(t) => v.forms[t.gate.for].flag # v.forms[f].flag
    /\ \A g \in Dialogs(v) \ {f} : v.forms[f].flag = v.forms[g].flag => ~t.forms[g].up

\* Of two components that share a flag one is open at a time, and stays open while it saves.
PairsApart(v, t) ==
  \A f, g \in Forms(v) : Paired(v, f, g) =>
    /\ t.forms[f].up => ~t.forms[g].up
    /\ \A c \in Writes(t) : c.for = f /\ Heard(v, t, c) => t.forms[f].up

\* The invariant, but for dialogs that are about to be opened or closed.
MeantBut(v, t, but) ==
  /\ IsTab(v, t)
  /\ FlagsUp(v, t) /\ FlagsApart(v, t) /\ KeysApart(v, t) /\ DialogsWait(v, t, but) /\ PairsApart(v, t)
Meant(v, t) == MeantBut(v, t, {})

----------------------------------------------------------------------------
(* What the views promise *)

\* What ViewsAssumption says of each view.
OkView(v) ==
  /\ Refers(v) /\ FlagsBar(v) /\ FlagsFall(v) /\ LoadsSettle(v) /\ WritesReload(v)
  /\ \A f \in Forms(v) : ~(v.forms[f].late /\ v.forms[f].checked)

LEMMA HereIsOk ==
  ASSUME screen \in DOMAIN ViewOf
  PROVE  OkView(Here)
  BY ViewsAssumption DEF OkView, Here, Forms

LEMMA BarsHere ==
  ASSUME NEW v, OkView(v), NEW f \in Forms(v), NEW g \in Forms(v),
         Disabled(v, v.forms[g]), v.forms[f].flag = v.forms[g].flag
  PROVE  Bars(v, f, g)
  BY DEF OkView, FlagsBar, Forms

\* The forms of a flag that bars sending.
LEMMA BarFacts ==
  ASSUME NEW v, OkView(v), NEW f \in Forms(v), Barred(v, f)
  PROVE  /\ v.forms[f].flag # "" /\ \A p \in Loads(v) : v.loads[p].flag # v.forms[f].flag
         /\ ~v.forms[f].gate /\ ~v.forms[f].late /\ v.forms[f].per # "slot"
         /\ \A g \in Forms(v) : v.forms[f].flag = v.forms[g].flag =>
              /\ Barred(v, g) /\ v.forms[f].per = v.forms[g].per /\ v.forms[f].child = v.forms[g].child
<1>1. PICK h \in Forms(v) : Disabled(v, v.forms[h]) /\ v.forms[h].flag = v.forms[f].flag
  BY DEF Barred
<1>2. v.forms[h].per # "slot"
  BY <1>1 DEF Disabled
<1>3. ASSUME NEW g \in Forms(v), v.forms[f].flag = v.forms[g].flag
      PROVE  Barred(v, g) /\ v.forms[g].per = v.forms[h].per /\ v.forms[g].child = v.forms[h].child
  <2>1. v.forms[g].flag = v.forms[h].flag
    BY <1>1, <1>3
  <2>2. Barred(v, g)
    BY <1>1, <2>1 DEF Barred
  <2>3. Bars(v, g, h)
    BY <1>1, <2>1, BarsHere
  <2>4. v.forms[g].per = v.forms[h].per
    BY <2>3 DEF Bars
  <2>5. g # h => v.forms[g].child = v.forms[h].child
    BY <2>3 DEF Bars
  <2>6. g = h => v.forms[g].child = v.forms[h].child
    OBVIOUS
  <2>7. QED BY <2>2, <2>4, <2>5, <2>6
<1>4. v.forms[f].per = v.forms[h].per /\ v.forms[f].child = v.forms[h].child
  BY <1>3
<1>5. Bars(v, f, h)
  BY <1>1, BarsHere
<1>6. v.forms[f].flag # "" /\ (\A p \in Loads(v) : v.loads[p].flag # v.forms[f].flag)
      /\ ~v.forms[f].gate /\ ~v.forms[f].late
  BY <1>5 DEF Bars, Loads
<1>7. QED BY <1>2, <1>3, <1>4, <1>6

\* A dialog that waits for a flag is a panel of a row, in front of the others.
LEMMA DialogFacts ==
  ASSUME NEW v, OkView(v), NEW f \in Dialogs(v)
  PROVE  /\ f \in Forms(v) /\ Barred(v, f)
         /\ v.forms[f].waits = v.forms[f].flag /\ v.forms[f].opens = "row" /\ v.forms[f].layer = 2
         /\ v.forms[f].from # 2 /\ v.forms[f].leaves = "sent" /\ ~v.forms[f].checked /\ ~v.forms[f].child
         /\ \A h \in Forms(v) : v.forms[h].leads # f
<1>1. f \in Forms(v) /\ Barred(v, f) /\ ~v.forms[f].busy
  BY DEF Dialogs
<1>2. PICK h \in Forms(v) : Disabled(v, v.forms[h]) /\ v.forms[h].flag = v.forms[f].flag
  BY <1>1 DEF Barred
<1>3. f # h
  BY <1>1, <1>2 DEF Disabled
<1>4. Bars(v, f, h)
  BY <1>1, <1>2, BarsHere
<1>5. /\ v.forms[f].waits = v.forms[f].flag /\ v.forms[f].opens = "row" /\ v.forms[f].layer = 2
      /\ v.forms[f].from # 2 /\ v.forms[f].leaves = "sent" /\ ~v.forms[f].checked
      /\ \A g \in Forms(v) : v.forms[g].leads # f
  BY <1>1, <1>4 DEF Bars, Following, Forms
<1>6. ~v.forms[f].child
  <2>1. v.forms[f].child => v.forms[f].layer = 1
    BY <1>3, <1>4 DEF Bars
  <2>2. QED BY <1>5, <2>1
<1>7. QED BY <1>1, <1>5, <1>6

LEMMA BusyBars ==
  ASSUME NEW v, OkView(v), NEW f \in Forms(v), Barred(v, f), v.forms[f].busy
  PROVE  Disabled(v, v.forms[f])
<1>1. PICK h \in Forms(v) : Disabled(v, v.forms[h]) /\ v.forms[h].flag = v.forms[f].flag
  BY DEF Barred
<1>2. ~v.forms[f].gate /\ v.forms[f].per # "slot"
  BY BarFacts
<1>3. QED BY <1>1, <1>2 DEF Disabled, Forms

\* Components that share such a flag are panels of the first layer, opened by hand.
LEMMA PairFacts ==
  ASSUME NEW v, OkView(v), NEW f \in Forms(v), NEW g \in Forms(v), Paired(v, f, g)
  PROVE  /\ Paired(v, g, f)
         /\ v.forms[f].opens \in {"row", "blank"} /\ v.forms[f].layer = 1 /\ v.forms[f].from = 0
         /\ ~v.forms[f].checked
         /\ \A x \in Forms(v) : v.forms[x].leads # f /\ f \notin v.forms[x].shuts \cup v.forms[x].closes
<1>1. Barred(v, f) /\ f # g /\ v.forms[f].flag = v.forms[g].flag /\ v.forms[f].child
  BY DEF Paired
<1>2. PICK h \in Forms(v) : Disabled(v, v.forms[h]) /\ v.forms[h].flag = v.forms[f].flag
  BY <1>1 DEF Barred
<1>3. Barred(v, g) /\ v.forms[g].child /\ v.forms[g].per = v.forms[f].per
  BY <1>1, BarFacts
<1>4. g \notin Dialogs(v) /\ ~v.forms[g].gate /\ v.forms[g].per # "slot"
  BY <1>1, <1>3, DialogFacts, BarFacts
<1>5. Disabled(v, v.forms[g])
  <2>1. v.forms[g].busy
    BY <1>3, <1>4 DEF Dialogs
  <2>2. v.forms[g].flag = v.forms[h].flag
    BY <1>1, <1>2
  <2>3. QED BY <1>2, <1>4, <2>1, <2>2 DEF Disabled, Forms
<1>6. Bars(v, f, g)
  BY <1>1, <1>5, BarsHere
<1>7. /\ v.forms[f].opens \in {"row", "blank"} /\ v.forms[f].layer = 1 /\ v.forms[f].from = 0 /\ ~v.forms[f].checked
      /\ \A x \in Forms(v) : v.forms[x].leads # f /\ f \notin v.forms[x].shuts \cup v.forms[x].closes
  BY <1>1, <1>6 DEF Bars, Following, Forms
<1>8. QED BY <1>1, <1>3, <1>7 DEF Paired

\* A least number.
LEMMA LeastNat ==
  ASSUME NEW T \in SUBSET Nat, T # {}
  PROVE  \E m \in T : \A n \in T : m <= n
<1> DEFINE R == OpToRel(<, Nat)
<1>1. IsWellFoundedOn(R, Nat)
  BY NatLessThanWellFounded
<1>2. \A x, y \in Nat : <<x, y>> \in R <=> x < y
  BY DEF OpToRel
<1> HIDE DEF R
<1>3. PICK m \in T : \A n \in T : ~ (<<n, m>> \in R)
  BY <1>1, WFMin
<1>4. \A n \in T : ~(n < m)
  BY <1>2, <1>3
<1>5. QED BY <1>4

----------------------------------------------------------------------------
(* Asking for several panels, one after the other *)

\* Over a set of panels, as the fold of the library takes them: any one last.
One(s) == CHOOSE x \in s : TRUE
UpTo(ps, n) == {s \in SUBSET ps : Cardinality(s) <= n}

AskFold(t, ps) == CHOOSE g : g = [s \in SUBSET ps |-> IF s = {} THEN t ELSE AskOne(g[s \ {One(s)}], One(s))]
RowFold(t, ps, row) == CHOOSE g : g = [s \in SUBSET ps |-> IF s = {} THEN t ELSE Ask(g[s \ {One(s)}], One(s), row)]

AskRounds(g, t, D) == \A s \in D : g[s] = IF s = {} THEN t ELSE AskOne(g[s \ {One(s)}], One(s))
RowRounds(g, t, D, row) == \A s \in D : g[s] = IF s = {} THEN t ELSE Ask(g[s \ {One(s)}], One(s), row)

LEMMA SmallerSets ==
  ASSUME NEW ps, IsFiniteSet(ps)
  PROVE  /\ \A n \in Nat : \A s \in UpTo(ps, n + 1) : s # {} => One(s) \in s /\ s \ {One(s)} \in UpTo(ps, n)
         /\ \A n \in Nat : UpTo(ps, n) \subseteq UpTo(ps, n + 1)
         /\ UpTo(ps, 0) = {{}}
         /\ \A s \in SUBSET ps : s \in UpTo(ps, Cardinality(ps))
         /\ Cardinality(ps) \in Nat
<1>1. \A s \in SUBSET ps : IsFiniteSet(s) /\ Cardinality(s) \in Nat /\ Cardinality(s) <= Cardinality(ps)
  BY FS_Subset, FS_CardinalityType
<1>2. Cardinality(ps) \in Nat
  BY FS_CardinalityType
<1>3. ASSUME NEW n \in Nat, NEW s \in UpTo(ps, n + 1), s # {}
      PROVE  One(s) \in s /\ s \ {One(s)} \in UpTo(ps, n)
  <2>1. One(s) \in s
    BY <1>3 DEF One
  <2>2. IsFiniteSet(s) /\ s \in SUBSET ps /\ Cardinality(s) \in Nat /\ Cardinality(s) <= n + 1
    BY <1>1 DEF UpTo
  <2>3. Cardinality(s \ {One(s)}) = Cardinality(s) - 1
    BY <2>1, <2>2, FS_RemoveElement
  <2>4. QED BY <2>1, <2>2, <2>3 DEF UpTo
<1>4. \A n \in Nat : UpTo(ps, n) \subseteq UpTo(ps, n + 1)
  BY <1>1 DEF UpTo
<1>5. UpTo(ps, 0) = {{}}
  BY <1>1, FS_EmptySet DEF UpTo
<1>6. QED BY <1>1, <1>2, <1>3, <1>4, <1>5 DEF UpTo

\* The folds, one panel unfolded.
LEMMA AskAllUnfolds ==
  ASSUME NEW t, NEW ps, IsFiniteSet(ps)
  PROVE  \E g : AskAll(t, ps) = g[ps] /\ AskRounds(g, t, SUBSET ps)
<1> DEFINE Good(n) == \E g : g = [s \in UpTo(ps, n) |-> g[s]] /\ AskRounds(g, t, UpTo(ps, n))
<1>1. \A n \in Nat : Good(n)
  <2> SUFFICES ASSUME NEW n \in Nat, ~Good(n) PROVE FALSE
    OBVIOUS
  <2> DEFINE Broken == {m \in Nat : ~Good(m)}
  <2>1. PICK m \in Broken : \A k \in Broken : m <= k
    BY LeastNat
  <2>2. Good(0)
    <3> DEFINE g == [s \in {{}} |-> t]
    <3>1. g = [s \in UpTo(ps, 0) |-> g[s]]
      BY SmallerSets
    <3>2. AskRounds(g, t, UpTo(ps, 0))
      BY SmallerSets DEF AskRounds
    <3> HIDE DEF g
    <3>3. QED BY <3>1, <3>2
  <2>3. m \in Nat /\ m # 0 /\ m - 1 \in Nat /\ ~(m - 1 \in Broken)
    BY <2>1, <2>2
  <2>4. PICK h : h = [s \in UpTo(ps, m - 1) |-> h[s]] /\ AskRounds(h, t, UpTo(ps, m - 1))
    BY <2>3
  <2> DEFINE g == [s \in UpTo(ps, m) |-> IF s = {} THEN t ELSE AskOne(h[s \ {One(s)}], One(s))]
  <2>5. \A s \in UpTo(ps, m - 1) : s \in UpTo(ps, m) /\ g[s] = h[s]
    <3>1. UpTo(ps, m - 1) \subseteq UpTo(ps, m - 1 + 1)
      BY <2>3, SmallerSets
    <3>2. m - 1 + 1 = m
      BY <2>3
    <3>3. QED BY <3>1, <3>2, <2>4 DEF AskRounds
  <2>6. \A s \in UpTo(ps, m) : s # {} => s \ {One(s)} \in UpTo(ps, m - 1)
    <3>1. \A s \in UpTo(ps, m - 1 + 1) : s # {} => s \ {One(s)} \in UpTo(ps, m - 1)
      BY <2>3, SmallerSets
    <3>2. m - 1 + 1 = m
      BY <2>3
    <3>3. QED BY <3>1, <3>2
  <2>7. AskRounds(g, t, UpTo(ps, m))
    BY <2>5, <2>6 DEF AskRounds
  <2>8. g = [s \in UpTo(ps, m) |-> g[s]]
    OBVIOUS
  <2> HIDE DEF g
  <2>9. Good(m)
    BY <2>7, <2>8
  <2>10. QED BY <2>1, <2>9
<1>2. PICK g : g = [s \in UpTo(ps, Cardinality(ps)) |-> g[s]] /\ AskRounds(g, t, UpTo(ps, Cardinality(ps)))
  BY <1>1, SmallerSets
<1>3. UpTo(ps, Cardinality(ps)) = SUBSET ps
  BY SmallerSets DEF UpTo
<1>4. g = [s \in SUBSET ps |-> IF s = {} THEN t ELSE AskOne(g[s \ {One(s)}], One(s))]
  BY <1>2, <1>3 DEF AskRounds
<1> DEFINE fold == AskFold(t, ps)
<1>5. fold = [s \in SUBSET ps |-> IF s = {} THEN t ELSE AskOne(fold[s \ {One(s)}], One(s))]
  BY <1>4 DEF AskFold
<1>6. AskRounds(fold, t, SUBSET ps)
  <2> HIDE DEF fold
  <2>1. QED BY <1>5 DEF AskRounds
<1>7. AskAll(t, ps) = fold[ps]
  BY DEF AskAll, FoldSet, MapThenFoldSet, AskFold, One
<1> HIDE DEF fold
<1>8. QED BY <1>6, <1>7

LEMMA AskAboutUnfolds ==
  ASSUME NEW t, NEW ps, NEW row, IsFiniteSet(ps)
  PROVE  \E g : AskAbout(t, ps, row) = g[ps] /\ RowRounds(g, t, SUBSET ps, row)
<1> DEFINE Good(n) == \E g : g = [s \in UpTo(ps, n) |-> g[s]] /\ RowRounds(g, t, UpTo(ps, n), row)
<1>1. \A n \in Nat : Good(n)
  <2> SUFFICES ASSUME NEW n \in Nat, ~Good(n) PROVE FALSE
    OBVIOUS
  <2> DEFINE Broken == {m \in Nat : ~Good(m)}
  <2>1. PICK m \in Broken : \A k \in Broken : m <= k
    BY LeastNat
  <2>2. Good(0)
    <3> DEFINE g == [s \in {{}} |-> t]
    <3>1. g = [s \in UpTo(ps, 0) |-> g[s]]
      BY SmallerSets
    <3>2. RowRounds(g, t, UpTo(ps, 0), row)
      BY SmallerSets DEF RowRounds
    <3> HIDE DEF g
    <3>3. QED BY <3>1, <3>2
  <2>3. m \in Nat /\ m # 0 /\ m - 1 \in Nat /\ ~(m - 1 \in Broken)
    BY <2>1, <2>2
  <2>4. PICK h : h = [s \in UpTo(ps, m - 1) |-> h[s]] /\ RowRounds(h, t, UpTo(ps, m - 1), row)
    BY <2>3
  <2> DEFINE g == [s \in UpTo(ps, m) |-> IF s = {} THEN t ELSE Ask(h[s \ {One(s)}], One(s), row)]
  <2>5. \A s \in UpTo(ps, m - 1) : s \in UpTo(ps, m) /\ g[s] = h[s]
    <3>1. UpTo(ps, m - 1) \subseteq UpTo(ps, m - 1 + 1)
      BY <2>3, SmallerSets
    <3>2. m - 1 + 1 = m
      BY <2>3
    <3>3. QED BY <3>1, <3>2, <2>4 DEF RowRounds
  <2>6. \A s \in UpTo(ps, m) : s # {} => s \ {One(s)} \in UpTo(ps, m - 1)
    <3>1. \A s \in UpTo(ps, m - 1 + 1) : s # {} => s \ {One(s)} \in UpTo(ps, m - 1)
      BY <2>3, SmallerSets
    <3>2. m - 1 + 1 = m
      BY <2>3
    <3>3. QED BY <3>1, <3>2
  <2>7. RowRounds(g, t, UpTo(ps, m), row)
    BY <2>5, <2>6 DEF RowRounds
  <2>8. g = [s \in UpTo(ps, m) |-> g[s]]
    OBVIOUS
  <2> HIDE DEF g
  <2>9. Good(m)
    BY <2>7, <2>8
  <2>10. QED BY <2>1, <2>9
<1>2. PICK g : g = [s \in UpTo(ps, Cardinality(ps)) |-> g[s]] /\ RowRounds(g, t, UpTo(ps, Cardinality(ps)), row)
  BY <1>1, SmallerSets
<1>3. UpTo(ps, Cardinality(ps)) = SUBSET ps
  BY SmallerSets DEF UpTo
<1>4. g = [s \in SUBSET ps |-> IF s = {} THEN t ELSE Ask(g[s \ {One(s)}], One(s), row)]
  BY <1>2, <1>3 DEF RowRounds
<1> DEFINE fold == RowFold(t, ps, row)
<1>5. fold = [s \in SUBSET ps |-> IF s = {} THEN t ELSE Ask(fold[s \ {One(s)}], One(s), row)]
  BY <1>4 DEF RowFold
<1>6. RowRounds(fold, t, SUBSET ps, row)
  <2> HIDE DEF fold
  <2>1. QED BY <1>5 DEF RowRounds
<1>7. AskAbout(t, ps, row) = fold[ps]
  BY DEF AskAbout, FoldSet, MapThenFoldSet, RowFold, One
<1> HIDE DEF fold
<1>8. QED BY <1>6, <1>7

----------------------------------------------------------------------------
(* What asking leaves alone *)

\* What asking needs of a tab, and what it leaves alone of one.
Shape(v, t) ==
  /\ TabFields \subseteq DOMAIN t
  /\ DOMAIN t.forms = Forms(v) /\ \A f \in Forms(v) : FormFields \subseteq DOMAIN t.forms[f]
  /\ \A c \in t.calls : CallFields \subseteq DOMAIN c /\ (c.kind = "load" => c.for \in Loads(v))

Aside(v, t, u) ==
  /\ Shape(v, u)
  /\ u.gate = t.gate
  /\ u.waiting => t.waiting \/ v.list \in Loads(v)
  /\ \A f \in Forms(v) : u.forms[f].up = t.forms[f].up /\ u.forms[f].opening = t.forms[f].opening
  /\ \A c : c.kind # "load" => (c \in u.calls <=> c \in t.calls)
  /\ \A x : (\A p \in Loads(v) : x[1] # v.loads[p].flag) => (x \in u.up <=> x \in t.up)

LEMMA AsideTransitive ==
  ASSUME NEW v, NEW t, NEW u, NEW w, Aside(v, t, u), Aside(v, u, w)
  PROVE  Aside(v, t, w)
  BY DEF Aside

LEMMA AsideReflexive ==
  ASSUME NEW v, NEW t, Shape(v, t)
  PROVE  Aside(v, t, t)
  BY DEF Aside

\* A request asked again is of the load it was.
LEMMA Renumbered ==
  ASSUME NEW c, CallFields \subseteq DOMAIN c, NEW n
  PROVE  LET d == [c EXCEPT !.no = n] IN CallFields \subseteq DOMAIN d /\ d.kind = c.kind /\ d.for = c.for
  BY DEF CallFields

LEMMA RequestHasFields ==
  ASSUME NEW p, NEW q, NEW n, NEW g
  PROVE  LET d == [Request EXCEPT !.for = p, !.of = q, !.no = n, !.gen = g]
         IN CallFields \subseteq DOMAIN d /\ d.kind = "load" /\ d.for = p
  BY DEF CallFields, Request

LEMMA AskForAside ==
  ASSUME NEW t, Shape(Here, t), NEW p \in Loads(Here), NEW q
  PROVE  Aside(Here, t, AskFor(LoadOf(p), t, p, q))
<1> DEFINE l == LoadOf(p)
           n == t.asked + 1
           good == {k \in t.kept: l.kept /\ k.for = p /\ k.of = q /\ k.gen = t.told}
           same == {c \in InFlight(t, {p}): l.shared /\ c.of = q}
           gone == same \cup IF l.guard = "abort" THEN InFlight(t, {p} \cup l.then) ELSE {}
           fresh == [Request EXCEPT !.for = p, !.of = q, !.no = n, !.gen = t.told]
           new == {[c EXCEPT !.no = n]: c \in IF same = {} THEN {fresh} ELSE same}
           u == AskFor(l, t, p, q)
<1>1. TabFields \subseteq DOMAIN u /\ u.forms = t.forms /\ u.gate = t.gate /\ u.waiting = t.waiting
  BY DEF AskFor, TabFields, Shape
<1>2. u.calls = t.calls \/ u.calls = (t.calls \ gone) \cup new
  BY DEF AskFor, TabFields, Shape
<1>3. u.up = t.up \/ u.up = t.up \cup {<<l.flag, None>>}
  BY DEF AskFor, TabFields, Shape
<1> HIDE DEF u, n
<1>4. \A c \in gone : c.kind = "load"
  BY DEF InFlight
<1>5. \A c \in new : CallFields \subseteq DOMAIN c /\ c.kind = "load" /\ c.for = p
  <2>1. \A c \in same : CallFields \subseteq DOMAIN c /\ c.kind = "load" /\ c.for = p
    BY DEF InFlight, Shape
  <2>2. CallFields \subseteq DOMAIN fresh /\ fresh.kind = "load" /\ fresh.for = p
    BY RequestHasFields
  <2> HIDE DEF same, fresh
  <2>3. ASSUME NEW c \in new PROVE CallFields \subseteq DOMAIN c /\ c.kind = "load" /\ c.for = p
    <3>1. PICK d \in IF same = {} THEN {fresh} ELSE same : c = [d EXCEPT !.no = n]
      BY <2>3
    <3>2. CallFields \subseteq DOMAIN d /\ d.kind = "load" /\ d.for = p
      BY <2>1, <2>2
    <3>3. QED BY <3>1, <3>2, Renumbered
  <2>4. QED BY <2>3
<1> HIDE DEF new, gone, same
<1>6. \A c : c.kind # "load" => (c \in u.calls <=> c \in t.calls)
  BY <1>2, <1>4, <1>5
<1>7. \A c \in u.calls : CallFields \subseteq DOMAIN c /\ (c.kind = "load" => c.for \in Loads(Here))
  BY <1>2, <1>5 DEF Shape
<1>8. \A x : (\A s \in Loads(Here) : x[1] # Here.loads[s].flag) => (x \in u.up <=> x \in t.up)
  BY <1>3 DEF LoadOf
<1> HIDE DEF l
<1>9. Aside(Here, t, u)
  BY <1>1, <1>6, <1>7, <1>8 DEF Aside, Shape
<1>10. QED BY <1>9 DEF u, l

LEMMA AskOneAside ==
  ASSUME NEW t, Shape(Here, t), NEW p \in Loads(Here)
  PROVE  Aside(Here, t, AskOne(t, p))
<1>1. CASE LoadOf(p).about = "subject" /\ t.subject = None
  <2> DEFINE u == Empty(LoadOf(p), t, p)
  <2>1. TabFields \subseteq DOMAIN u /\ u.forms = t.forms /\ u.gate = t.gate /\ u.waiting = t.waiting /\ u.calls = t.calls
    BY DEF Empty, TabFields, Shape
  <2>2. u.up = t.up \/ u.up = Without(t.up, LoadOf(p).flag)
    BY DEF Empty, TabFields, Shape
  <2> HIDE DEF u
  <2>3. Aside(Here, t, u)
    BY <2>1, <2>2 DEF Aside, Shape, Without, LoadOf
  <2>4. QED BY <1>1, <2>3 DEF AskOne, AskAgain, u
<1>2. CASE ~(LoadOf(p).about = "subject" /\ t.subject = None)
  <2>1. AskOne(t, p) = AskFor(LoadOf(p), t, p, Question(LoadOf(p), t, p))
    BY <1>2 DEF AskOne, AskAgain
  <2>2. QED BY <2>1, AskForAside
<1>3. QED BY <1>1, <1>2

LEMMA AskAllAside ==
  ASSUME NEW t, Shape(Here, t), NEW ps, ps \subseteq Loads(Here), IsFiniteSet(ps)
  PROVE  Aside(Here, t, AskAll(t, ps))
<1>1. PICK g : AskAll(t, ps) = g[ps] /\ AskRounds(g, t, SUBSET ps)
  BY AskAllUnfolds
<1> DEFINE Good(n) == \A s \in UpTo(ps, n) : Aside(Here, t, g[s])
<1>2. ASSUME NEW n \in Nat, ~Good(n) PROVE FALSE
  <2> DEFINE Broken == {m \in Nat : ~Good(m)}
  <2>1. PICK m \in Broken : \A k \in Broken : m <= k
    BY <1>2, LeastNat
  <2>2. Good(0)
    <3>1. \A s \in UpTo(ps, 0) : s = {}
      BY SmallerSets
    <3>2. g[{}] = t
      BY <1>1 DEF AskRounds
    <3>3. QED BY <3>1, <3>2, AsideReflexive
  <2>3. m \in Nat /\ m # 0 /\ m - 1 \in Nat /\ Good(m - 1) /\ m - 1 + 1 = m
    BY <2>1, <2>2
  <2>4. ASSUME NEW s \in UpTo(ps, m), s # {} PROVE Aside(Here, t, g[s])
    <3>1. s \in UpTo(ps, m - 1 + 1)
      BY <2>3
    <3>2. One(s) \in s /\ s \ {One(s)} \in UpTo(ps, m - 1)
      BY <2>3, <2>4, <3>1, SmallerSets
    <3>3. s \in SUBSET ps /\ g[s] = AskOne(g[s \ {One(s)}], One(s))
      BY <1>1, <2>4 DEF AskRounds, UpTo
    <3>4. Aside(Here, t, g[s \ {One(s)}])
      BY <2>3, <3>2
    <3>5. Shape(Here, g[s \ {One(s)}]) /\ One(s) \in Loads(Here)
      BY <3>2, <3>3, <3>4 DEF Aside
    <3>6. Aside(Here, g[s \ {One(s)}], AskOne(g[s \ {One(s)}], One(s)))
      BY <3>5, AskOneAside
    <3>7. QED BY <3>3, <3>4, <3>6, AsideTransitive
  <2>5. \A s \in UpTo(ps, m) : s = {} => Aside(Here, t, g[s])
    BY <1>1, AsideReflexive DEF AskRounds
  <2>6. QED BY <2>1, <2>4, <2>5
<1>3. ps \in UpTo(ps, Cardinality(ps)) /\ Cardinality(ps) \in Nat
  BY SmallerSets
<1>4. QED BY <1>1, <1>2, <1>3

LEMMA AskAboutAside ==
  ASSUME NEW t, Shape(Here, t), NEW ps, ps \subseteq Loads(Here), IsFiniteSet(ps), NEW row
  PROVE  Aside(Here, t, AskAbout(t, ps, row))
<1>1. PICK g : AskAbout(t, ps, row) = g[ps] /\ RowRounds(g, t, SUBSET ps, row)
  BY AskAboutUnfolds
<1> DEFINE Good(n) == \A s \in UpTo(ps, n) : Aside(Here, t, g[s])
<1>2. ASSUME NEW n \in Nat, ~Good(n) PROVE FALSE
  <2> DEFINE Broken == {m \in Nat : ~Good(m)}
  <2>1. PICK m \in Broken : \A k \in Broken : m <= k
    BY <1>2, LeastNat
  <2>2. Good(0)
    <3>1. \A s \in UpTo(ps, 0) : s = {}
      BY SmallerSets
    <3>2. g[{}] = t
      BY <1>1 DEF RowRounds
    <3>3. QED BY <3>1, <3>2, AsideReflexive
  <2>3. m \in Nat /\ m # 0 /\ m - 1 \in Nat /\ Good(m - 1) /\ m - 1 + 1 = m
    BY <2>1, <2>2
  <2>4. ASSUME NEW s \in UpTo(ps, m), s # {} PROVE Aside(Here, t, g[s])
    <3>1. s \in UpTo(ps, m - 1 + 1)
      BY <2>3
    <3>2. One(s) \in s /\ s \ {One(s)} \in UpTo(ps, m - 1)
      BY <2>3, <2>4, <3>1, SmallerSets
    <3>3. s \in SUBSET ps /\ g[s] = Ask(g[s \ {One(s)}], One(s), row)
      BY <1>1, <2>4 DEF RowRounds, UpTo
    <3>4. Aside(Here, t, g[s \ {One(s)}])
      BY <2>3, <3>2
    <3>5. Shape(Here, g[s \ {One(s)}]) /\ One(s) \in Loads(Here)
      BY <3>2, <3>3, <3>4 DEF Aside
    <3>6. Aside(Here, g[s \ {One(s)}], Ask(g[s \ {One(s)}], One(s), row))
      BY <3>5, AskForAside DEF Ask
    <3>7. QED BY <3>3, <3>4, <3>6, AsideTransitive
  <2>5. \A s \in UpTo(ps, m) : s = {} => Aside(Here, t, g[s])
    BY <1>1, AsideReflexive DEF RowRounds
  <2>6. QED BY <2>1, <2>4, <2>5
<1>3. ps \in UpTo(ps, Cardinality(ps)) /\ Cardinality(ps) \in Nat
  BY SmallerSets
<1>4. QED BY <1>1, <1>2, <1>3

----------------------------------------------------------------------------
(* What leaves the writes as meant *)

LEMMA TabShape ==
  ASSUME NEW v, NEW t, IsTab(v, t)
  PROVE  Shape(v, t)
  BY DEF IsTab, IsCall, Shape

\* Asking, forgetting and what is drawn leave the writes, their flags and the forms as they are.
LEMMA AsideKeeps ==
  ASSUME NEW v, OkView(v), NEW t, NEW u, NEW but, MeantBut(v, t, but), Aside(v, t, u)
  PROVE  MeantBut(v, u, but)
<1>1. \A c : c.kind # "load" => (c \in u.calls <=> c \in t.calls)
  BY DEF Aside
<1>2. \A c : c \in Writes(u) <=> c \in Writes(t)
  BY <1>1 DEF Writes
<1>3. u.gate = t.gate /\ (Retried(u) <=> Retried(t))
  BY DEF Aside, Retried
<1>4. \A f \in Forms(v) : u.forms[f].up = t.forms[f].up /\ u.forms[f].opening = t.forms[f].opening
  BY DEF Aside
<1>5. \A c : c.for \in Forms(v) => (Heard(v, u, c) <=> Heard(v, t, c))
  BY <1>4 DEF Heard
<1>6. ASSUME NEW f \in Forms(v), Barred(v, f), NEW x, x[1] = v.forms[f].flag
      PROVE  x \in u.up <=> x \in t.up
  <2>1. \A p \in Loads(v) : v.loads[p].flag # v.forms[f].flag
    BY <1>6, BarFacts
  <2>2. \A p \in Loads(v) : x[1] # v.loads[p].flag
    BY <1>6, <2>1
  <2>3. QED BY <2>2 DEF Aside
<1>7. IsTab(v, t) /\ \A c \in Writes(t) : c.for \in Forms(v)
  BY DEF MeantBut, IsTab, IsCall, Writes
<1>8. Retried(t) => t.gate.for \in Forms(v)
  BY DEF MeantBut, IsTab, IsCall, Retried
<1>9. IsTab(v, u)
  <2>1. TabFields \subseteq DOMAIN u /\ DOMAIN u.forms = Forms(v)
    BY DEF Aside, Shape
  <2>2. \A f \in Forms(v) : FormFields \subseteq DOMAIN u.forms[f] /\ u.forms[f].opening \in Nat
    BY <1>4, <1>7 DEF Aside, Shape, IsTab
  <2>3. \A c : IsCall(v, t, c) => IsCall(v, u, c)
    BY <1>4 DEF IsCall
  <2>4. \A c \in u.calls : c.kind = "load" => IsCall(v, u, c)
    BY DEF Aside, Shape, IsCall
  <2>5. \A c \in u.calls : c.kind # "load" => IsCall(v, u, c)
    BY <1>1, <1>7, <2>3 DEF IsTab
  <2>6. u.gate # None => IsCall(v, u, u.gate) /\ u.gate.kind # "load" /\ u.gate.result = "verdict"
    BY <1>3, <1>7, <2>3 DEF IsTab
  <2>7. u.waiting => v.list \in Loads(v)
    BY <1>7 DEF Aside, IsTab
  <2>8. QED BY <2>1, <2>2, <2>4, <2>5, <2>6, <2>7 DEF IsTab
<1>10. FlagsUp(v, u)
  <2>1. ASSUME NEW c \in Writes(u), Barred(v, c.for), Heard(v, u, c) PROVE FlagOf(v, c) \in u.up
    <3>1. c \in Writes(t) /\ c.for \in Forms(v) /\ Heard(v, t, c)
      BY <1>2, <1>5, <1>7, <2>1
    <3>2. FlagOf(v, c) \in t.up /\ FlagOf(v, c)[1] = v.forms[c.for].flag
      BY <2>1, <3>1 DEF MeantBut, FlagsUp, FlagOf, Flag
    <3>3. QED BY <1>6, <2>1, <3>1, <3>2
  <2>2. QED BY <2>1 DEF FlagsUp
<1>11. FlagsApart(v, u)
  BY <1>2, <1>3, <1>5, <1>7, <1>8 DEF MeantBut, FlagsApart
<1>12. KeysApart(v, u)
  BY <1>2, <1>3 DEF MeantBut, KeysApart
<1>13. DialogsWait(v, u, but)
  <2>1. ASSUME NEW f \in Dialogs(v) \ but, u.forms[f].up
        PROVE  /\ \A x \in u.up : x[1] # v.forms[f].flag
               /\ Retried(u) => v.forms[u.gate.for].flag # v.forms[f].flag
               /\ \A g \in Dialogs(v) \ {f} : v.forms[f].flag = v.forms[g].flag => ~u.forms[g].up
    <3>1. f \in Forms(v) /\ Barred(v, f) /\ t.forms[f].up /\ \A g \in Dialogs(v) : u.forms[g].up = t.forms[g].up
      BY <1>4, <2>1 DEF Dialogs
    <3>2. \A x \in u.up : x[1] = v.forms[f].flag => x \in t.up
      BY <1>6, <3>1
    <3>3. QED BY <1>3, <2>1, <3>1, <3>2 DEF MeantBut, DialogsWait
  <2>2. QED BY <2>1 DEF DialogsWait
<1>14. PairsApart(v, u)
  BY <1>2, <1>4, <1>5, <1>7 DEF MeantBut, PairsApart
<1>15. QED BY <1>9, <1>10, <1>11, <1>12, <1>13, <1>14 DEF MeantBut

\* Calls that are gone, and a question that is no longer asked.
LEMMA FewerKeeps ==
  ASSUME NEW v, NEW t, NEW u, NEW but, MeantBut(v, t, but), TabFields \subseteq DOMAIN u,
         u.calls \subseteq t.calls, u.up = t.up, u.gate \in {t.gate, None}, u.forms = t.forms, u.waiting = t.waiting
  PROVE  MeantBut(v, u, but)
<1>1. Writes(u) \subseteq Writes(t) /\ (Retried(u) => Retried(t) /\ u.gate = t.gate)
  BY DEF Writes, Retried
<1>2. \A c : Heard(v, u, c) <=> Heard(v, t, c)
  BY DEF Heard
<1>3. IsTab(v, u)
  BY DEF MeantBut, IsTab, IsCall
<1>4. FlagsUp(v, u)
  BY <1>1, <1>2 DEF MeantBut, FlagsUp
<1>5. FlagsApart(v, u)
  BY <1>1, <1>2 DEF MeantBut, FlagsApart
<1>6. KeysApart(v, u)
  BY <1>1 DEF MeantBut, KeysApart
<1>7. DialogsWait(v, u, but)
  BY <1>1 DEF MeantBut, DialogsWait
<1>8. PairsApart(v, u)
  BY <1>1, <1>2 DEF MeantBut, PairsApart
<1>9. QED BY <1>3, <1>4, <1>5, <1>6, <1>7, <1>8 DEF MeantBut

\* What a call is of stays the same while it is served, and from one of its steps to the next.
Twins(c, d) ==
  /\ CallFields \subseteq DOMAIN d
  /\ d.kind = c.kind /\ d.for = c.for /\ d.of = c.of /\ d.opening = c.opening
  /\ d.over = c.over /\ d.meant = c.meant /\ d.told = c.told

LEMMA TwinKeeps ==
  ASSUME NEW v, NEW t, NEW u, NEW but, MeantBut(v, t, but), TabFields \subseteq DOMAIN u,
         NEW c \in t.calls, NEW d, Twins(c, d), IsCall(v, t, d),
         u.calls = (t.calls \ {c}) \cup {d},
         u.up = t.up, u.gate = t.gate, u.forms = t.forms, u.waiting = t.waiting
  PROVE  MeantBut(v, u, but)
<1> DEFINE Was(e) == IF e = d THEN c ELSE e
<1>1. Retried(u) <=> Retried(t)
  BY DEF Retried
<1>2. \A e : Heard(v, u, e) <=> Heard(v, t, e)
  BY DEF Heard
<1>3. \A e \in Writes(u) : /\ Was(e) \in Writes(t) /\ Was(e).for = e.for /\ (Heard(v, t, e) <=> Heard(v, t, Was(e)))
                          /\ FlagOf(v, e) = FlagOf(v, Was(e)) /\ KeyOf(e) = KeyOf(Was(e))
  BY DEF Writes, Twins, Heard, FlagOf, KeyOf
<1>4. \A e1, e2 \in Writes(u) : e1 # e2 => Was(e1) # Was(e2)
  BY DEF Writes
<1> HIDE DEF Was
<1>5. IsTab(v, u)
  BY DEF MeantBut, IsTab, IsCall
<1>6. FlagsUp(v, u)
  BY <1>2, <1>3 DEF MeantBut, FlagsUp
<1>7. FlagsApart(v, u)
  <2>1. ASSUME NEW e \in Writes(u), Barred(v, e.for), Heard(v, u, e)
        PROVE  /\ \A g \in Writes(u) \ {e} : Barred(v, g.for) /\ Heard(v, u, g) => FlagOf(v, e) # FlagOf(v, g)
               /\ Retried(u) /\ Barred(v, u.gate.for) /\ Heard(v, u, u.gate) => FlagOf(v, e) # FlagOf(v, u.gate)
    <3>1. Was(e) \in Writes(t) /\ Barred(v, Was(e).for) /\ Heard(v, t, Was(e)) /\ FlagOf(v, e) = FlagOf(v, Was(e))
      BY <1>2, <1>3, <2>1
    <3>2. ASSUME NEW g \in Writes(u) \ {e}, Barred(v, g.for), Heard(v, u, g) PROVE FlagOf(v, e) # FlagOf(v, g)
      <4>1. Was(g) \in Writes(t) \ {Was(e)} /\ Barred(v, Was(g).for) /\ Heard(v, t, Was(g)) /\ FlagOf(v, g) = FlagOf(v, Was(g))
        BY <1>2, <1>3, <1>4, <3>2
      <4>2. QED BY <3>1, <4>1 DEF MeantBut, FlagsApart
    <3>3. Retried(u) /\ Barred(v, u.gate.for) /\ Heard(v, u, u.gate) => FlagOf(v, e) # FlagOf(v, u.gate)
      BY <1>1, <1>2, <3>1 DEF MeantBut, FlagsApart
    <3>4. QED BY <3>2, <3>3
  <2>2. QED BY <2>1 DEF FlagsApart
<1>8. KeysApart(v, u)
  <2>1. ASSUME NEW e \in Writes(u), Disabled(v, v.forms[e.for])
        PROVE  /\ \A g \in Writes(u) \ {e} : KeyOf(e) # KeyOf(g)
               /\ Retried(u) => KeyOf(e) # KeyOf(u.gate)
    <3>1. Was(e) \in Writes(t) /\ Disabled(v, v.forms[Was(e).for]) /\ KeyOf(e) = KeyOf(Was(e))
      BY <1>3, <2>1
    <3>2. \A g \in Writes(u) \ {e} : Was(g) \in Writes(t) \ {Was(e)} /\ KeyOf(g) = KeyOf(Was(g))
      BY <1>3, <1>4
    <3>3. QED BY <1>1, <3>1, <3>2 DEF MeantBut, KeysApart
  <2>2. QED BY <2>1 DEF KeysApart
<1>9. DialogsWait(v, u, but)
  BY <1>1 DEF MeantBut, DialogsWait
<1>10. PairsApart(v, u)
  <2>1. ASSUME NEW f \in Forms(v), NEW g \in Forms(v), Paired(v, f, g)
        PROVE  /\ u.forms[f].up => ~u.forms[g].up
               /\ \A e \in Writes(u) : e.for = f /\ Heard(v, u, e) => u.forms[f].up
    BY <1>2, <1>3, <2>1 DEF MeantBut, PairsApart
  <2>2. QED BY <2>1 DEF PairsApart
<1>11. QED BY <1>5, <1>6, <1>7, <1>8, <1>9, <1>10 DEF MeantBut

\* A write that is answered lowers its own flag.
LEMMA LowerKeeps ==
  ASSUME NEW v, OkView(v), NEW t, NEW u, NEW but, MeantBut(v, t, but), TabFields \subseteq DOMAIN u,
         NEW c \in Writes(t), Heard(v, t, c),
         u.calls = t.calls \ {c}, u.gate = t.gate, u.forms = t.forms, u.waiting = t.waiting,
         u.up = IF v.forms[c.for].per = "slot" THEN Without(t.up, v.forms[c.for].flag) ELSE t.up \ {FlagOf(v, c)}
  PROVE  MeantBut(v, u, but)
<1> DEFINE w == [t EXCEPT !.calls = @ \ {c}]
<1>1. c.for \in Forms(v)
  BY DEF MeantBut, IsTab, IsCall, Writes
<1>2. /\ TabFields \subseteq DOMAIN w /\ w.calls = t.calls \ {c} /\ w.up = t.up /\ w.gate = t.gate
      /\ w.forms = t.forms /\ w.waiting = t.waiting
  BY DEF MeantBut, IsTab, TabFields
<1> HIDE DEF w
<1>3. MeantBut(v, w, but)
  BY <1>2, FewerKeeps
<1>4. Writes(u) = Writes(w) /\ Writes(u) = Writes(t) \ {c} /\ (Retried(u) <=> Retried(w)) /\ u.gate = w.gate
  BY <1>2 DEF Writes, Retried
<1>5. \A d : (Heard(v, u, d) <=> Heard(v, w, d)) /\ (Heard(v, u, d) <=> Heard(v, t, d))
  BY <1>2 DEF Heard
<1>6. u.up \subseteq w.up
  BY <1>2 DEF Without
<1>7. FlagsUp(v, u)
  <2>1. ASSUME NEW d \in Writes(u), Barred(v, d.for), Heard(v, u, d) PROVE FlagOf(v, d) \in u.up
    <3>1. d \in Writes(t) /\ d # c /\ Heard(v, t, d) /\ d.for \in Forms(v)
      BY <1>4, <1>5, <2>1 DEF MeantBut, IsTab, IsCall, Writes
    <3>2. FlagOf(v, d) \in t.up /\ FlagOf(v, d)[1] = v.forms[d.for].flag
      BY <2>1, <3>1 DEF MeantBut, FlagsUp, FlagOf, Flag
    <3>3. CASE v.forms[c.for].flag = v.forms[d.for].flag
      <4>1. Barred(v, c.for) /\ v.forms[c.for].per # "slot"
        BY <1>1, <2>1, <3>1, <3>3, BarFacts
      <4>2. FlagOf(v, c) # FlagOf(v, d)
        BY <2>1, <3>1, <4>1 DEF MeantBut, FlagsApart
      <4>3. QED BY <3>2, <4>1, <4>2
    <3>4. CASE v.forms[c.for].flag # v.forms[d.for].flag
      <4>1. FlagOf(v, c)[1] = v.forms[c.for].flag
        BY DEF FlagOf, Flag
      <4>2. QED BY <3>2, <3>4, <4>1 DEF Without
    <3>5. QED BY <3>3, <3>4
  <2>2. QED BY <2>1 DEF FlagsUp
<1>8. IsTab(v, u)
  BY <1>2, <1>3 DEF MeantBut, IsTab, IsCall
<1>9. FlagsApart(v, u)
  BY <1>3, <1>4, <1>5 DEF MeantBut, FlagsApart
<1>10. KeysApart(v, u)
  BY <1>3, <1>4 DEF MeantBut, KeysApart
<1>11. DialogsWait(v, u, but)
  BY <1>2, <1>3, <1>4, <1>6 DEF MeantBut, DialogsWait
<1>12. PairsApart(v, u)
  BY <1>2, <1>3, <1>4, <1>5 DEF MeantBut, PairsApart
<1>13. QED BY <1>7, <1>8, <1>9, <1>10, <1>11, <1>12 DEF MeantBut

\* A question is asked about a call that is no longer in flight.
LEMMA QuestionKeeps ==
  ASSUME NEW v, NEW t, NEW u, NEW but, MeantBut(v, t, but), TabFields \subseteq DOMAIN u,
         NEW c, IsCall(v, t, c), c.kind # "load", c.result = "verdict",
         u.gate = c, u.calls = t.calls, u.up = t.up, u.forms = t.forms, u.waiting = t.waiting,
         c.kind = "write" =>
           /\ \A d \in Writes(t) : /\ Barred(v, c.for) /\ Heard(v, t, c) /\ Barred(v, d.for) /\ Heard(v, t, d) => FlagOf(v, d) # FlagOf(v, c)
                                   /\ Disabled(v, v.forms[d.for]) => KeyOf(d) # KeyOf(c)
           /\ \A f \in Dialogs(v) \ but : t.forms[f].up => v.forms[c.for].flag # v.forms[f].flag
  PROVE  MeantBut(v, u, but)
<1>1. Writes(u) = Writes(t) /\ (Retried(u) => c.kind = "write")
  BY DEF Writes, Retried
<1>2. \A e : Heard(v, u, e) <=> Heard(v, t, e)
  BY DEF Heard
<1>3. IsTab(v, u)
  BY DEF MeantBut, IsTab, IsCall
<1>4. FlagsUp(v, u)
  BY <1>1, <1>2 DEF MeantBut, FlagsUp
<1>5. FlagsApart(v, u)
  BY <1>1, <1>2 DEF MeantBut, FlagsApart
<1>6. KeysApart(v, u)
  BY <1>1 DEF MeantBut, KeysApart
<1>7. DialogsWait(v, u, but)
  BY <1>1 DEF MeantBut, DialogsWait
<1>8. PairsApart(v, u)
  BY <1>1, <1>2 DEF MeantBut, PairsApart
<1>9. QED BY <1>3, <1>4, <1>5, <1>6, <1>7, <1>8 DEF MeantBut

----------------------------------------------------------------------------
(* Closing and opening *)

\* A component is closed while it is open.
OpenPairs(v, t, fs) == \A f \in fs, g \in Forms(v) : f \in Forms(v) /\ Paired(v, f, g) => t.forms[f].up

LEMMA LeftForm ==
  ASSUME NEW f, NEW n
  PROVE  LET form == Left(f, n)
         IN /\ FormFields \subseteq DOMAIN form /\ form.up = (Here.forms[f].opens = "keyed")
            /\ Here.forms[f].child => form.opening = n + 1
            /\ ~Here.forms[f].child => form.opening = n + 0
<1> DEFINE form == Left(f, n)
<1>1. form.up = (Here.forms[f].opens = "keyed") /\ form.opening = n + IF Here.forms[f].child THEN 1 ELSE 0
  BY DEF Left, FormOf
<1>2. DOMAIN form = {"up", "row", "opening"}
  BY DEF Left
<1>3. FormFields \subseteq DOMAIN form
  BY <1>2 DEF FormFields
<1> HIDE DEF form
<1>4. (Here.forms[f].child => form.opening = n + 1) /\ (~Here.forms[f].child => form.opening = n + 0)
  BY <1>1
<1>5. QED BY <1>1, <1>3, <1>4 DEF form

LEMMA ShutFields ==
  ASSUME NEW t, IsTab(Here, t), NEW fs
  PROVE  LET u == ShutAll(t, fs)
         IN /\ TabFields \subseteq DOMAIN u /\ DOMAIN u.forms = Forms(Here)
            /\ u.calls = t.calls /\ u.gate = t.gate /\ u.waiting = t.waiting
            /\ \A f \in Forms(Here) : u.forms[f] = IF f \in fs THEN Left(f, t.forms[f].opening) ELSE t.forms[f]
            /\ u.up = {x \in t.up : \A f \in fs : FormOf(f).child => x[1] # FormOf(f).flag}
  BY DEF ShutAll, IsTab, TabFields

LEMMA ShutKeeps ==
  ASSUME NEW t, NEW fs, OkView(Here), fs \subseteq Forms(Here), MeantBut(Here, t, fs), OpenPairs(Here, t, fs)
  PROVE  Meant(Here, ShutAll(t, fs))
<1> DEFINE u == ShutAll(t, fs)
           v == Here
<1>1. IsTab(v, t)
  BY DEF MeantBut
<1>2. /\ TabFields \subseteq DOMAIN u /\ DOMAIN u.forms = Forms(v)
      /\ u.calls = t.calls /\ u.gate = t.gate /\ u.waiting = t.waiting
      /\ \A f \in Forms(v) : u.forms[f] = IF f \in fs THEN Left(f, t.forms[f].opening) ELSE t.forms[f]
      /\ u.up = {x \in t.up : \A f \in fs : v.forms[f].child => x[1] # v.forms[f].flag}
  BY <1>1, ShutFields DEF FormOf
<1>3. ASSUME NEW f \in fs
      PROVE  /\ u.forms[f].up = (v.forms[f].opens = "keyed") /\ FormFields \subseteq DOMAIN u.forms[f]
             /\ v.forms[f].child => u.forms[f].opening = t.forms[f].opening + 1
             /\ ~v.forms[f].child => u.forms[f].opening = t.forms[f].opening + 0
  <2>1. u.forms[f] = Left(f, t.forms[f].opening)
    BY <1>2
  <2>2. QED BY <2>1, LeftForm
<1>4. \A f \in Forms(v) : f \notin fs => u.forms[f] = t.forms[f]
  BY <1>2
<1> HIDE DEF u, v
<1>5. OkView(v) /\ fs \subseteq Forms(v) /\ MeantBut(v, t, fs) /\ OpenPairs(v, t, fs)
  BY DEF v
<1>6. ASSUME NEW f \in Forms(v)
      PROVE  /\ u.forms[f].opening \in Nat /\ t.forms[f].opening \in Nat /\ FormFields \subseteq DOMAIN u.forms[f]
             /\ t.forms[f].opening <= u.forms[f].opening
             /\ (f \in fs /\ v.forms[f].child => t.forms[f].opening < u.forms[f].opening)
  <2>1. PICK n \in Nat : n = t.forms[f].opening
    BY <1>1 DEF IsTab
  <2>2. PICK m : m = u.forms[f].opening
    OBVIOUS
  <2>3. FormFields \subseteq DOMAIN u.forms[f]
    <3>1. f \in fs => FormFields \subseteq DOMAIN u.forms[f]
      BY <1>3
    <3>2. f \notin fs => FormFields \subseteq DOMAIN u.forms[f]
      BY <1>1, <1>4 DEF IsTab
    <3>3. QED BY <3>1, <3>2
  <2>4. /\ f \in fs /\ v.forms[f].child => m = n + 1
        /\ ~(f \in fs /\ v.forms[f].child) => m = n
    <3>1. CASE f \in fs
      <4>1. /\ v.forms[f].child => m = n + 1
            /\ ~v.forms[f].child => m = n + 0
        BY <1>3, <2>1, <2>2, <3>1
      <4>2. QED BY <3>1, <4>1
    <3>2. CASE f \notin fs
      BY <1>4, <2>1, <2>2, <3>2
    <3>3. QED BY <3>1, <3>2
  <2>5. m \in Nat /\ n <= m /\ (f \in fs /\ v.forms[f].child => n < m)
    BY <2>4
  <2>6. QED BY <2>1, <2>2, <2>3, <2>5
<1>7. ASSUME NEW c, IsCall(v, t, c) PROVE IsCall(v, u, c)
  <2>1. ASSUME c.kind # "load" PROVE c.opening <= u.forms[c.for].opening
    <3>1. PICK n \in Nat : n = c.opening /\ c.for \in Forms(v) /\ n <= t.forms[c.for].opening
      BY <1>7, <2>1 DEF IsCall
    <3>2. PICK k, m \in Nat : k = t.forms[c.for].opening /\ m = u.forms[c.for].opening /\ k <= m
      BY <1>6, <3>1
    <3>3. QED BY <3>1, <3>2
  <2>2. QED BY <1>7, <2>1 DEF IsCall
<1>8. \A c : IsCall(v, t, c) /\ c.kind # "load" /\ Heard(v, u, c) => Heard(v, t, c) /\ (v.forms[c.for].child => c.for \notin fs)
  <2>1. ASSUME NEW c, IsCall(v, t, c), c.kind # "load", Heard(v, u, c), v.forms[c.for].child
        PROVE  c.for \notin fs /\ t.forms[c.for].opening = c.opening
    <3>1. c.for \in Forms(v) /\ c.opening \in Nat /\ c.opening <= t.forms[c.for].opening /\ u.forms[c.for].opening = c.opening
      BY <2>1 DEF IsCall, Heard
    <3>2. ~(t.forms[c.for].opening < u.forms[c.for].opening)
      <4>1. PICK n \in Nat, k \in Nat : n = c.opening /\ k = t.forms[c.for].opening /\ n <= k /\ u.forms[c.for].opening = n
        BY <1>6, <3>1
      <4>2. QED BY <4>1
    <3>3. c.for \notin fs
      BY <1>6, <2>1, <3>1, <3>2
    <3>4. QED BY <1>4, <3>1, <3>3
  <2>2. QED BY <2>1 DEF Heard
<1>9. Writes(u) = Writes(t) /\ (Retried(u) <=> Retried(t)) /\ u.gate = t.gate
  BY <1>2 DEF Writes, Retried
<1>10. \A c \in Writes(t) : IsCall(v, t, c) /\ c.kind # "load" /\ c.for \in Forms(v)
  BY <1>1 DEF IsTab, Writes, IsCall
<1>11. Retried(t) => IsCall(v, t, t.gate) /\ t.gate.kind # "load"
  BY <1>1 DEF IsTab, Retried
<1>12. IsTab(v, u)
  BY <1>1, <1>2, <1>6, <1>7 DEF IsTab
<1>13. FlagsUp(v, u)
  <2>1. ASSUME NEW c \in Writes(u), Barred(v, c.for), Heard(v, u, c) PROVE FlagOf(v, c) \in u.up
    <3>1. c \in Writes(t) /\ c.for \in Forms(v) /\ Heard(v, t, c) /\ (v.forms[c.for].child => c.for \notin fs)
      BY <1>8, <1>9, <1>10, <2>1
    <3>2. FlagOf(v, c) \in t.up /\ FlagOf(v, c)[1] = v.forms[c.for].flag
      BY <1>5, <2>1, <3>1 DEF MeantBut, FlagsUp, FlagOf, Flag
    <3>3. ASSUME NEW f \in fs, v.forms[f].child, v.forms[f].flag = v.forms[c.for].flag PROVE FALSE
      <4>1. Barred(v, f) /\ v.forms[c.for].child
        BY <1>5, <2>1, <3>1, <3>3, BarFacts
      <4>2. f # c.for /\ Paired(v, f, c.for) /\ Paired(v, c.for, f)
        BY <2>1, <3>1, <3>3, <4>1 DEF Paired
      <4>3. t.forms[f].up
        BY <1>5, <3>1, <4>2 DEF OpenPairs
      <4>4. t.forms[c.for].up
        BY <1>5, <3>1, <4>2 DEF MeantBut, PairsApart
      <4>5. QED BY <1>5, <3>1, <4>2, <4>3, <4>4 DEF MeantBut, PairsApart
    <3>4. QED BY <1>2, <3>2, <3>3
  <2>2. QED BY <2>1 DEF FlagsUp
<1>14. FlagsApart(v, u)
  BY <1>5, <1>8, <1>9, <1>10, <1>11 DEF MeantBut, FlagsApart
<1>15. KeysApart(v, u)
  BY <1>5, <1>9 DEF MeantBut, KeysApart
<1>16. \A f \in Dialogs(v) : u.forms[f].up => f \notin fs /\ t.forms[f].up
  BY <1>3, <1>4, <1>5, DialogFacts
<1>17. DialogsWait(v, u, {})
  <2>1. ASSUME NEW f \in Dialogs(v), u.forms[f].up
        PROVE  /\ \A x \in u.up : x[1] # v.forms[f].flag
               /\ Retried(u) => v.forms[u.gate.for].flag # v.forms[f].flag
               /\ \A g \in Dialogs(v) \ {f} : v.forms[f].flag = v.forms[g].flag => ~u.forms[g].up
    <3>1. f \in Dialogs(v) \ fs /\ t.forms[f].up /\ u.up \subseteq t.up
      BY <1>2, <1>16, <2>1
    <3>2. QED BY <1>5, <1>9, <1>16, <3>1 DEF MeantBut, DialogsWait
  <2>2. QED BY <2>1 DEF DialogsWait
<1>18. PairsApart(v, u)
  <2>1. ASSUME NEW f \in Forms(v), NEW g \in Forms(v), Paired(v, f, g)
        PROVE  /\ u.forms[f].up => ~u.forms[g].up
               /\ \A c \in Writes(u) : c.for = f /\ Heard(v, u, c) => u.forms[f].up
    <3>1. Paired(v, g, f) /\ v.forms[f].opens # "keyed" /\ v.forms[f].child
      BY <1>5, <2>1, PairFacts DEF Paired
    <3>2. v.forms[g].opens # "keyed"
      BY <1>5, <3>1, PairFacts
    <3>3. (u.forms[f].up => t.forms[f].up) /\ (u.forms[g].up => t.forms[g].up)
      BY <1>3, <1>4, <3>1, <3>2
    <3>4. u.forms[f].up => ~u.forms[g].up
      BY <1>5, <2>1, <3>3 DEF MeantBut, PairsApart
    <3>5. ASSUME NEW c \in Writes(u), c.for = f, Heard(v, u, c) PROVE u.forms[f].up
      <4>1. c \in Writes(t) /\ Heard(v, t, c) /\ f \notin fs
        BY <1>8, <1>9, <1>10, <3>1, <3>5
      <4>2. QED BY <1>4, <1>5, <2>1, <3>5, <4>1 DEF MeantBut, PairsApart
    <3>6. QED BY <3>4, <3>5
  <2>2. QED BY <2>1 DEF PairsApart
<1>19. Meant(v, u)
  BY <1>12, <1>13, <1>14, <1>15, <1>17, <1>18 DEF Meant, MeantBut
<1>20. QED BY <1>19 DEF u, v

\* A dialog is opened while what it waits for is over; a component, while none that shares its flag is open.
Openable(v, t, f) ==
  /\ f \in Forms(v)
  /\ f \in Dialogs(v) => /\ \A x \in t.up : x[1] # v.forms[f].flag
                         /\ Retried(t) => v.forms[t.gate.for].flag # v.forms[f].flag
                         /\ \A g \in Dialogs(v) \ {f} : v.forms[f].flag = v.forms[g].flag => ~t.forms[g].up
  /\ \A g \in Forms(v) : Paired(v, f, g) => ~t.forms[g].up

LEMMA OpenKeeps ==
  ASSUME NEW v, OkView(v), NEW t, NEW u, NEW f, Meant(v, t), Openable(v, t, f),
         TabFields \subseteq DOMAIN u, DOMAIN u.forms = Forms(v),
         u.calls = t.calls, u.gate = t.gate, u.waiting = t.waiting,
         \A g \in Forms(v) \ {f} : u.forms[g] = t.forms[g],
         FormFields \subseteq DOMAIN u.forms[f], u.forms[f].up = TRUE, u.forms[f].opening = t.forms[f].opening + 1,
         u.up = IF v.forms[f].child THEN Without(t.up, v.forms[f].flag) ELSE t.up
  PROVE  Meant(v, u)
<1>1. IsTab(v, t) /\ f \in Forms(v)
  BY DEF Meant, MeantBut, Openable
<1>2. /\ FlagsUp(v, t) /\ FlagsApart(v, t) /\ KeysApart(v, t) /\ DialogsWait(v, t, {}) /\ PairsApart(v, t)
  BY DEF Meant, MeantBut
<1>3. PICK n \in Nat : n = t.forms[f].opening /\ u.forms[f].opening = n + 1
  BY <1>1 DEF IsTab
<1>4. ASSUME NEW c, IsCall(v, t, c) PROVE IsCall(v, u, c)
  <2>1. ASSUME c.kind # "load" PROVE c.opening <= u.forms[c.for].opening
    <3>1. PICK k \in Nat : k = c.opening /\ c.for \in Forms(v) /\ k <= t.forms[c.for].opening
      BY <1>4, <2>1 DEF IsCall
    <3>2. QED BY <1>3, <3>1
  <2>2. QED BY <1>4, <2>1 DEF IsCall
<1>5. ASSUME NEW c, IsCall(v, t, c), c.kind # "load", Heard(v, u, c)
      PROVE  Heard(v, t, c) /\ (v.forms[f].child => c.for # f)
  <2>1. PICK k \in Nat : k = c.opening /\ c.for \in Forms(v) /\ k <= t.forms[c.for].opening
    BY <1>5 DEF IsCall
  <2>2. CASE c.for = f
    <3>1. u.forms[c.for].opening # c.opening
      BY <1>3, <2>1, <2>2
    <3>2. ~v.forms[c.for].child
      BY <1>5, <3>1 DEF Heard
    <3>3. QED BY <2>2, <3>2 DEF Heard
  <2>3. CASE c.for # f
    <3>1. u.forms[c.for] = t.forms[c.for]
      BY <2>1, <2>3
    <3>2. QED BY <1>5, <2>3, <3>1 DEF Heard
  <2>4. QED BY <2>2, <2>3
<1>6. Writes(u) = Writes(t) /\ (Retried(u) <=> Retried(t)) /\ u.gate = t.gate
  BY DEF Writes, Retried
<1>7. \A c \in Writes(t) : IsCall(v, t, c) /\ c.kind # "load" /\ c.for \in Forms(v)
  BY <1>1 DEF IsTab, Writes, IsCall
<1>8. Retried(t) => IsCall(v, t, t.gate) /\ t.gate.kind # "load"
  BY <1>1 DEF IsTab, Retried
<1>9. IsTab(v, u)
  <2>1. \A g \in Forms(v) : FormFields \subseteq DOMAIN u.forms[g] /\ u.forms[g].opening \in Nat
    BY <1>1, <1>3 DEF IsTab
  <2>2. QED BY <1>1, <1>4, <2>1 DEF IsTab
<1>10. FlagsUp(v, u)
  <2>1. ASSUME NEW c \in Writes(u), Barred(v, c.for), Heard(v, u, c) PROVE FlagOf(v, c) \in u.up
    <3>1. c \in Writes(t) /\ c.for \in Forms(v) /\ Heard(v, t, c) /\ (v.forms[f].child => c.for # f)
      BY <1>5, <1>6, <1>7, <2>1
    <3>2. FlagOf(v, c) \in t.up /\ FlagOf(v, c)[1] = v.forms[c.for].flag
      BY <1>2, <2>1, <3>1 DEF FlagsUp, FlagOf, Flag
    <3>3. ASSUME v.forms[f].child, v.forms[f].flag = v.forms[c.for].flag PROVE FALSE
      <4>1. Barred(v, f) /\ v.forms[c.for].child
        BY <1>1, <2>1, <3>1, <3>3, BarFacts
      <4>2. Paired(v, f, c.for) /\ Paired(v, c.for, f)
        BY <2>1, <3>1, <3>3, <4>1 DEF Paired
      <4>3. ~t.forms[c.for].up
        BY <3>1, <4>2 DEF Openable
      <4>4. QED BY <1>1, <1>2, <3>1, <4>2, <4>3 DEF PairsApart
    <3>4. QED BY <3>2, <3>3 DEF Without
  <2>2. QED BY <2>1 DEF FlagsUp
<1>11. FlagsApart(v, u)
  BY <1>2, <1>5, <1>6, <1>7, <1>8 DEF FlagsApart
<1>12. KeysApart(v, u)
  BY <1>2, <1>6 DEF KeysApart
<1>13. DialogsWait(v, u, {})
  <2>1. ASSUME NEW g \in Dialogs(v), u.forms[g].up
        PROVE  /\ \A x \in u.up : x[1] # v.forms[g].flag
               /\ Retried(u) => v.forms[u.gate.for].flag # v.forms[g].flag
               /\ \A h \in Dialogs(v) \ {g} : v.forms[g].flag = v.forms[h].flag => ~u.forms[h].up
    <3>1. u.up \subseteq t.up /\ \A h \in Dialogs(v) : h \in Forms(v) /\ (h # f => u.forms[h] = t.forms[h])
      BY DEF Without, Dialogs
    <3>2. CASE g = f
      BY <1>6, <2>1, <3>1, <3>2 DEF Openable
    <3>3. CASE g # f
      <4>1. t.forms[g].up
        BY <2>1, <3>1, <3>3
      <4>2. f \in Dialogs(v) => v.forms[g].flag # v.forms[f].flag
        BY <2>1, <3>3, <4>1 DEF Openable
      <4>3. QED BY <1>2, <1>6, <2>1, <3>1, <3>3, <4>1, <4>2 DEF DialogsWait
    <3>4. QED BY <3>2, <3>3
  <2>2. QED BY <2>1 DEF DialogsWait
<1>14. PairsApart(v, u)
  <2>1. ASSUME NEW g \in Forms(v), NEW h \in Forms(v), Paired(v, g, h)
        PROVE  /\ u.forms[g].up => ~u.forms[h].up
               /\ \A c \in Writes(u) : c.for = g /\ Heard(v, u, c) => u.forms[g].up
    <3>1. Paired(v, h, g) /\ g # h
      BY <2>1, PairFacts DEF Paired
    <3>2. u.forms[g].up => ~u.forms[h].up
      BY <1>2, <2>1, <3>1 DEF PairsApart, Openable
    <3>3. ASSUME NEW c \in Writes(u), c.for = g, Heard(v, u, c) PROVE u.forms[g].up
      BY <1>2, <1>5, <1>6, <1>7, <2>1, <3>3 DEF PairsApart
    <3>4. QED BY <3>2, <3>3
  <2>2. QED BY <2>1 DEF PairsApart
<1>15. QED BY <1>9, <1>10, <1>11, <1>12, <1>13, <1>14 DEF Meant, MeantBut

\* What is shut to open a form is no component that shares a flag.
LEMMA ShutsPairs ==
  ASSUME NEW v, OkView(v), NEW t, NEW f \in Forms(v)
  PROVE  OpenPairs(v, t, v.forms[f].shuts) /\ OpenPairs(v, t, v.forms[f].closes)
  BY PairFacts DEF OpenPairs

LEMMA MeantMeansBut ==
  ASSUME NEW v, NEW t, Meant(v, t), NEW but
  PROVE  MeantBut(v, t, but)
  BY DEF Meant, MeantBut, DialogsWait

LEMMA ViewRefers ==
  ASSUME NEW v, OkView(v), NEW f \in Forms(v)
  PROVE  /\ v.forms[f].asks \subseteq Loads(v) /\ v.forms[f].shows \subseteq Loads(v)
         /\ v.forms[f].shuts \subseteq Forms(v) /\ v.forms[f].closes \subseteq Forms(v)
         /\ v.forms[f].leads \in Forms(v) \cup {""}
         /\ IsFiniteSet(v.forms[f].asks) /\ IsFiniteSet(v.forms[f].shows)
<1>1. v.forms[f].asks \cup v.forms[f].shows \subseteq Loads(v) /\ IsFiniteSet(Loads(v))
  BY DEF OkView, Refers, Forms, Loads
<1>2. v.forms[f].shuts \cup v.forms[f].closes \subseteq Forms(v) /\ v.forms[f].leads \in Forms(v) \cup {""}
  BY DEF OkView, Refers, Forms
<1>3. QED BY <1>1, <1>2, FS_Subset

LEMMA ShowKeeps ==
  ASSUME NEW t, NEW f, NEW row, OkView(Here), Meant(Here, t), Openable(Here, t, f)
  PROVE  Meant(Here, Show(t, f, row))
<1> DEFINE v == Here
           w == ShutAll(t, FormOf(f).shuts)
           u == [w EXCEPT !.forms[f] = [up |-> TRUE, row |-> row, opening |-> @.opening + 1],
                          !.up = IF FormOf(f).child THEN Without(@, FormOf(f).flag) ELSE @]
<1>1. f \in Forms(v) /\ IsTab(v, t)
  BY DEF Openable, Meant, MeantBut
<1>2. v.forms[f].shuts \subseteq Forms(v) /\ v.forms[f].shows \subseteq Loads(v) /\ IsFiniteSet(v.forms[f].shows)
  BY <1>1, ViewRefers
<1>3. Meant(v, w)
  BY <1>1, <1>2, ShutsPairs, MeantMeansBut, ShutKeeps DEF FormOf
<1>4. /\ TabFields \subseteq DOMAIN w /\ DOMAIN w.forms = Forms(v)
      /\ w.calls = t.calls /\ w.gate = t.gate /\ w.waiting = t.waiting
      /\ \A g \in Forms(v) : w.forms[g] = IF g \in FormOf(f).shuts THEN Left(g, t.forms[g].opening) ELSE t.forms[g]
      /\ w.up \subseteq t.up
  BY <1>1, ShutFields
<1>5. Openable(v, w, f)
  <2>1. \A g \in Forms(v) : w.forms[g].up => v.forms[g].opens = "keyed" \/ t.forms[g].up
    <3> HIDE DEF w
    <3>1. ASSUME NEW g \in Forms(v), w.forms[g].up PROVE v.forms[g].opens = "keyed" \/ t.forms[g].up
      <4>1. CASE g \in FormOf(f).shuts
        <5>1. w.forms[g] = Left(g, t.forms[g].opening)
          BY <1>4, <4>1
        <5>2. QED BY <3>1, <5>1, LeftForm
      <4>2. CASE g \notin FormOf(f).shuts
        <5>1. w.forms[g] = t.forms[g]
          BY <1>4, <4>2
        <5>2. QED BY <3>1, <5>1
      <4>3. QED BY <4>1, <4>2
    <3>2. QED BY <3>1
  <2>2. Retried(w) => Retried(t) /\ w.gate = t.gate
    BY <1>4 DEF Retried
  <2>3. \A g \in Dialogs(v) : w.forms[g].up => t.forms[g].up
    BY <2>1, DialogFacts
  <2>4. \A g \in Forms(v) : Paired(v, f, g) /\ w.forms[g].up => t.forms[g].up
    BY <1>1, <2>1, PairFacts
  <2>5. QED BY <1>1, <1>4, <2>2, <2>3, <2>4 DEF Openable
<1>6. /\ TabFields \subseteq DOMAIN u /\ DOMAIN u.forms = Forms(v)
      /\ u.calls = w.calls /\ u.gate = w.gate /\ u.waiting = w.waiting
      /\ \A g \in Forms(v) \ {f} : u.forms[g] = w.forms[g]
      /\ u.forms[f] = [up |-> TRUE, row |-> row, opening |-> w.forms[f].opening + 1]
      /\ u.up = IF v.forms[f].child THEN Without(w.up, v.forms[f].flag) ELSE w.up
  <2> HIDE DEF w
  <2>1. QED BY <1>1, <1>4 DEF TabFields, FormOf
<1>7. Meant(v, u)
  <2> HIDE DEF u, w
  <2>1. FormFields \subseteq DOMAIN u.forms[f] /\ u.forms[f].up = TRUE /\ u.forms[f].opening = w.forms[f].opening + 1
    BY <1>6 DEF FormFields
  <2>2. QED BY <1>3, <1>5, <1>6, <2>1, OpenKeeps
<1>8. Show(t, f, row) = AskAbout(u, FormOf(f).shows, row)
  BY DEF Show
<1> HIDE DEF u
<1>9. Aside(v, u, AskAbout(u, FormOf(f).shows, row))
  <2>1. Shape(v, u)
    BY <1>7, TabShape DEF Meant, MeantBut
  <2>2. QED BY <1>2, <2>1, AskAboutAside DEF FormOf
<1>10. QED BY <1>7, <1>8, <1>9, AsideKeeps DEF Meant

----------------------------------------------------------------------------
(* Sending *)

\* A write that may be sent: no other has its flag, nor waits to be sent again with it.
Sendable(v, t, w) ==
  /\ IsCall(v, t, w) /\ w.kind = "write" /\ w.result = ""
  /\ Barred(v, w.for) =>
       /\ Heard(v, t, w) =>
            /\ \A d \in Writes(t) : Barred(v, d.for) /\ Heard(v, t, d) => FlagOf(v, d) # FlagOf(v, w)
            /\ Retried(t) /\ Barred(v, t.gate.for) /\ Heard(v, t, t.gate) => FlagOf(v, t.gate) # FlagOf(v, w)
       /\ \A d \in Writes(t) : KeyOf(d) # KeyOf(w)
       /\ Retried(t) => KeyOf(t.gate) # KeyOf(w)
       /\ \A g \in Dialogs(v) : t.forms[g].up /\ v.forms[g].flag = v.forms[w.for].flag => g = w.for
       /\ \A g \in Forms(v) : Paired(v, w.for, g) => t.forms[w.for].up

LEMMA AddKeeps ==
  ASSUME NEW v, OkView(v), NEW t, NEW u, NEW w, Meant(v, t), Sendable(v, t, w), TabFields \subseteq DOMAIN u,
         u.calls = t.calls \cup {w}, u.gate = t.gate, u.forms = t.forms, u.waiting = t.waiting,
         u.up = t.up \/ u.up = (IF v.forms[w.for].per = "slot" THEN Without(t.up, v.forms[w.for].flag) ELSE t.up) \cup {FlagOf(v, w)},
         Barred(v, w.for) /\ Heard(v, t, w) => FlagOf(v, w) \in u.up
  PROVE  MeantBut(v, u, IF Barred(v, w.for) THEN {w.for} ELSE {})
<1> DEFINE but == IF Barred(v, w.for) THEN {w.for} ELSE {}
<1>1. IsTab(v, t) /\ w.for \in Forms(v) /\ IsCall(v, t, w)
  BY DEF Meant, MeantBut, Sendable, IsCall
<1>2. /\ FlagsUp(v, t) /\ FlagsApart(v, t) /\ KeysApart(v, t) /\ DialogsWait(v, t, {}) /\ PairsApart(v, t)
  BY DEF Meant, MeantBut
<1>3. Writes(u) = Writes(t) \cup {w} /\ (Retried(u) <=> Retried(t)) /\ u.gate = t.gate
  BY DEF Writes, Retried, Sendable
<1>4. \A c : Heard(v, u, c) <=> Heard(v, t, c)
  BY DEF Heard
<1>5. \A c \in Writes(t) : c.for \in Forms(v)
  BY <1>1 DEF IsTab, Writes, IsCall
<1>6. \A x \in u.up : x \in t.up \/ x[1] = v.forms[w.for].flag
  BY DEF Without, FlagOf, Flag
<1>7. \A x \in t.up : x[1] # v.forms[w.for].flag \/ v.forms[w.for].per # "slot" => x \in u.up
  BY DEF Without
<1>8. IsTab(v, u)
  BY <1>1 DEF IsTab, IsCall
<1>9. FlagsUp(v, u)
  <2>1. ASSUME NEW c \in Writes(u), Barred(v, c.for), Heard(v, u, c) PROVE FlagOf(v, c) \in u.up
    <3>1. CASE c = w
      BY <1>4, <2>1, <3>1
    <3>2. CASE c # w
      <4>1. c \in Writes(t) /\ Heard(v, t, c) /\ c.for \in Forms(v)
        BY <1>3, <1>4, <1>5, <2>1, <3>2
      <4>2. FlagOf(v, c) \in t.up /\ FlagOf(v, c)[1] = v.forms[c.for].flag
        BY <1>2, <2>1, <4>1 DEF FlagsUp, FlagOf, Flag
      <4>3. v.forms[c.for].flag = v.forms[w.for].flag => v.forms[w.for].per # "slot"
        BY <1>1, <2>1, <4>1, BarFacts
      <4>4. QED BY <1>7, <4>2, <4>3
    <3>3. QED BY <3>1, <3>2
  <2>2. QED BY <2>1 DEF FlagsUp
<1>10. FlagsApart(v, u)
  <2>1. ASSUME NEW c \in Writes(u), Barred(v, c.for), Heard(v, u, c)
        PROVE  /\ \A d \in Writes(u) \ {c} : Barred(v, d.for) /\ Heard(v, u, d) => FlagOf(v, c) # FlagOf(v, d)
               /\ Retried(u) /\ Barred(v, u.gate.for) /\ Heard(v, u, u.gate) => FlagOf(v, c) # FlagOf(v, u.gate)
    <3>1. CASE c = w
      BY <1>3, <1>4, <2>1, <3>1 DEF Sendable
    <3>2. CASE c # w
      <4>1. c \in Writes(t) /\ Heard(v, t, c)
        BY <1>3, <1>4, <2>1, <3>2
      <4>2. Barred(v, w.for) /\ Heard(v, t, w) => FlagOf(v, c) # FlagOf(v, w)
        BY <2>1, <4>1 DEF Sendable
      <4>3. QED BY <1>2, <1>3, <1>4, <2>1, <4>1, <4>2 DEF FlagsApart
    <3>3. QED BY <3>1, <3>2
  <2>2. QED BY <2>1 DEF FlagsApart
<1>11. KeysApart(v, u)
  <2>1. ASSUME NEW c \in Writes(u), Disabled(v, v.forms[c.for])
        PROVE  /\ \A d \in Writes(u) \ {c} : KeyOf(c) # KeyOf(d)
               /\ Retried(u) => KeyOf(c) # KeyOf(u.gate)
    <3>1. CASE c = w
      <4>1. Barred(v, w.for)
        BY <1>1, <2>1, <3>1 DEF Barred
      <4>2. QED BY <1>3, <3>1, <4>1 DEF Sendable
    <3>2. CASE c # w
      <4>1. c \in Writes(t)
        BY <1>3, <3>2
      <4>2. KeyOf(c) # KeyOf(w)
        <5>1. CASE c.for = w.for
          <6>1. Barred(v, w.for)
            BY <1>1, <2>1, <5>1 DEF Barred
          <6>2. QED BY <4>1, <6>1 DEF Sendable
        <5>2. CASE c.for # w.for
          BY <5>2 DEF KeyOf
        <5>3. QED BY <5>1, <5>2
      <4>3. QED BY <1>2, <1>3, <2>1, <4>1, <4>2 DEF KeysApart
    <3>3. QED BY <3>1, <3>2
  <2>2. QED BY <2>1 DEF KeysApart
<1>12. DialogsWait(v, u, but)
  <2>1. ASSUME NEW f \in Dialogs(v) \ but, u.forms[f].up
        PROVE  /\ \A x \in u.up : x[1] # v.forms[f].flag
               /\ Retried(u) => v.forms[u.gate.for].flag # v.forms[f].flag
               /\ \A g \in Dialogs(v) \ {f} : v.forms[f].flag = v.forms[g].flag => ~u.forms[g].up
    <3>1. f \in Forms(v) /\ Barred(v, f)
      BY DEF Dialogs
    <3>2. v.forms[f].flag # v.forms[w.for].flag
      <4>1. CASE Barred(v, w.for)
        BY <2>1, <4>1 DEF Sendable
      <4>2. CASE ~Barred(v, w.for)
        BY <1>1, <3>1, <4>2, BarFacts
      <4>3. QED BY <4>1, <4>2
    <3>3. QED BY <1>2, <1>3, <1>6, <2>1, <3>2 DEF DialogsWait
  <2>2. QED BY <2>1 DEF DialogsWait
<1>13. PairsApart(v, u)
  <2>1. ASSUME NEW f \in Forms(v), NEW g \in Forms(v), Paired(v, f, g)
        PROVE  /\ u.forms[f].up => ~u.forms[g].up
               /\ \A c \in Writes(u) : c.for = f /\ Heard(v, u, c) => u.forms[f].up
    <3>1. ASSUME NEW c \in Writes(u), c.for = f, Heard(v, u, c) PROVE u.forms[f].up
      <4>1. CASE c = w
        BY <2>1, <3>1, <4>1 DEF Sendable, Paired
      <4>2. CASE c # w
        BY <1>2, <1>3, <1>4, <2>1, <3>1, <4>2 DEF PairsApart
      <4>3. QED BY <4>1, <4>2
    <3>2. QED BY <1>2, <2>1, <3>1 DEF PairsApart
  <2>2. QED BY <2>1 DEF PairsApart
<1>14. QED BY <1>8, <1>9, <1>10, <1>11, <1>12, <1>13 DEF MeantBut

\* What a call sends.
SentAs(t, f, call) ==
  [call EXCEPT !.kind = "write", !.of = IF FormOf(f).late THEN t.forms[f].row ELSE call.of, !.no = t.asked + 1, !.result = ""]

LEMMA SendKeeps ==
  ASSUME NEW t, NEW call, OkView(Here), Meant(Here, t), CallFields \subseteq DOMAIN call,
         Sendable(Here, t, SentAs(t, call.for, call))
  PROVE  Meant(Here, Send(t, call.for, call))
<1> DEFINE v == Here
           f == call.for
           form == FormOf(f)
           w == SentAs(t, f, call)
           made == [t EXCEPT !.asked = @ + 1, !.calls = @ \cup {w}]
           sent == IF Gone(t, call) THEN made ELSE Raise(made, form, w.of)
           but == IF Barred(v, f) THEN {f} ELSE {}
<1>1. w.for = f /\ w.opening = call.opening /\ w.of = (IF form.late THEN t.forms[f].row ELSE call.of)
  BY DEF SentAs, CallFields
<1>2. IsTab(v, t) /\ f \in Forms(v)
  BY <1>1 DEF Meant, MeantBut, Sendable, IsCall
<1>3. Send(t, f, call) = IF form.leaves = "sent" THEN Shut(sent, f) ELSE sent
  BY <1>1 DEF Send, SentAs
<1>4. Gone(t, call) <=> ~Heard(v, t, w)
  BY <1>1 DEF Gone, Heard, FormOf
<1> HIDE DEF w
<1>5. /\ TabFields \subseteq DOMAIN made /\ made.calls = t.calls \cup {w} /\ made.gate = t.gate
      /\ made.forms = t.forms /\ made.waiting = t.waiting /\ made.up = t.up
  BY <1>2 DEF IsTab, TabFields
<1> HIDE DEF made
<1>6. /\ TabFields \subseteq DOMAIN sent /\ sent.calls = t.calls \cup {w} /\ sent.gate = t.gate
      /\ sent.forms = t.forms /\ sent.waiting = t.waiting
      /\ sent.up = IF Gone(t, call) \/ form.flag = "" THEN t.up
                   ELSE (IF form.per = "slot" THEN Without(t.up, form.flag) ELSE t.up) \cup {Flag(form, w.of)}
  BY <1>5 DEF Raise, TabFields
<1> HIDE DEF sent
<1>7. MeantBut(v, sent, but)
  <2>1. Flag(form, w.of) = FlagOf(v, w)
    BY <1>1 DEF FlagOf, FormOf
  <2>2. sent.up = t.up \/ sent.up = (IF v.forms[w.for].per = "slot" THEN Without(t.up, v.forms[w.for].flag) ELSE t.up) \cup {FlagOf(v, w)}
    BY <1>1, <1>6, <2>1 DEF FormOf
  <2>3. Barred(v, w.for) /\ Heard(v, t, w) => FlagOf(v, w) \in sent.up
    <3>1. ASSUME Barred(v, w.for) PROVE form.flag # ""
      BY <1>1, <1>2, <3>1, BarFacts DEF FormOf
    <3>2. QED BY <1>4, <1>6, <2>1, <3>1
  <2>4. Sendable(v, t, w)
    BY DEF w
  <2>5. MeantBut(v, sent, IF Barred(v, w.for) THEN {w.for} ELSE {})
    BY <1>6, <2>2, <2>3, <2>4, AddKeeps
  <2>6. QED BY <1>1, <2>5
<1>8. CASE form.leaves = "sent"
  <2>1. MeantBut(v, sent, {f})
    BY <1>7 DEF MeantBut, DialogsWait
  <2>2. OpenPairs(v, sent, {f})
    <3>1. \A g \in Forms(v) : Paired(v, f, g) => t.forms[f].up
      BY <1>1 DEF Sendable, Paired, w
    <3>2. QED BY <1>6, <3>1 DEF OpenPairs
  <2>3. QED BY <1>2, <1>3, <1>8, <2>1, <2>2, ShutKeeps DEF Shut
<1>9. CASE form.leaves # "sent"
  <2>1. f \notin Dialogs(v)
    BY <1>9, DialogFacts DEF FormOf
  <2>2. Meant(v, sent)
    BY <1>7, <2>1 DEF Meant, MeantBut, DialogsWait
  <2>3. QED BY <1>3, <1>9, <2>2
<1>10. QED BY <1>8, <1>9

----------------------------------------------------------------------------
(* The parts of an answer *)

LEMMA MeantShape ==
  ASSUME NEW v, NEW t, NEW but, MeantBut(v, t, but)
  PROVE  IsTab(v, t) /\ Shape(v, t)
  BY TabShape DEF MeantBut

LEMMA OweAside ==
  ASSUME NEW t, Shape(Here, t), NEW form, NEW ns
  PROVE  LET u == Owe(t, form, ns)
         IN Aside(Here, t, u) /\ u.calls = t.calls /\ u.up = t.up /\ u.forms = t.forms
<1> DEFINE u == Owe(t, form, ns)
<1>1. TabFields \subseteq DOMAIN u /\ u.calls = t.calls /\ u.up = t.up /\ u.forms = t.forms /\ u.gate = t.gate /\ u.waiting = t.waiting
  BY DEF Owe, Shape, TabFields
<1> HIDE DEF u
<1>2. QED BY <1>1 DEF Aside, Shape, u

LEMMA PatchFields ==
  ASSUME NEW t, TabFields \subseteq DOMAIN t, NEW form, NEW c
  PROVE  LET u == Patch(t, form, c)
         IN /\ TabFields \subseteq DOMAIN u /\ u.calls = t.calls /\ u.up = t.up /\ u.forms = t.forms
            /\ u.gate = t.gate /\ u.waiting = t.waiting
  BY DEF Patch, TabFields

LEMMA UnheardAside ==
  ASSUME NEW t, Shape(Here, t), NEW form, NEW c
  PROVE  Aside(Here, t, Unheard(t, form, c))
<1> DEFINE w == Owe(t, form, c.done)
           u == Unheard(t, form, c)
<1>1. Aside(Here, t, w) /\ Shape(Here, w)
  BY OweAside DEF Aside
<1>2. u = [w EXCEPT !.panels = [p \in DOMAIN @ |-> IF p \in Asked(form) THEN [@[p] EXCEPT !.excuse = "untold"] ELSE @[p]]]
  BY DEF Unheard
<1> HIDE DEF w, u
<1>3. TabFields \subseteq DOMAIN u /\ u.calls = w.calls /\ u.up = w.up /\ u.forms = w.forms /\ u.gate = w.gate /\ u.waiting = w.waiting
  BY <1>1, <1>2 DEF Shape, TabFields
<1>4. Aside(Here, w, u)
  BY <1>1, <1>3 DEF Aside, Shape
<1>5. QED BY <1>1, <1>4, AsideTransitive DEF u

\* The row of a form is forgotten, and the form stays as open as it was.
LEMMA ForgetAside ==
  ASSUME NEW t, Shape(Here, t), NEW fs
  PROVE  Aside(Here, t, [t EXCEPT !.forms = [f \in DOMAIN @ |-> IF f \in fs THEN [@[f] EXCEPT !.row = None] ELSE @[f]]])
<1> DEFINE u == [t EXCEPT !.forms = [f \in DOMAIN @ |-> IF f \in fs THEN [@[f] EXCEPT !.row = None] ELSE @[f]]]
<1>1. /\ TabFields \subseteq DOMAIN u /\ u.calls = t.calls /\ u.up = t.up /\ u.gate = t.gate /\ u.waiting = t.waiting
      /\ u.forms = [f \in DOMAIN t.forms |-> IF f \in fs THEN [t.forms[f] EXCEPT !.row = None] ELSE t.forms[f]]
  BY DEF Shape, TabFields
<1>2. \A f \in Forms(Here) : FormFields \subseteq DOMAIN t.forms[f]
  BY DEF Shape
<1> HIDE DEF u
<1>3. DOMAIN u.forms = Forms(Here)
  BY <1>1 DEF Shape
<1>4. \A f \in Forms(Here) : /\ FormFields \subseteq DOMAIN u.forms[f]
                            /\ u.forms[f].up = t.forms[f].up /\ u.forms[f].opening = t.forms[f].opening
  BY <1>1, <1>2 DEF Shape, FormFields
<1>5. QED BY <1>1, <1>3, <1>4 DEF Aside, Shape, u

\* Loads that are dropped, and what a table mounted anew forgets.
LEMMA ReloadAside ==
  ASSUME NEW t, Shape(Here, t), OkView(Here), NEW f \in Forms(Here)
  PROVE  Aside(Here, t, Reload(t, FormOf(f)))
<1> DEFINE form == FormOf(f)
           fresh == [t EXCEPT !.calls = @ \ InFlight(t, form.asks)]
           w == IF ~form.anew THEN t
                ELSE IF Here.list \in form.asks
                     THEN [fresh EXCEPT !.query = t.url, !.written = t.url, !.waiting = FALSE]
                     ELSE fresh
<1>1. Reload(t, form) = AskAll(w, form.asks)
  BY DEF Reload
<1>2. /\ TabFields \subseteq DOMAIN w /\ w.up = t.up /\ w.forms = t.forms /\ w.gate = t.gate
      /\ w.waiting = t.waiting \/ w.waiting = FALSE
      /\ w.calls = t.calls \/ w.calls = t.calls \ InFlight(t, form.asks)
  BY DEF Shape, TabFields
<1> HIDE DEF w
<1>3. Aside(Here, t, w)
  BY <1>2 DEF Aside, Shape, InFlight
<1>4. Shape(Here, w) /\ form.asks \subseteq Loads(Here) /\ IsFiniteSet(form.asks)
  BY <1>3, ViewRefers DEF Aside, FormOf
<1>5. Aside(Here, w, AskAll(w, form.asks))
  BY <1>4, AskAllAside
<1>6. QED BY <1>1, <1>3, <1>5, AsideTransitive

\* A panel that another leads to is no dialog that waits, and no component that shares a flag.
LEMMA LeadKeeps ==
  ASSUME NEW t, OkView(Here), Meant(Here, t), NEW f \in Forms(Here), NEW row
  PROVE  Meant(Here, Lead(t, FormOf(f), row))
<1>1. CASE FormOf(f).leads = ""
  BY <1>1 DEF Lead
<1>2. CASE FormOf(f).leads # ""
  <2> DEFINE g == FormOf(f).leads
  <2>1. g \in Forms(Here) /\ Here.forms[f].leads = g
    BY <1>2, ViewRefers DEF FormOf
  <2> HIDE DEF g
  <2>2. g \notin Dialogs(Here)
    BY <2>1, DialogFacts
  <2>3. \A h \in Forms(Here) : ~Paired(Here, g, h)
    BY <2>1, PairFacts
  <2>4. Openable(Here, t, g)
    BY <2>1, <2>2, <2>3 DEF Openable
  <2>5. Meant(Here, Show(t, g, row))
    BY <2>4, ShowKeeps
  <2>6. QED BY <1>2, <2>5 DEF Lead, g
<1>3. QED BY <1>1, <1>2

\* A preview sends nothing.
LEMMA PreviewKeeps ==
  ASSUME NEW v, NEW t, NEW u, NEW c, Meant(v, t), TabFields \subseteq DOMAIN u, IsCall(v, t, c), c.kind = "preview",
         u.calls = t.calls \cup {c}, u.up = t.up, u.gate = t.gate, u.forms = t.forms, u.waiting = t.waiting
  PROVE  Meant(v, u)
<1>1. Writes(u) = Writes(t) /\ (Retried(u) <=> Retried(t))
  BY DEF Writes, Retried
<1>2. \A e : Heard(v, u, e) <=> Heard(v, t, e)
  BY DEF Heard
<1>3. IsTab(v, u)
  BY DEF Meant, MeantBut, IsTab, IsCall
<1>4. FlagsUp(v, u)
  BY <1>1, <1>2 DEF Meant, MeantBut, FlagsUp
<1>5. FlagsApart(v, u)
  BY <1>1, <1>2 DEF Meant, MeantBut, FlagsApart
<1>6. KeysApart(v, u)
  BY <1>1 DEF Meant, MeantBut, KeysApart
<1>7. DialogsWait(v, u, {})
  BY <1>1 DEF Meant, MeantBut, DialogsWait
<1>8. PairsApart(v, u)
  BY <1>1, <1>2 DEF Meant, MeantBut, PairsApart
<1>9. QED BY <1>3, <1>4, <1>5, <1>6, <1>7, <1>8 DEF Meant, MeantBut

\* Dropping one call.
LEMMA TakenFields ==
  ASSUME IsTab(Here, tab), NEW c
  PROVE  LET u == Taken(c)
         IN /\ TabFields \subseteq DOMAIN u /\ u.calls = tab.calls \ {c} /\ u.up = tab.up /\ u.gate = tab.gate
            /\ u.forms = tab.forms /\ u.waiting = tab.waiting
  BY DEF Taken, IsTab, TabFields

LEMMA TakenKeeps ==
  ASSUME Meant(Here, tab), NEW c
  PROVE  Meant(Here, Taken(c))
<1>1. IsTab(Here, tab)
  BY DEF Meant, MeantBut
<1> DEFINE u == Taken(c)
<1>2. /\ TabFields \subseteq DOMAIN u /\ u.calls = tab.calls \ {c} /\ u.up = tab.up /\ u.gate = tab.gate
      /\ u.forms = tab.forms /\ u.waiting = tab.waiting
  BY <1>1, TakenFields
<1> HIDE DEF u
<1>3. Meant(Here, u)
  BY <1>2, FewerKeeps DEF Meant
<1>4. QED BY <1>3 DEF u

\* An answer that is heard lowers the flag of its write.
LEMMA LowerFields ==
  ASSUME NEW t, TabFields \subseteq DOMAIN t, NEW form, NEW row
  PROVE  LET u == Lower(t, form, row)
         IN /\ TabFields \subseteq DOMAIN u /\ u.calls = t.calls /\ u.gate = t.gate /\ u.forms = t.forms /\ u.waiting = t.waiting
            /\ u.up = IF form.per = "slot" THEN Without(t.up, form.flag) ELSE t.up \ {Flag(form, row)}
  BY DEF Lower, TabFields

LEMMA AnsweredKeeps ==
  ASSUME OkView(Here), Meant(Here, tab), NEW c \in Writes(tab), ~Gone(tab, c), NEW t, TabFields \subseteq DOMAIN t,
         t.calls = tab.calls \ {c}, t.up = tab.up, t.gate = tab.gate, t.forms = tab.forms, t.waiting = tab.waiting
  PROVE  LET u == Lower(t, FormOf(c.for), c.of)
         IN /\ Meant(Here, u) /\ u.calls = tab.calls \ {c} /\ u.forms = tab.forms
            /\ OpenPairs(Here, u, {c.for})
<1> DEFINE u == Lower(t, FormOf(c.for), c.of)
<1>1. /\ TabFields \subseteq DOMAIN u /\ u.calls = tab.calls \ {c} /\ u.gate = tab.gate /\ u.forms = tab.forms
      /\ u.waiting = tab.waiting
      /\ u.up = IF FormOf(c.for).per = "slot" THEN Without(tab.up, FormOf(c.for).flag) ELSE tab.up \ {Flag(FormOf(c.for), c.of)}
  <2>1. PICK form, row : form = FormOf(c.for) /\ row = c.of
    OBVIOUS
  <2> DEFINE w == Lower(t, form, row)
  <2>2. /\ TabFields \subseteq DOMAIN w /\ w.calls = t.calls /\ w.gate = t.gate /\ w.forms = t.forms /\ w.waiting = t.waiting
        /\ w.up = IF form.per = "slot" THEN Without(t.up, form.flag) ELSE t.up \ {Flag(form, row)}
    BY DEF Lower, TabFields
  <2>3. QED BY <2>1, <2>2
<1> HIDE DEF u
<1>2. Heard(Here, tab, c)
  BY DEF Heard, Gone, FormOf
<1>3. Meant(Here, u)
  BY <1>1, <1>2, LowerKeeps DEF Meant, FlagOf, FormOf
<1>4. OpenPairs(Here, u, {c.for})
  BY <1>1, <1>2 DEF OpenPairs, Meant, MeantBut, PairsApart
<1>5. QED BY <1>1, <1>3, <1>4 DEF u

----------------------------------------------------------------------------
(* What the user does *)

LEMMA TopFacts ==
  ASSUME NEW f \in Forms(Here), IsTab(Here, tab), tab.forms[f].up, FormOf(f).opens \in Opened
  PROVE  /\ FormOf(f).layer = 2 => Top(tab) = 2
         /\ FormOf(f).layer = 1 => Top(tab) # 0
  BY DEF Top, Up, IsTab

LEMMA OpenAction ==
  ASSUME OkView(Here), Meant(Here, tab), NEW f \in Forms(Here), Open(f)
  PROVE  Meant(Here, tab')
<1>1. IsTab(Here, tab)
  BY DEF Meant, MeantBut
<1>2. Top(tab) = FormOf(f).from /\ ~Waits(f)
  BY DEF Open
<1>3. PICK row : tab' = Show(tab, f, row)
  BY DEF Open
<1>4. ASSUME f \in Dialogs(Here)
      PROVE  /\ \A x \in tab.up : x[1] # FormOf(f).flag
             /\ ~Retried(tab)
             /\ \A g \in Dialogs(Here) : ~tab.forms[g].up
  <2>1. FormOf(f).waits = FormOf(f).flag /\ Top(tab) # 2 /\ FormOf(f).flag # ""
    <3>1. Barred(Here, f) /\ Here.forms[f].waits = Here.forms[f].flag /\ Here.forms[f].from # 2
      BY <1>4, DialogFacts
    <3>2. Here.forms[f].flag # ""
      BY <3>1, BarFacts
    <3>3. QED BY <1>2, <3>1, <3>2 DEF FormOf
  <2>2. Without(tab.up, FormOf(f).flag) = tab.up
    BY <1>2, <2>1 DEF Waits
  <2>3. \A x \in tab.up : x[1] # FormOf(f).flag
    BY <2>2 DEF Without
  <2>4. ~Retried(tab)
    BY <2>1 DEF Retried, Top
  <2>5. \A g \in Dialogs(Here) : g \in Forms(Here) /\ FormOf(g).opens \in Opened /\ FormOf(g).layer = 2
    BY DialogFacts DEF FormOf, Opened
  <2>6. QED BY <1>1, <2>1, <2>3, <2>4, <2>5, TopFacts
<1>5. ASSUME NEW g \in Forms(Here), Paired(Here, f, g) PROVE ~tab.forms[g].up
  <2>1. Top(tab) = 0
    BY <1>2, <1>5, PairFacts DEF FormOf
  <2>2. Paired(Here, g, f)
    BY <1>5, PairFacts
  <2>3. FormOf(g).opens \in Opened /\ FormOf(g).layer = 1
    BY <2>2, PairFacts DEF FormOf, Opened
  <2>4. QED BY <1>1, <2>1, <2>3, TopFacts
<1>6. Openable(Here, tab, f)
  BY <1>4, <1>5 DEF Openable, FormOf
<1>7. QED BY <1>3, <1>6, ShowKeeps

LEMMA CloseAction ==
  ASSUME OkView(Here), Meant(Here, tab), NEW f \in Forms(Here), Close(f)
  PROVE  Meant(Here, tab')
<1>1. tab.forms[f].up /\ tab' = ShutAll(tab, {f})
  BY DEF Close, Shut
<1>2. OpenPairs(Here, tab, {f})
  BY <1>1 DEF OpenPairs
<1>3. QED BY <1>1, <1>2, MeantMeansBut, ShutKeeps

\* What is submitted without anything to send.
LEMMA AskingAction ==
  ASSUME OkView(Here), Meant(Here, tab), NEW f \in Forms(Here), NEW row, NEW layer,
         tab' = Lead(ShutAll(Reload(tab, FormOf(f)), {f} \cap Up(tab, layer)), FormOf(f), row)
  PROVE  Meant(Here, tab')
<1> DEFINE w == Reload(tab, FormOf(f))
           fs == {f} \cap Up(tab, layer)
<1>1. Aside(Here, tab, w)
  BY ReloadAside, MeantShape DEF Meant
<1>2. Meant(Here, w)
  BY <1>1, AsideKeeps DEF Meant
<1>3. OpenPairs(Here, w, fs) /\ fs \subseteq Forms(Here)
  BY <1>1 DEF OpenPairs, Aside, Up
<1> HIDE DEF w, fs
<1>4. Meant(Here, ShutAll(w, fs))
  BY <1>2, <1>3, MeantMeansBut, ShutKeeps
<1>5. QED BY <1>4, LeadKeeps DEF w, fs

\* The call a form makes.
CallOf(f, row) ==
  [Request EXCEPT !.for = f, !.of = row, !.meant = row, !.step = 1, !.opening = tab.forms[f].opening]

\* A form that is sent by hand was not sent before, or its flag keeps it from being sent.
LEMMA SubmitSends ==
  ASSUME OkView(Here), Meant(Here, tab), NEW f \in Forms(Here), NEW row,
         Top(tab) = FormOf(f).layer,
         FormOf(f).opens \in Opened => tab.forms[f].up,
         FormOf(f).busy => Flag(FormOf(f), row) \notin tab.up
  PROVE  Meant(Here, Send(tab, f, CallOf(f, row)))
<1> DEFINE v == Here
           call == CallOf(f, row)
           w == SentAs(tab, f, call)
<1>1. /\ CallFields \subseteq DOMAIN call /\ call.for = f /\ call.of = row /\ call.meant = row /\ call.over = FALSE
      /\ call.opening = tab.forms[f].opening
  BY DEF CallOf, Request, CallFields
<1> HIDE DEF call
<1>2. /\ CallFields \subseteq DOMAIN w /\ w.kind = "write" /\ w.result = "" /\ w.for = f /\ w.meant = row
      /\ w.over = FALSE /\ w.opening = tab.forms[f].opening
      /\ w.of = IF FormOf(f).late THEN tab.forms[f].row ELSE row
  BY <1>1 DEF SentAs, CallFields
<1> HIDE DEF w
<1>3. IsTab(v, tab) /\ FlagsUp(v, tab) /\ DialogsWait(v, tab, {}) /\ PairsApart(v, tab)
  BY DEF Meant, MeantBut
<1>4. IsCall(v, tab, w)
  <2>1. PICK n \in Nat : n = tab.forms[f].opening
    BY <1>3 DEF IsTab
  <2>2. v.forms[f].late \/ w.of = w.meant
    BY <1>2 DEF FormOf
  <2>3. w.opening \in Nat /\ w.opening <= tab.forms[f].opening
    <3>1. w.opening = n
      BY <1>2, <2>1
    <3>2. n <= n
      OBVIOUS
    <3>3. QED BY <2>1, <3>1, <3>2
  <2>4. QED BY <1>2, <2>2, <2>3 DEF IsCall
<1>5. Heard(v, tab, w)
  BY <1>2 DEF Heard
<1>6. \A d \in Writes(tab) : d.for \in Forms(v)
  BY <1>3 DEF IsTab, IsCall, Writes
<1>7. ASSUME Barred(v, f)
      PROVE  /\ \A d \in Writes(tab) : Barred(v, d.for) /\ Heard(v, tab, d) => FlagOf(v, d) # FlagOf(v, w)
             /\ Retried(tab) => v.forms[tab.gate.for].flag # v.forms[f].flag
             /\ \A g \in Dialogs(v) : tab.forms[g].up /\ v.forms[g].flag = v.forms[f].flag => g = f
             /\ \A g \in Forms(v) : Paired(v, f, g) => tab.forms[f].up
  <2>1. w.of = row /\ FlagOf(v, w) = Flag(FormOf(f), row) /\ FlagOf(v, w)[1] = v.forms[f].flag
    BY <1>2, <1>7, BarFacts DEF FlagOf, FormOf, Flag
  <2>2. \A d \in Writes(tab) : Barred(v, d.for) /\ Heard(v, tab, d) => FlagOf(v, d) \in tab.up /\ FlagOf(v, d)[1] = v.forms[d.for].flag
    BY <1>3 DEF FlagsUp, FlagOf, Flag
  <2>3. CASE FormOf(f).busy
    <3>1. \A d \in Writes(tab) : Barred(v, d.for) /\ Heard(v, tab, d) => FlagOf(v, d) # FlagOf(v, w)
      BY <2>1, <2>2, <2>3
    <3>2. Disabled(v, v.forms[f])
      BY <1>7, <2>3, BusyBars DEF FormOf
    <3>3. ASSUME Retried(tab), v.forms[tab.gate.for].flag = v.forms[f].flag PROVE FALSE
      <4>1. Top(tab) = 2
        BY <3>3 DEF Retried, Top
      <4>2. tab.gate.for \in Forms(v) /\ v.forms[tab.gate.for].checked
        BY <1>3, <3>3 DEF IsTab, IsCall, Retried
      <4>3. Disabled(v, v.forms[tab.gate.for])
        <5>1. Barred(v, tab.gate.for)
          BY <1>7, <3>3, <4>2, BarFacts
        <5>2. tab.gate.for \notin Dialogs(v)
          BY <4>2, DialogFacts
        <5>3. v.forms[tab.gate.for].busy
          BY <4>2, <5>1, <5>2 DEF Dialogs
        <5>4. QED BY <4>2, <5>1, <5>3, BusyBars
      <4>4. Bars(v, f, tab.gate.for)
        BY <3>3, <4>2, <4>3, BarsHere
      <4>5. v.forms[f].layer = 2 /\ v.forms[f].busy
        BY <2>3, <4>1 DEF FormOf
      <4>6. v.forms[f].layer = 2 => ~v.forms[tab.gate.for].checked
        BY <4>4, <4>5 DEF Bars
      <4>7. QED BY <4>2, <4>5, <4>6
    <3>4. ASSUME NEW g \in Dialogs(v), tab.forms[g].up, v.forms[g].flag = v.forms[f].flag PROVE FALSE
      <4>1. g \in Forms(v) /\ FormOf(g).opens \in Opened /\ FormOf(g).layer = 2 /\ ~v.forms[g].busy
        BY DialogFacts DEF FormOf, Opened, Dialogs
      <4>2. Top(tab) = 2
        BY <1>3, <3>4, <4>1, TopFacts
      <4>3. Bars(v, g, f)
        BY <3>2, <3>4, <4>1, BarsHere
      <4>4. v.forms[f].layer # 2
        BY <4>1, <4>3 DEF Bars
      <4>5. QED BY <4>2, <4>4 DEF FormOf
    <3>5. ASSUME NEW g \in Forms(v), Paired(v, f, g) PROVE tab.forms[f].up
      BY <3>5, PairFacts DEF FormOf, Opened
    <3>6. QED BY <3>1, <3>3, <3>4, <3>5
  <2>4. CASE ~FormOf(f).busy
    <3>1. f \in Dialogs(v)
      BY <1>7, <2>4 DEF Dialogs, FormOf
    <3>2. tab.forms[f].up
      BY <3>1, DialogFacts DEF FormOf, Opened
    <3>3. /\ \A x \in tab.up : x[1] # v.forms[f].flag
          /\ Retried(tab) => v.forms[tab.gate.for].flag # v.forms[f].flag
          /\ \A g \in Dialogs(v) \ {f} : v.forms[f].flag = v.forms[g].flag => ~tab.forms[g].up
      BY <1>3, <3>1, <3>2 DEF DialogsWait
    <3>4. QED BY <2>1, <2>2, <3>2, <3>3
  <2>5. QED BY <2>3, <2>4
<1>8. ASSUME Barred(v, f) PROVE \A d \in Writes(tab) : KeyOf(d) # KeyOf(w)
  <2>1. ASSUME NEW d \in Writes(tab), KeyOf(d) = KeyOf(w) PROVE FALSE
    <3>1. d.for = f /\ d.opening = tab.forms[f].opening /\ d.of = w.of
      BY <1>2, <2>1 DEF KeyOf
    <3>2. Heard(v, tab, d) /\ FlagOf(v, d) = FlagOf(v, w)
      BY <1>2, <3>1 DEF Heard, FlagOf
    <3>3. QED BY <1>7, <1>8, <3>1, <3>2
  <2>2. QED BY <2>1
<1>9. ASSUME Barred(v, f), Retried(tab) PROVE KeyOf(tab.gate) # KeyOf(w) /\ FlagOf(v, tab.gate) # FlagOf(v, w)
  <2>1. v.forms[tab.gate.for].flag # v.forms[f].flag
    BY <1>7, <1>9
  <2>2. QED BY <1>2, <2>1 DEF KeyOf, FlagOf, Flag
<1>10. Sendable(v, tab, w)
  BY <1>2, <1>4, <1>7, <1>8, <1>9 DEF Sendable
<1>11. Meant(v, Send(tab, call.for, call))
  BY <1>1, <1>10, SendKeeps DEF w
<1>12. QED BY <1>1, <1>11 DEF call

LEMMA SubmitAction ==
  ASSUME OkView(Here), Meant(Here, tab), NEW f \in Forms(Here), Submit(f)
  PROVE  Meant(Here, tab')
<1> DEFINE form == FormOf(f)
<1>1. Top(tab) = form.layer /\ (form.opens \in Opened => tab.forms[f].up)
  BY DEF Submit
<1>2. PICK row :
        /\ form.busy => Flag(form, row) \notin tab.up
        /\ tab' = IF form.steps = <<>> THEN Lead(ShutAll(Reload(tab, form), {f} \cap Up(tab, form.layer)), form, row)
                  ELSE IF form.gate
                  THEN [tab EXCEPT !.asked = @ + 1,
                                   !.calls = @ \cup {[CallOf(f, row) EXCEPT !.kind = "preview", !.no = tab.asked + 1]}]
                  ELSE Send(tab, f, CallOf(f, row))
  BY DEF Submit, CallOf
<1>3. CASE form.steps = <<>>
  BY <1>2, <1>3, AskingAction
<1>4. CASE form.steps # <<>> /\ form.gate
  <2> DEFINE c == [CallOf(f, row) EXCEPT !.kind = "preview", !.no = tab.asked + 1]
  <2>1. IsTab(Here, tab)
    BY DEF Meant, MeantBut
  <2>2. /\ CallFields \subseteq DOMAIN c /\ c.kind = "preview" /\ c.for = f /\ c.of = c.meant /\ c.over = FALSE
        /\ c.opening = tab.forms[f].opening /\ c.result = ""
    BY DEF CallOf, Request, CallFields
  <2>3. tab' = [tab EXCEPT !.asked = @ + 1, !.calls = @ \cup {c}]
    BY <1>2, <1>4
  <2> HIDE DEF c
  <2>4. IsCall(Here, tab, c)
    <3>1. PICK n \in Nat : n = tab.forms[f].opening
      BY <2>1 DEF IsTab
    <3>2. c.opening = n
      BY <2>2, <3>1
    <3>3. n <= n
      OBVIOUS
    <3>4. c.opening \in Nat /\ c.opening <= tab.forms[f].opening
      BY <3>1, <3>2, <3>3
    <3>5. QED BY <1>4, <2>2, <3>4 DEF IsCall, FormOf
  <2>5. /\ TabFields \subseteq DOMAIN tab' /\ tab'.calls = tab.calls \cup {c} /\ tab'.up = tab.up /\ tab'.gate = tab.gate
        /\ tab'.forms = tab.forms /\ tab'.waiting = tab.waiting
    BY <2>1, <2>3 DEF IsTab, TabFields
  <2>6. QED BY <2>2, <2>4, <2>5, PreviewKeeps
<1>5. CASE form.steps # <<>> /\ ~form.gate
  BY <1>1, <1>2, <1>5, SubmitSends
<1>6. QED BY <1>3, <1>4, <1>5

\* Whatever is confirmed is sent with the flag and the key it had.
LEMMA ConfirmAction ==
  ASSUME OkView(Here), Meant(Here, tab), Confirm
  PROVE  Meant(Here, tab')
<1> DEFINE v == Here
           gate == tab.gate
           over == gate.kind = "write"
           t == [tab EXCEPT !.gate = None]
           call == [gate EXCEPT !.over = over, !.told = IF over THEN gate.of ELSE None]
           w == SentAs(t, gate.for, call)
<1>1. IsTab(v, tab) /\ FlagsApart(v, tab) /\ KeysApart(v, tab) /\ DialogsWait(v, tab, {}) /\ PairsApart(v, tab)
  BY DEF Meant, MeantBut
<1>2. IsCall(v, tab, gate) /\ gate.kind \in {"preview", "write"} /\ gate # None /\ gate.for \in Forms(v)
  BY <1>1 DEF Confirm, IsTab, IsCall
<1>3. tab' = Send(t, gate.for, call)
  BY DEF Confirm
<1>4. /\ TabFields \subseteq DOMAIN t /\ t.calls = tab.calls /\ t.up = tab.up /\ t.gate = None /\ t.forms = tab.forms
      /\ t.waiting = tab.waiting
  BY <1>1 DEF IsTab, TabFields
<1>5. /\ CallFields \subseteq DOMAIN call /\ call.for = gate.for /\ call.of = gate.of /\ call.meant = gate.meant
      /\ call.opening = gate.opening /\ call.over = over /\ call.told = IF over THEN gate.of ELSE None
  BY <1>2 DEF IsCall, CallFields
<1> HIDE DEF t, call
<1>6. Meant(v, t)
  BY <1>4, FewerKeeps DEF Meant
<1>7. /\ CallFields \subseteq DOMAIN w /\ w.kind = "write" /\ w.result = "" /\ w.for = gate.for /\ w.meant = gate.meant
      /\ w.over = over /\ w.told = (IF over THEN gate.of ELSE None) /\ w.opening = gate.opening
      /\ w.of = IF FormOf(gate.for).late THEN t.forms[gate.for].row ELSE gate.of
  BY <1>5 DEF SentAs, CallFields
<1> HIDE DEF w
<1>8. CASE gate.kind = "preview"
  <2>1. v.forms[gate.for].gate /\ ~Barred(v, gate.for)
    BY <1>2, <1>8, BarFacts DEF IsCall
  <2>2. w.over = FALSE /\ (v.forms[gate.for].late \/ w.of = w.meant)
    BY <1>2, <1>7, <1>8 DEF IsCall, FormOf
  <2>3. IsCall(v, t, w)
    BY <1>2, <1>4, <1>7, <2>2 DEF IsCall
  <2>4. Sendable(v, t, w)
    BY <1>7, <2>1, <2>3 DEF Sendable
  <2>5. QED BY <1>3, <1>5, <1>6, <2>4, SendKeeps DEF w
<1>9. CASE gate.kind = "write"
  <2>1. v.forms[gate.for].checked /\ ~v.forms[gate.for].late /\ Retried(tab)
    BY <1>1, <1>2, <1>9 DEF IsTab, IsCall, OkView, Retried
  <2>2. w.of = gate.of /\ w.of = w.meant /\ w.told = w.of
    BY <1>2, <1>7, <1>9, <2>1 DEF IsCall, FormOf
  <2>3. IsCall(v, t, w)
    BY <1>2, <1>4, <1>7, <2>2 DEF IsCall
  <2>4. KeyOf(w) = KeyOf(gate) /\ FlagOf(v, w) = FlagOf(v, gate) /\ (Heard(v, t, w) <=> Heard(v, tab, gate))
    BY <1>4, <1>7, <2>2 DEF KeyOf, FlagOf, Heard
  <2>5. Writes(t) = Writes(tab) /\ ~Retried(t) /\ \A d : Heard(v, t, d) <=> Heard(v, tab, d)
    BY <1>4 DEF Writes, Retried, Heard
  <2>6. ASSUME Barred(v, gate.for)
        PROVE  /\ \A d \in Writes(t) : KeyOf(d) # KeyOf(w)
               /\ \A g \in Dialogs(v) : t.forms[g].up => v.forms[g].flag # v.forms[gate.for].flag
               /\ \A g \in Forms(v) : ~Paired(v, gate.for, g)
    <3>1. gate.for \notin Dialogs(v)
      BY <2>1, DialogFacts
    <3>2. Disabled(v, v.forms[gate.for])
      BY <1>2, <2>6, <3>1, BusyBars DEF Dialogs
    <3>3. \A d \in Writes(t) : KeyOf(d) # KeyOf(w)
      <4>1. ASSUME NEW d \in Writes(t), KeyOf(d) = KeyOf(w) PROVE FALSE
        <5>1. d.for = gate.for
          BY <1>7, <4>1 DEF KeyOf
        <5>2. QED BY <1>1, <2>1, <2>4, <2>5, <3>2, <4>1, <5>1 DEF KeysApart
      <4>2. QED BY <4>1
    <3>4. \A g \in Dialogs(v) : t.forms[g].up => v.forms[g].flag # v.forms[gate.for].flag
      BY <1>1, <1>4, <2>1 DEF DialogsWait
    <3>5. \A g \in Forms(v) : ~Paired(v, gate.for, g)
      BY <1>2, <2>1, PairFacts
    <3>6. QED BY <3>3, <3>4, <3>5
  <2>7. ASSUME Barred(v, gate.for), Heard(v, t, w)
        PROVE  \A d \in Writes(t) : Barred(v, d.for) /\ Heard(v, t, d) => FlagOf(v, d) # FlagOf(v, w)
    BY <1>1, <2>1, <2>4, <2>5, <2>7 DEF FlagsApart
  <2>8. Sendable(v, t, w)
    BY <1>7, <2>3, <2>5, <2>6, <2>7 DEF Sendable
  <2>9. QED BY <1>3, <1>5, <1>6, <2>8, SendKeeps DEF w
<1>10. QED BY <1>2, <1>8, <1>9

LEMMA CancelAction ==
  ASSUME Meant(Here, tab), Cancel
  PROVE  Meant(Here, tab')
<1>1. IsTab(Here, tab) /\ tab' = [tab EXCEPT !.gate = None]
  BY DEF Meant, MeantBut, Cancel
<1>2. /\ TabFields \subseteq DOMAIN tab' /\ tab'.calls = tab.calls /\ tab'.up = tab.up /\ tab'.gate = None
      /\ tab'.forms = tab.forms /\ tab'.waiting = tab.waiting
  BY <1>1 DEF IsTab, TabFields
<1>3. QED BY <1>2, FewerKeeps DEF Meant

\* What only asks: the section's subject, a row pointed at, a timer, an address.
LEMMA AskingActions ==
  ASSUME OkView(Here), Meant(Here, tab),
         \/ \E s : Switch(s)
         \/ \E p \in Loads(Here) : Tick(p) \/ \E row : Prefetch(p, row)
         \/ \E term : Typed(term)
         \/ \E page : Turn(page)
         \/ DebounceFires
         \/ \E u : Travel(u)
         \/ \E k : Forget(k)
  PROVE  Meant(Here, tab')
<1>1. IsTab(Here, tab) /\ Shape(Here, tab)
  BY MeantShape DEF Meant
<1>2. SUFFICES Aside(Here, tab, tab')
  BY AsideKeeps DEF Meant
<1>3. ASSUME NEW w, TabFields \subseteq DOMAIN w, w.calls = tab.calls, w.up = tab.up, w.gate = tab.gate, w.forms = tab.forms,
             w.waiting => tab.waiting \/ Here.list \in Loads(Here)
      PROVE  Aside(Here, tab, w) /\ Shape(Here, w)
  BY <1>1, <1>3 DEF Aside, Shape
<1>4. Here.list # "" => Here.list \in Loads(Here)
  BY DEF OkView, Refers, Loads
<1>5. ASSUME NEW s, Switch(s) PROVE Aside(Here, tab, tab')
  <2> DEFINE ps == {p \in Here.mounts: LoadOf(p).about \in {"subject", "filter"}}
             w == [tab EXCEPT !.subject = s]
  <2>1. tab' = AskAll(w, ps)
    BY <1>5 DEF Switch
  <2>2. ps \subseteq Loads(Here) /\ IsFiniteSet(Loads(Here))
    BY DEF OkView, Refers, Loads
  <2>3. /\ TabFields \subseteq DOMAIN w /\ w.calls = tab.calls /\ w.up = tab.up /\ w.gate = tab.gate
        /\ w.forms = tab.forms /\ w.waiting = tab.waiting
    BY <1>1 DEF IsTab, TabFields
  <2> HIDE DEF w, ps
  <2>4. Aside(Here, tab, w) /\ Shape(Here, w)
    BY <1>3, <2>3
  <2>5. IsFiniteSet(ps)
    BY <2>2, FS_Subset
  <2>6. Aside(Here, w, AskAll(w, ps))
    BY <2>2, <2>4, <2>5, AskAllAside
  <2>7. QED BY <2>1, <2>4, <2>6, AsideTransitive
<1>6. ASSUME NEW p \in Loads(Here), Tick(p) PROVE Aside(Here, tab, tab')
  BY <1>1, <1>6, AskOneAside DEF Tick
<1>7. ASSUME NEW p \in Loads(Here), NEW row, Prefetch(p, row) PROVE Aside(Here, tab, tab')
  <2> DEFINE c == [Request EXCEPT !.for = p, !.of = row, !.gen = tab.told]
  <2>1. tab' = [tab EXCEPT !.calls = @ \cup {c}]
    BY <1>7 DEF Prefetch
  <2>2. CallFields \subseteq DOMAIN c /\ c.kind = "load" /\ c.for = p
    BY DEF Request, CallFields
  <2> HIDE DEF c
  <2>3. /\ TabFields \subseteq DOMAIN tab' /\ tab'.calls = tab.calls \cup {c} /\ tab'.up = tab.up /\ tab'.gate = tab.gate
        /\ tab'.forms = tab.forms /\ tab'.waiting = tab.waiting
    BY <1>1, <2>1 DEF IsTab, TabFields
  <2>4. QED BY <1>1, <2>2, <2>3 DEF Aside, Shape
<1>8. ASSUME NEW term, Typed(term) PROVE Aside(Here, tab, tab')
  <2>1. tab' = [tab EXCEPT !.query = <<term, 1>>, !.waiting = TRUE] /\ Here.list # ""
    BY <1>8 DEF Typed
  <2>2. /\ TabFields \subseteq DOMAIN tab' /\ tab'.calls = tab.calls /\ tab'.up = tab.up /\ tab'.gate = tab.gate
        /\ tab'.forms = tab.forms
    BY <1>1, <2>1 DEF IsTab, TabFields
  <2>3. QED BY <1>1, <1>4, <2>1, <2>2 DEF Aside, Shape
<1>9. ASSUME NEW q, Here.list \in Loads(Here) PROVE Aside(Here, tab, Commit(tab, q))
  <2> DEFINE w == [tab EXCEPT !.query = q, !.url = q, !.waiting = FALSE, !.written = IF q = tab.url THEN @ ELSE q]
  <2>1. /\ TabFields \subseteq DOMAIN w /\ w.calls = tab.calls /\ w.up = tab.up /\ w.gate = tab.gate
        /\ w.forms = tab.forms /\ w.waiting = FALSE
    BY <1>1 DEF IsTab, TabFields
  <2>2. Commit(tab, q) = AskOne(w, Here.list)
    BY DEF Commit
  <2> HIDE DEF w
  <2>3. Aside(Here, tab, w) /\ Shape(Here, w)
    BY <1>3, <2>1
  <2>4. QED BY <1>9, <2>2, <2>3, AskOneAside, AsideTransitive
<1>10. ASSUME NEW page, Turn(page) PROVE Aside(Here, tab, tab')
  BY <1>4, <1>9, <1>10 DEF Turn
<1>11. ASSUME DebounceFires PROVE Aside(Here, tab, tab')
  BY <1>1, <1>9, <1>11 DEF DebounceFires, IsTab
<1>12. ASSUME NEW u, Travel(u) PROVE Aside(Here, tab, tab')
  <2>1. Here.list \in Loads(Here)
    BY <1>4, <1>12 DEF Travel
  <2>2. CASE u = tab.written
    <3>1. tab' = [tab EXCEPT !.url = u]
      BY <1>12, <2>2 DEF Travel
    <3>2. /\ TabFields \subseteq DOMAIN tab' /\ tab'.calls = tab.calls /\ tab'.up = tab.up /\ tab'.gate = tab.gate
          /\ tab'.forms = tab.forms /\ tab'.waiting = tab.waiting
      BY <1>1, <3>1 DEF IsTab, TabFields
    <3>3. QED BY <1>3, <3>2
  <2>3. CASE u # tab.written
    <3> DEFINE w == [tab EXCEPT !.url = u, !.query = u, !.written = u]
    <3>1. tab' = AskOne(w, Here.list)
      BY <1>12, <2>3 DEF Travel
    <3>2. /\ TabFields \subseteq DOMAIN w /\ w.calls = tab.calls /\ w.up = tab.up /\ w.gate = tab.gate
          /\ w.forms = tab.forms /\ w.waiting = tab.waiting
      BY <1>1 DEF IsTab, TabFields
    <3> HIDE DEF w
    <3>3. Aside(Here, tab, w) /\ Shape(Here, w)
      BY <1>3, <3>2
    <3>4. QED BY <2>1, <3>1, <3>3, AskOneAside, AsideTransitive
  <2>4. QED BY <2>2, <2>3
<1>13. ASSUME NEW k, Forget(k) PROVE Aside(Here, tab, tab')
  <2>1. tab' = [tab EXCEPT !.kept = @ \ {k}]
    BY <1>13 DEF Forget
  <2>2. /\ TabFields \subseteq DOMAIN tab' /\ tab'.calls = tab.calls /\ tab'.up = tab.up /\ tab'.gate = tab.gate
        /\ tab'.forms = tab.forms /\ tab'.waiting = tab.waiting
    BY <1>1, <2>1 DEF IsTab, TabFields
  <2>3. QED BY <1>3, <2>2
<1>14. QED BY <1>5, <1>6, <1>7, <1>8, <1>10, <1>11, <1>12, <1>13

----------------------------------------------------------------------------
(* The server and its answers *)

LEMMA ServeAction ==
  ASSUME OkView(Here), Meant(Here, tab), NEW c \in tab.calls, Serve(c)
  PROVE  Meant(Here, tab')
<1>1. IsTab(Here, tab) /\ IsCall(Here, tab, c)
  BY DEF Meant, MeantBut, IsTab
<1>2. PICK r, world :
        r \in Results(c) /\ tab' = [tab EXCEPT !.world = world, !.calls = (@ \ {c}) \cup {[c EXCEPT !.result = r, !.seen = world]}]
  BY DEF Serve
<1> DEFINE d == [c EXCEPT !.result = r, !.seen = world]
<1>3. CallFields \subseteq DOMAIN c
  BY <1>1 DEF IsCall
<1>4. Twins(c, d) /\ d.result = r
  BY <1>3 DEF Twins, CallFields
<1>5. /\ TabFields \subseteq DOMAIN tab' /\ tab'.calls = (tab.calls \ {c}) \cup {d} /\ tab'.up = tab.up
      /\ tab'.gate = tab.gate /\ tab'.forms = tab.forms /\ tab'.waiting = tab.waiting
  BY <1>1, <1>2 DEF IsTab, TabFields
<1> HIDE DEF d
<1>6. /\ c.kind = "preview" => r \in {"ok", "verdict"}
      /\ c.kind = "write" => r \in {"ok", "failed", "verdict"} /\ (r = "verdict" => Here.forms[c.for].checked)
  BY <1>2 DEF Results, FormOf
<1>7. IsCall(Here, tab, d)
  BY <1>1, <1>4, <1>6 DEF IsCall, Twins
<1>8. QED BY <1>4, <1>5, <1>7, TwinKeeps DEF Meant

LEMMA LoadAnsweredAction ==
  ASSUME OkView(Here), Meant(Here, tab), NEW c \in tab.calls, LoadAnswered(c)
  PROVE  Meant(Here, tab')
<1> DEFINE l == LoadOf(c.for)
           kept == Keep(Taken(c), c)
           filled == [kept EXCEPT !.panels[c.for] = Filled(@, c, l), !.up = Without(@, l.flag)]
<1>1. IsTab(Here, tab) /\ Shape(Here, tab)
  BY MeantShape DEF Meant
<1>2. c.kind = "load" /\ c.for \in Loads(Here)
  BY <1>1 DEF LoadAnswered, Arrives, Shape
<1>3. tab' = kept \/ tab' = filled \/ tab' = AskAll(filled, l.then)
  BY DEF LoadAnswered
<1>4. /\ TabFields \subseteq DOMAIN kept /\ kept.calls = tab.calls \ {c} /\ kept.up = tab.up /\ kept.gate = tab.gate
      /\ kept.forms = tab.forms /\ kept.waiting = tab.waiting
  <2> DEFINE w == Taken(c)
  <2>1. /\ TabFields \subseteq DOMAIN w /\ w.calls = tab.calls \ {c} /\ w.up = tab.up /\ w.gate = tab.gate
        /\ w.forms = tab.forms /\ w.waiting = tab.waiting
    BY <1>1, TakenFields
  <2> HIDE DEF w
  <2>2. LET k == Keep(w, c) IN
        /\ TabFields \subseteq DOMAIN k /\ k.calls = w.calls /\ k.up = w.up /\ k.gate = w.gate
        /\ k.forms = w.forms /\ k.waiting = w.waiting
    BY <2>1 DEF Keep, TabFields
  <2>3. QED BY <2>1, <2>2 DEF w
<1> HIDE DEF kept
<1>5. /\ TabFields \subseteq DOMAIN filled /\ filled.calls = tab.calls \ {c} /\ filled.up = Without(tab.up, l.flag)
      /\ filled.gate = tab.gate /\ filled.forms = tab.forms /\ filled.waiting = tab.waiting
  BY <1>4 DEF TabFields
<1> HIDE DEF filled
<1>6. Aside(Here, tab, kept)
  BY <1>1, <1>2, <1>4 DEF Aside, Shape
<1>7. Aside(Here, tab, filled)
  BY <1>1, <1>2, <1>5 DEF Aside, Shape, Without, LoadOf
<1>8. Aside(Here, tab, AskAll(filled, l.then))
  <2>1. l.then \subseteq Loads(Here) /\ IsFiniteSet(Loads(Here))
    BY <1>2 DEF OkView, Refers, Loads, LoadOf
  <2>2. IsFiniteSet(l.then)
    BY <2>1, FS_Subset
  <2>3. Shape(Here, filled)
    BY <1>7 DEF Aside
  <2> HIDE DEF l
  <2>4. Aside(Here, filled, AskAll(filled, l.then))
    BY <2>1, <2>2, <2>3, AskAllAside
  <2>5. QED BY <1>7, <2>4, AsideTransitive
<1>9. QED BY <1>3, <1>6, <1>7, <1>8, AsideKeeps DEF Meant

LEMMA PreviewedAction ==
  ASSUME OkView(Here), Meant(Here, tab), NEW c \in tab.calls, Previewed(c)
  PROVE  Meant(Here, tab')
<1> DEFINE w == Taken(c)
<1>1. IsTab(Here, tab) /\ IsCall(Here, tab, c) /\ c.kind = "preview" /\ c.result # ""
  BY DEF Meant, MeantBut, IsTab, Previewed, Arrives
<1>2. /\ TabFields \subseteq DOMAIN w /\ w.calls = tab.calls \ {c} /\ w.up = tab.up /\ w.gate = tab.gate
      /\ w.forms = tab.forms /\ w.waiting = tab.waiting
  BY <1>1, TakenFields
<1>3. Meant(Here, w)
  BY TakenKeeps
<1>4. tab' = IF c.result = "ok" THEN Send(w, c.for, c) ELSE IF Gone(tab, c) THEN w ELSE [w EXCEPT !.gate = c]
  BY DEF Previewed
<1> HIDE DEF w
<1>5. IsCall(Here, w, c)
  BY <1>1, <1>2 DEF IsCall
<1>6. CASE c.result = "ok"
  <2> DEFINE s == SentAs(w, c.for, c)
  <2>1. /\ CallFields \subseteq DOMAIN c /\ c.for \in Forms(Here) /\ Here.forms[c.for].gate /\ c.over = FALSE
        /\ Here.forms[c.for].late \/ c.of = c.meant
    BY <1>1 DEF IsCall
  <2>2. /\ CallFields \subseteq DOMAIN s /\ s.kind = "write" /\ s.result = "" /\ s.for = c.for /\ s.meant = c.meant
        /\ s.over = FALSE /\ s.opening = c.opening
        /\ s.of = IF FormOf(c.for).late THEN w.forms[c.for].row ELSE c.of
    BY <2>1 DEF SentAs, CallFields
  <2> HIDE DEF s
  <2>3. Here.forms[c.for].late \/ s.of = s.meant
    BY <2>1, <2>2 DEF FormOf
  <2>4. IsCall(Here, w, s)
    BY <1>1, <1>5, <2>1, <2>2, <2>3 DEF IsCall
  <2>5. ~Barred(Here, c.for)
    BY <2>1, BarFacts
  <2>6. Sendable(Here, w, s)
    BY <2>2, <2>4, <2>5 DEF Sendable
  <2>7. QED BY <1>3, <1>4, <1>6, <2>1, <2>6, SendKeeps DEF s
<1>7. CASE c.result # "ok" /\ Gone(tab, c)
  BY <1>3, <1>4, <1>7
<1>8. CASE c.result # "ok" /\ ~Gone(tab, c)
  <2>1. tab' = [w EXCEPT !.gate = c] /\ c.result = "verdict"
    BY <1>1, <1>4, <1>8 DEF IsCall
  <2>2. /\ TabFields \subseteq DOMAIN tab' /\ tab'.calls = w.calls /\ tab'.up = w.up /\ tab'.gate = c
        /\ tab'.forms = w.forms /\ tab'.waiting = w.waiting
    BY <1>2, <2>1 DEF TabFields
  <2>3. QED BY <1>1, <1>3, <1>5, <2>1, <2>2, QuestionKeeps DEF Meant
<1>9. QED BY <1>6, <1>7, <1>8

\* An answer closes forms, forgets rows and asks again.
LEMMA ClosingKeeps ==
  ASSUME OkView(Here), NEW t, Meant(Here, t), NEW fs, fs \subseteq Forms(Here), OpenPairs(Here, t, fs)
  PROVE  Meant(Here, ShutAll(t, fs))
  BY MeantMeansBut, ShutKeeps

LEMMA ForgettingKeeps ==
  ASSUME OkView(Here), NEW t, Meant(Here, t), NEW fs
  PROVE  Meant(Here, [t EXCEPT !.forms = [f \in DOMAIN @ |-> IF f \in fs THEN [@[f] EXCEPT !.row = None] ELSE @[f]]])
<1>1. Shape(Here, t)
  BY MeantShape DEF Meant
<1>2. QED BY <1>1, ForgetAside, AsideKeeps DEF Meant

LEMMA OwingKeeps ==
  ASSUME OkView(Here), NEW t, Meant(Here, t), NEW form, NEW ns
  PROVE  Meant(Here, Owe(t, form, ns)) /\ Owe(t, form, ns).forms = t.forms
<1>1. Shape(Here, t)
  BY MeantShape DEF Meant
<1>2. Aside(Here, t, Owe(t, form, ns)) /\ Owe(t, form, ns).forms = t.forms
  BY <1>1, OweAside
<1>3. QED BY <1>2, AsideKeeps DEF Meant

LEMMA ReloadKeeps ==
  ASSUME OkView(Here), NEW t, Meant(Here, t), NEW f \in Forms(Here)
  PROVE  Meant(Here, Reload(t, FormOf(f)))
<1>1. Shape(Here, t)
  BY MeantShape DEF Meant
<1>2. QED BY <1>1, ReloadAside, AsideKeeps DEF Meant

LEMMA FinishedKeeps ==
  ASSUME OkView(Here), NEW t, NEW c, c.for \in Forms(Here), Meant(Here, Lower(t, FormOf(c.for), c.of)),
         OpenPairs(Here, Lower(t, FormOf(c.for), c.of), {c.for})
  PROVE  Meant(Here, Finished(t, FormOf(c.for), c))
<1> DEFINE form == FormOf(c.for)
           low == Lower(t, form, c.of)
           owed == Owe(low, form, c.done)
           fs == form.closes \cup (IF form.leaves \in {"saved", "answered"} /\ form.opens # "always" THEN {c.for} ELSE {})
           closed == ShutAll(owed, fs)
           forgot == [closed EXCEPT !.forms = [f \in DOMAIN @ |-> IF f \in form.forgets THEN [@[f] EXCEPT !.row = None] ELSE @[f]]]
<1>1. Finished(t, form, c) = Lead(Reload(forgot, form), form, c.of)
  BY DEF Finished
<1> HIDE DEF low
<1>2. Meant(Here, owed) /\ owed.forms = low.forms
  BY OwingKeeps DEF low
<1> HIDE DEF owed
<1>3. form.closes \subseteq Forms(Here)
  BY ViewRefers DEF FormOf
<1>4. OpenPairs(Here, owed, form.closes)
  BY ShutsPairs DEF FormOf
<1>5. fs \subseteq Forms(Here) /\ OpenPairs(Here, owed, fs)
  BY <1>2, <1>3, <1>4 DEF OpenPairs, low
<1> HIDE DEF fs
<1>6. Meant(Here, closed)
  BY <1>2, <1>5, ClosingKeeps
<1> HIDE DEF closed
<1>7. Meant(Here, forgot)
  BY <1>6, ForgettingKeeps
<1> HIDE DEF forgot
<1>8. QED BY <1>1, <1>7, ReloadKeeps, LeadKeeps

LEMMA FailedKeeps ==
  ASSUME OkView(Here), NEW t, NEW c, c.for \in Forms(Here), Meant(Here, Lower(t, FormOf(c.for), c.of)),
         OpenPairs(Here, Lower(t, FormOf(c.for), c.of), {c.for})
  PROVE  Meant(Here, Failed(t, FormOf(c.for), c))
<1> DEFINE form == FormOf(c.for)
           low == Lower(t, form, c.of)
           closed == IF form.leaves = "answered" THEN ShutAll(low, {c.for}) ELSE low
           forgot == [closed EXCEPT !.forms = [f \in DOMAIN @ |-> IF f \in form.forgets THEN [@[f] EXCEPT !.row = None] ELSE @[f]]]
<1>1. Failed(t, form, c) \in {Reload(Owe(forgot, form, c.done), form), Owe(forgot, form, c.done), forgot}
  BY DEF Failed, Shut
<1> HIDE DEF low
<1>2. Meant(Here, closed)
  BY ClosingKeeps DEF low
<1> HIDE DEF closed
<1>3. Meant(Here, forgot)
  BY <1>2, ForgettingKeeps
<1> HIDE DEF forgot
<1>4. Meant(Here, Owe(forgot, form, c.done))
  BY <1>3, OwingKeeps
<1>5. QED BY <1>1, <1>3, <1>4, ReloadKeeps

LEMMA WrittenAction ==
  ASSUME OkView(Here), Meant(Here, tab), NEW c \in tab.calls, Written(c)
  PROVE  Meant(Here, tab')
<1> DEFINE form == FormOf(c.for)
           write == form.steps[c.step] = "write"
           said == [c EXCEPT !.done = IF write THEN @ \cup {c.seen} ELSE @]
           taken == Taken(c)
           heard == [taken EXCEPT !.told = @ + 1, !.heard = IF write THEN @ \cup {c.seen} ELSE @]
           drawn == IF write THEN Patch(heard, form, c) ELSE heard
           next == [said EXCEPT !.step = @ + 1, !.result = ""]
           again == [c EXCEPT !.step = @ + 1, !.result = ""]
<1>1. IsTab(Here, tab) /\ IsCall(Here, tab, c) /\ c.kind = "write" /\ c.result # "" /\ c \in Writes(tab)
  BY DEF Meant, MeantBut, IsTab, Written, Arrives, Writes
<1>2. c.for \in Forms(Here) /\ CallFields \subseteq DOMAIN c
  BY <1>1 DEF IsCall
<1>3. \/ tab' = [drawn EXCEPT !.calls = @ \cup {next}]
      \/ Gone(tab, c) /\ tab' = Unheard(drawn, form, said)
      \/ ~Gone(tab, c) /\ tab' = Finished(drawn, form, said)
      \/ tab' = taken
      \/ tab' = [taken EXCEPT !.calls = @ \cup {again}]
      \/ ~Gone(tab, c) /\ tab' = Failed(taken, form, c)
      \/ ~Gone(tab, c) /\ c.result = "verdict" /\ tab' = [Lower(taken, form, c.of) EXCEPT !.gate = c]
  BY DEF Written
<1>4. /\ TabFields \subseteq DOMAIN taken /\ taken.calls = tab.calls \ {c} /\ taken.up = tab.up /\ taken.gate = tab.gate
      /\ taken.forms = tab.forms /\ taken.waiting = tab.waiting
  BY <1>1, TakenFields
<1>5. Meant(Here, taken)
  BY TakenKeeps
<1> HIDE DEF taken
<1>6. /\ TabFields \subseteq DOMAIN heard /\ heard.calls = tab.calls \ {c} /\ heard.up = tab.up /\ heard.gate = tab.gate
      /\ heard.forms = tab.forms /\ heard.waiting = tab.waiting
  BY <1>4 DEF TabFields
<1> HIDE DEF heard
<1>7. /\ TabFields \subseteq DOMAIN drawn /\ drawn.calls = tab.calls \ {c} /\ drawn.up = tab.up /\ drawn.gate = tab.gate
      /\ drawn.forms = tab.forms /\ drawn.waiting = tab.waiting
  <2>1. LET u == Patch(heard, form, c)
        IN /\ TabFields \subseteq DOMAIN u /\ u.calls = heard.calls /\ u.up = heard.up /\ u.forms = heard.forms
           /\ u.gate = heard.gate /\ u.waiting = heard.waiting
    BY <1>6, PatchFields
  <2>2. QED BY <1>6, <2>1
<1> HIDE DEF drawn
<1>8. said.for = c.for /\ said.of = c.of /\ CallFields \subseteq DOMAIN said /\ Twins(c, said)
  BY <1>2 DEF Twins, CallFields
<1> HIDE DEF said
<1>9. Twins(c, next) /\ next.result = ""
  BY <1>8 DEF Twins, CallFields
<1> HIDE DEF next
<1>a. Twins(c, again) /\ again.result = ""
  BY <1>2 DEF Twins, CallFields
<1> HIDE DEF again
<1>10. CASE tab' = [drawn EXCEPT !.calls = @ \cup {next}]
  <2>1. /\ TabFields \subseteq DOMAIN tab' /\ tab'.calls = (tab.calls \ {c}) \cup {next} /\ tab'.up = tab.up
        /\ tab'.gate = tab.gate /\ tab'.forms = tab.forms /\ tab'.waiting = tab.waiting
    BY <1>7, <1>10 DEF TabFields
  <2>2. IsCall(Here, tab, next)
    BY <1>1, <1>9 DEF IsCall, Twins
  <2>3. QED BY <1>9, <2>1, <2>2, TwinKeeps DEF Meant
<1>11. CASE Gone(tab, c) /\ tab' = Unheard(drawn, form, said)
  <2>1. Meant(Here, drawn)
    BY <1>7, FewerKeeps DEF Meant
  <2>2. Shape(Here, drawn)
    BY <2>1, MeantShape DEF Meant
  <2>3. QED BY <1>11, <2>1, <2>2, UnheardAside, AsideKeeps DEF Meant
<1>12. CASE ~Gone(tab, c) /\ tab' = Finished(drawn, form, said)
  <2>1. Meant(Here, Lower(drawn, form, c.of)) /\ OpenPairs(Here, Lower(drawn, form, c.of), {c.for})
    BY <1>1, <1>7, <1>12, AnsweredKeeps
  <2>2. QED BY <1>2, <1>8, <1>12, <2>1, FinishedKeeps
<1>13. CASE tab' = taken
  BY <1>5, <1>13
<1>14. CASE ~Gone(tab, c) /\ tab' = Failed(taken, form, c)
  <2>1. Meant(Here, Lower(taken, form, c.of)) /\ OpenPairs(Here, Lower(taken, form, c.of), {c.for})
    BY <1>1, <1>4, <1>14, AnsweredKeeps
  <2>2. QED BY <1>2, <1>14, <2>1, FailedKeeps
<1>15. CASE ~Gone(tab, c) /\ c.result = "verdict" /\ tab' = [Lower(taken, form, c.of) EXCEPT !.gate = c]
  <2> DEFINE low == Lower(taken, form, c.of)
  <2>1. Meant(Here, low) /\ low.calls = tab.calls \ {c} /\ low.forms = tab.forms
    BY <1>1, <1>4, <1>15, AnsweredKeeps
  <2>2. tab' = [low EXCEPT !.gate = c] /\ c.result = "verdict"
    BY <1>1, <1>15 DEF IsCall
  <2> HIDE DEF low
  <2>3. TabFields \subseteq DOMAIN low
    BY <2>1, MeantShape DEF Meant, Shape
  <2>4. /\ TabFields \subseteq DOMAIN tab' /\ tab'.calls = low.calls /\ tab'.up = low.up /\ tab'.gate = c
        /\ tab'.forms = low.forms /\ tab'.waiting = low.waiting
    BY <2>2, <2>3 DEF TabFields
  <2>5. IsCall(Here, low, c) /\ Heard(Here, tab, c)
    BY <1>1, <1>15, <2>1 DEF IsCall, Heard, Gone, FormOf
  <2>6. \A d \in Writes(low) : /\ d \in Writes(tab) \ {c}
                               /\ (Heard(Here, low, d) <=> Heard(Here, tab, d))
    BY <2>1 DEF Writes, Heard
  <2>7. \A d \in Writes(low) : Disabled(Here, Here.forms[d.for]) => KeyOf(d) # KeyOf(c)
    BY <1>1, <2>6 DEF Meant, MeantBut, KeysApart
  <2>8. \A d \in Writes(low) : Barred(Here, c.for) /\ Barred(Here, d.for) /\ Heard(Here, low, d) => FlagOf(Here, d) # FlagOf(Here, c)
    BY <1>1, <2>5, <2>6 DEF Meant, MeantBut, FlagsApart
  <2>9. ASSUME NEW f \in Dialogs(Here), low.forms[f].up, Here.forms[c.for].flag = Here.forms[f].flag PROVE FALSE
    <3>1. Barred(Here, c.for)
      BY <1>2, <2>9, BarFacts DEF Dialogs
    <3>2. FlagOf(Here, c) \in tab.up /\ FlagOf(Here, c)[1] = Here.forms[f].flag
      BY <1>1, <2>5, <2>9, <3>1 DEF Meant, MeantBut, FlagsUp, FlagOf, Flag
    <3>3. QED BY <2>1, <2>9, <3>2 DEF Meant, MeantBut, DialogsWait
  <2>10. QED BY <1>1, <2>1, <2>2, <2>4, <2>5, <2>7, <2>8, <2>9, QuestionKeeps DEF Meant
<1>16. CASE tab' = [taken EXCEPT !.calls = @ \cup {again}]
  <2>1. /\ TabFields \subseteq DOMAIN tab' /\ tab'.calls = (tab.calls \ {c}) \cup {again} /\ tab'.up = tab.up
        /\ tab'.gate = tab.gate /\ tab'.forms = tab.forms /\ tab'.waiting = tab.waiting
    BY <1>4, <1>16 DEF TabFields
  <2>2. IsCall(Here, tab, again)
    BY <1>1, <1>a DEF IsCall, Twins
  <2>3. QED BY <1>a, <2>1, <2>2, TwinKeeps DEF Meant
<1>17. QED BY <1>3, <1>10, <1>11, <1>12, <1>13, <1>14, <1>15, <1>16

----------------------------------------------------------------------------
(* Every step *)

\* The inductive invariant.
TabInv == screen \in DOMAIN ViewOf /\ Meant(Here, tab)

LEMMA FreshIsMeant ==
  ASSUME OkView(Here), NEW s, NEW q
  PROVE  Meant(Here, Fresh(s, q))
<1> DEFINE t == [calls |-> {}, up |-> {}, gate |-> None, subject |-> s, query |-> q, url |-> q, written |-> q,
                 waiting |-> FALSE, world |-> 0, told |-> 0, heard |-> {}, kept |-> {}, asked |-> 0,
                 panels |-> [p \in DOMAIN Here.loads |-> Panel],
                 forms |-> [f \in DOMAIN Here.forms |->
                              [up |-> FormOf(f).opens \in {"always", "keyed"}, row |-> None, opening |-> 0]]]
           v == Here
<1>1. /\ TabFields \subseteq DOMAIN t /\ t.calls = {} /\ t.up = {} /\ t.gate = None /\ t.waiting = FALSE
      /\ t.forms = [f \in Forms(v) |-> [up |-> v.forms[f].opens \in {"always", "keyed"}, row |-> None, opening |-> 0]]
  BY DEF TabFields, Forms, FormOf
<1>2. Fresh(s, q) = AskAll(t, Here.mounts)
  BY DEF Fresh
<1> HIDE DEF t
<1>3. ASSUME NEW f \in Forms(v)
      PROVE  FormFields \subseteq DOMAIN t.forms[f] /\ t.forms[f].opening \in Nat
  <2>1. t.forms[f] = [up |-> v.forms[f].opens \in {"always", "keyed"}, row |-> None, opening |-> 0]
    BY <1>1
  <2>2. QED BY <2>1 DEF FormFields
<1>0. ASSUME NEW f \in Forms(v), v.forms[f].opens \notin {"always", "keyed"}
      PROVE  ~t.forms[f].up
  <2>1. t.forms[f] = [up |-> v.forms[f].opens \in {"always", "keyed"}, row |-> None, opening |-> 0]
    BY <1>1
  <2>2. t.forms[f].up = (v.forms[f].opens \in {"always", "keyed"})
    BY <2>1
  <2>3. (v.forms[f].opens \in {"always", "keyed"}) = FALSE
    BY <1>0
  <2>4. t.forms[f].up = FALSE
    BY <2>2, <2>3
  <2>5. QED BY <2>4
<1>4. IsTab(v, t)
  <2>1. DOMAIN t.forms = Forms(v) /\ t.gate = None /\ t.calls = {} /\ ~t.waiting
    BY <1>1
  <2>2. QED BY <1>1, <1>3, <2>1 DEF IsTab
<1>5. Writes(t) = {} /\ ~Retried(t)
  BY <1>1 DEF Writes, Retried
<1>6. \A f \in Dialogs(v) : ~t.forms[f].up
  <2>1. ASSUME NEW f \in Dialogs(v) PROVE ~t.forms[f].up
    <3>1. f \in Forms(v) /\ v.forms[f].opens = "row"
      BY DialogFacts
    <3>2. QED BY <1>0, <3>1
  <2>2. QED BY <2>1
<1>7. PairsApart(v, t)
  <2>1. ASSUME NEW f \in Forms(v), NEW g \in Forms(v), Paired(v, f, g) PROVE ~t.forms[f].up
    <3>1. v.forms[f].opens \in {"row", "blank"}
      BY <2>1, PairFacts
    <3>2. QED BY <1>0, <3>1
  <2>2. QED BY <1>5, <2>1 DEF PairsApart
<1>8. Meant(v, t)
  BY <1>4, <1>5, <1>6, <1>7 DEF Meant, MeantBut, FlagsUp, FlagsApart, KeysApart, DialogsWait
<1>9. Here.mounts \subseteq Loads(Here) /\ IsFiniteSet(Here.mounts)
  BY FS_Subset DEF OkView, Refers, Loads
<1>10. Shape(Here, t)
  BY <1>4, TabShape
<1>11. Aside(Here, t, AskAll(t, Here.mounts))
  BY <1>9, <1>10, AskAllAside
<1>12. QED BY <1>2, <1>8, <1>11, AsideKeeps DEF Meant

LEMMA TabInvInit == TabInit => TabInv
<1> SUFFICES ASSUME TabInit PROVE TabInv
  OBVIOUS
<1>1. screen \in DOMAIN ViewOf
  BY DEF TabInit
<1>2. PICK s, q : tab = Fresh(s, q)
  BY DEF TabInit
<1>3. OkView(Here)
  BY <1>1, HereIsOk
<1>4. QED BY <1>1, <1>2, <1>3, FreshIsMeant DEF TabInv

LEMMA TabInvNext == TabInv /\ [TabNext]_tabVars => TabInv'
<1> SUFFICES ASSUME TabInv, [TabNext]_tabVars PROVE TabInv'
  OBVIOUS
<1>1. screen \in DOMAIN ViewOf /\ Meant(Here, tab)
  BY DEF TabInv
<1>2. OkView(Here)
  BY <1>1, HereIsOk
<1>3. DOMAIN tab.forms = Forms(Here)
  BY <1>1 DEF Meant, MeantBut, IsTab
<1>4. SUFFICES screen' = screen /\ Meant(Here, tab')
  BY <1>1 DEF TabInv, Here
<1>5. CASE UNCHANGED tabVars
  BY <1>1, <1>5 DEF tabVars
<1>6. ASSUME NEW f \in DOMAIN tab.forms, Open(f) PROVE screen' = screen /\ Meant(Here, tab')
  BY <1>1, <1>2, <1>3, <1>6, OpenAction DEF Open, Does
<1>7. ASSUME NEW f \in DOMAIN tab.forms, Close(f) PROVE screen' = screen /\ Meant(Here, tab')
  BY <1>1, <1>2, <1>3, <1>7, CloseAction DEF Close, Does
<1>8. ASSUME NEW f \in DOMAIN tab.forms, Submit(f) PROVE screen' = screen /\ Meant(Here, tab')
  BY <1>1, <1>2, <1>3, <1>8, SubmitAction DEF Submit, Does
<1>9. CASE Confirm
  BY <1>1, <1>2, <1>9, ConfirmAction DEF Confirm
<1>10. CASE Cancel
  BY <1>1, <1>2, <1>10, CancelAction DEF Cancel
<1>11. ASSUME NEW s, Switch(s) PROVE screen' = screen /\ Meant(Here, tab')
  BY <1>1, <1>2, <1>11, AskingActions DEF Switch, Does
<1>12. ASSUME NEW p \in Loads(Here), Tick(p) \/ \E row : Prefetch(p, row)
       PROVE  screen' = screen /\ Meant(Here, tab')
  BY <1>1, <1>2, <1>12, AskingActions DEF Tick, Prefetch, Does
<1>13. ASSUME NEW term, Typed(term) PROVE screen' = screen /\ Meant(Here, tab')
  BY <1>1, <1>2, <1>13, AskingActions DEF Typed, Does
<1>14. ASSUME NEW page, Turn(page) PROVE screen' = screen /\ Meant(Here, tab')
  BY <1>1, <1>2, <1>14, AskingActions DEF Turn, Does
<1>15. CASE DebounceFires
  BY <1>1, <1>2, <1>15, AskingActions DEF DebounceFires
<1>16. ASSUME NEW u, Travel(u) PROVE screen' = screen /\ Meant(Here, tab')
  BY <1>1, <1>2, <1>16, AskingActions DEF Travel, Does
<1>17. ASSUME NEW c \in tab.calls, Serve(c) PROVE screen' = screen /\ Meant(Here, tab')
  BY <1>1, <1>2, <1>17, ServeAction DEF Serve
<1>18. ASSUME NEW c \in tab.calls, LoadAnswered(c) PROVE screen' = screen /\ Meant(Here, tab')
  BY <1>1, <1>2, <1>18, LoadAnsweredAction DEF LoadAnswered, Arrives
<1>19. ASSUME NEW c \in tab.calls, Previewed(c) PROVE screen' = screen /\ Meant(Here, tab')
  BY <1>1, <1>2, <1>19, PreviewedAction DEF Previewed, Arrives
<1>20. ASSUME NEW c \in tab.calls, Written(c) PROVE screen' = screen /\ Meant(Here, tab')
  BY <1>1, <1>2, <1>20, WrittenAction DEF Written, Arrives
<1>21. ASSUME NEW k, Forget(k) PROVE screen' = screen /\ Meant(Here, tab')
  BY <1>1, <1>2, <1>21, AskingActions DEF Forget
<1>22. QED
  BY <1>5, <1>6, <1>7, <1>8, <1>9, <1>10, <1>11, <1>12, <1>13, <1>14, <1>15, <1>16, <1>17, <1>18, <1>19, <1>20, <1>21
     DEF TabNext, Loads

LEMMA MeantWrites == TabInv => WritesAreMeant
<1> SUFFICES ASSUME TabInv PROVE WritesAreMeant
  OBVIOUS
<1>1. OkView(Here) /\ Meant(Here, tab)
  BY HereIsOk DEF TabInv
<1>2. \A c \in tab.calls : IsCall(Here, tab, c)
  BY <1>1 DEF Meant, MeantBut, IsTab
<1>3. KeysApart(Here, tab)
  BY <1>1 DEF Meant, MeantBut
<1>4. ASSUME NEW c \in tab.calls, c.kind = "write"
      PROVE  /\ FormOf(c.for).late \/ c.of = c.meant
             /\ c.over => c.told = c.of
             /\ \A d \in tab.calls : d.kind = "write" /\ d # c =>
                  (Disabled(Here, FormOf(c.for)) => <<c.for, c.opening, c.of>> # <<d.for, d.opening, d.of>>)
  BY <1>2, <1>3, <1>4 DEF IsCall, KeysApart, Writes, KeyOf, FormOf
<1>5. QED BY <1>4 DEF WritesAreMeant

\* Whatever is typed, clicked, answered or lost, and in whatever order, a write in flight is of the row
\* its user acted on, a retry is of the row of its verdict, and a form that is disabled while it saves
\* has one write in flight.
THEOREM WritesStayMeant == TabSpec => []WritesAreMeant
<1>1. TabInv /\ [TabNext]_tabVars => TabInv'
  BY TabInvNext
<1>2. QED BY <1>1, TabInvInit, MeantWrites, PTL DEF TabSpec

----------------------------------------------------------------------------
(* What ends a flag *)

\* The fields of a tab that flags depend on.
Panelled(v, t) ==
  /\ TabFields \subseteq DOMAIN t /\ t.asked \in Nat
  /\ DOMAIN t.panels = Loads(v) /\ \A p \in Loads(v) : "no" \in DOMAIN t.panels[p]
  /\ DOMAIN t.forms = Forms(v) /\ \A f \in Forms(v) : "opening" \in DOMAIN t.forms[f]
  /\ \A c \in t.calls : /\ CallFields \subseteq DOMAIN c
                        /\ IF c.kind = "load" THEN c.for \in Loads(v) ELSE c.for \in Forms(v)

\* An answer that is heard: of the question the panel was asked last, or of whom the section is about.
Counts(v, t, c) ==
  /\ c.no # 0
  /\ v.loads[c.for].guard \in {"latest", "abort"} => c.no = t.panels[c.for].no
  /\ v.loads[c.for].guard = "question" => c.of = t.subject

\* The answer to a call lowers a flag.
LoadEnds(v, t, c, x) == c.kind = "load" /\ x = <<v.loads[c.for].flag, None>> /\ Counts(v, t, c)
WriteEnds(v, t, c, x) ==
  /\ c.kind = "write" /\ Heard(v, t, c)
  /\ x = FlagOf(v, c) \/ (v.forms[c.for].per = "slot" /\ x[1] = v.forms[c.for].flag)

\* A section that is about nobody, and no longer shows its flag.
Nobody(v, t, x) ==
  t.subject = None /\ \E p \in Loads(v) : v.loads[p].guard = "question" /\ x = <<v.loads[p].flag, None>>
Ends(v, t, x) == Nobody(v, t, x) \/ \E c \in t.calls : LoadEnds(v, t, c, x) \/ WriteEnds(v, t, c, x)

\* Every flag that is up ends, but for those of loads that are about to be asked.
Proper(v, x) == x[1] # "" /\ \A p \in Loads(v) : v.loads[p].flag = x[1] => x = <<v.loads[p].flag, None>>
Lit(v, t, but) ==
  /\ Panelled(v, t)
  /\ \A x \in t.up : Proper(v, x) /\ (Ends(v, t, x) \/ \E p \in but : x = <<v.loads[p].flag, None>>)

\* Asking one of these raises its flag or lowers it.
Askable(v, ps) ==
  \A p \in ps : p \in Loads(v) /\ (v.loads[p].flag # "" =>
     ~v.loads[p].kept /\ (v.loads[p].about = "subject" => v.loads[p].guard \in {"latest", "question"}))

----------------------------------------------------------------------------
(* Steps that ask for nothing *)

\* Panels are not asked, forms not opened or closed, and the section is about who it was.
Still(v, t, u) ==
  /\ u.subject = t.subject
  /\ \A p \in Loads(v) : u.panels[p].no = t.panels[p].no
  /\ \A f \in Forms(v) : u.forms[f].opening = t.forms[f].opening

LEMMA StillEnds ==
  ASSUME NEW v, NEW t, NEW u, Still(v, t, u), NEW c, NEW x,
         IF c.kind = "load" THEN c.for \in Loads(v) ELSE c.for \in Forms(v)
  PROVE  /\ LoadEnds(v, t, c, x) <=> LoadEnds(v, u, c, x)
         /\ WriteEnds(v, t, c, x) <=> WriteEnds(v, u, c, x)
<1>1. ASSUME c.kind = "load" PROVE Counts(v, t, c) <=> Counts(v, u, c)
  BY <1>1 DEF Still, Counts
<1>2. ASSUME c.kind # "load" PROVE Heard(v, t, c) <=> Heard(v, u, c)
  BY <1>2 DEF Still, Heard
<1>3. QED BY <1>1, <1>2 DEF LoadEnds, WriteEnds

\* Whatever a call that is gone would have ended was lowered, or is ended by another.
LEMMA StillLit ==
  ASSUME NEW v, NEW t, NEW u, NEW but, Lit(v, t, but), Panelled(v, u), Still(v, t, u), u.up \subseteq t.up,
         \A x \in u.up, c \in t.calls : LoadEnds(v, t, c, x) \/ WriteEnds(v, t, c, x) =>
           c \in u.calls \/ \E d \in u.calls : LoadEnds(v, t, d, x) \/ WriteEnds(v, t, d, x)
  PROVE  Lit(v, u, but)
<1>1. ASSUME NEW x \in u.up PROVE Proper(v, x) /\ (Ends(v, u, x) \/ \E p \in but : x = <<v.loads[p].flag, None>>)
  <2>1. Proper(v, x) /\ (Ends(v, t, x) \/ \E p \in but : x = <<v.loads[p].flag, None>>)
    BY DEF Lit
  <2>2. Nobody(v, t, x) => Nobody(v, u, x)
    BY DEF Nobody, Still
  <2>3. ASSUME NEW c \in t.calls, LoadEnds(v, t, c, x) \/ WriteEnds(v, t, c, x) PROVE Ends(v, u, x)
    <3>1. PICK d \in u.calls : LoadEnds(v, t, d, x) \/ WriteEnds(v, t, d, x)
      BY <2>3
    <3>2. IF d.kind = "load" THEN d.for \in Loads(v) ELSE d.for \in Forms(v)
      BY DEF Panelled
    <3>3. LoadEnds(v, u, d, x) \/ WriteEnds(v, u, d, x)
      BY <3>1, <3>2, StillEnds
    <3>4. QED BY <3>3 DEF Ends
  <2>4. QED BY <2>1, <2>2, <2>3 DEF Ends
<1>2. QED BY <1>1 DEF Lit

----------------------------------------------------------------------------
(* Asking *)

\* What a load that is asked of q does to a tab: a call for it is in flight, or a kept answer was good.
AskedFor(l, t, p, q, u) ==
  /\ Panelled(Here, u) /\ u.subject = t.subject /\ u.forms = t.forms
  /\ \A s \in Loads(Here) \ {p} : u.panels[s] = t.panels[s]
  /\ \/ l.kept /\ u.up = t.up /\ u.calls = t.calls
     \/ /\ u.up = IF l.flag = "" THEN t.up ELSE t.up \cup {<<l.flag, None>>}
        /\ \A c \in t.calls : c \in u.calls \/ (c.kind = "load" /\ (c.for = p \/ (l.guard = "abort" /\ c.for \in l.then)))
        /\ \E d \in u.calls : d.kind = "load" /\ d.for = p /\ d.of = q /\ d.no # 0 /\ d.no = u.panels[p].no

LEMMA AskForFields ==
  ASSUME NEW t, Panelled(Here, t), NEW p \in Loads(Here), NEW q, NEW l
  PROVE  AskedFor(l, t, p, q, AskFor(l, t, p, q))
<1>u. PICK u : u = AskFor(l, t, p, q)
  OBVIOUS
<1> DEFINE n == t.asked + 1
           good == {k \in t.kept: l.kept /\ k.for = p /\ k.of = q /\ k.gen = t.told}
           same == {c \in InFlight(t, {p}): l.shared /\ c.of = q}
           gone == same \cup IF l.guard = "abort" THEN InFlight(t, {p} \cup l.then) ELSE {}
           fresh == [Request EXCEPT !.for = p, !.of = q, !.no = n, !.gen = t.told]
           old == IF same = {} THEN {fresh} ELSE same
           new == {[c EXCEPT !.no = n]: c \in old}
           asked == [t EXCEPT !.asked = n,
                              !.panels[p] = [@ EXCEPT !.no = n, !.of = q, !.excuse = IF same = {} THEN "" ELSE "joined"]]
           shown == [asked EXCEPT !.panels[p] = [Fill(@, q, (CHOOSE k \in good: TRUE).seen, n) EXCEPT !.excuse = ""]]
           sent == [asked EXCEPT !.calls = (@ \ gone) \cup new, !.up = IF l.flag = "" THEN @ ELSE @ \cup {<<l.flag, None>>}]
<1>1. u = IF good # {} THEN shown ELSE sent
  BY <1>u DEF AskFor
<1>2. n \in Nat /\ n # 0
  BY DEF Panelled
<1>3. \A c \in same : CallFields \subseteq DOMAIN c /\ c.kind = "load" /\ c.for = p /\ c.of = q /\ c \in t.calls
  BY DEF InFlight, Panelled
<1>4. \A c \in gone : c.kind = "load" /\ (c.for = p \/ (l.guard = "abort" /\ c.for \in l.then))
  BY DEF InFlight
<1>5. CallFields \subseteq DOMAIN fresh /\ fresh.kind = "load" /\ fresh.for = p /\ fresh.of = q
  BY DEF Request, CallFields
<1> HIDE DEF fresh, same, n
<1>6. \A c \in old : CallFields \subseteq DOMAIN c /\ c.kind = "load" /\ c.for = p /\ c.of = q
  BY <1>3, <1>5
<1>7. old # {}
  OBVIOUS
<1> HIDE DEF old
<1>8. /\ \A d \in new : CallFields \subseteq DOMAIN d /\ d.kind = "load" /\ d.for = p /\ d.of = q /\ d.no = n
      /\ new # {}
  <2>1. ASSUME NEW d \in new PROVE CallFields \subseteq DOMAIN d /\ d.kind = "load" /\ d.for = p /\ d.of = q /\ d.no = n
    <3>1. PICK c \in old : d = [c EXCEPT !.no = n]
      OBVIOUS
    <3>2. QED BY <1>6, <3>1 DEF CallFields
  <2>2. QED BY <1>7, <2>1
<1>9. /\ TabFields \subseteq DOMAIN asked /\ asked.asked = n /\ asked.calls = t.calls /\ asked.up = t.up
      /\ asked.subject = t.subject /\ asked.forms = t.forms /\ DOMAIN asked.panels = Loads(Here)
      /\ \A s \in Loads(Here) \ {p} : asked.panels[s] = t.panels[s]
      /\ "no" \in DOMAIN asked.panels[p] /\ asked.panels[p].no = n
  BY DEF Panelled, TabFields
<1> HIDE DEF asked, new, gone, good
<1>10. ASSUME good # {} PROVE AskedFor(l, t, p, q, u)
  <2>1. l.kept
    BY <1>10 DEF good
  <2>2. u = shown
    BY <1>1, <1>10
  <2>3. /\ TabFields \subseteq DOMAIN u /\ u.asked = n /\ u.calls = t.calls /\ u.up = t.up
        /\ u.subject = t.subject /\ u.forms = t.forms /\ DOMAIN u.panels = Loads(Here)
        /\ \A s \in Loads(Here) \ {p} : u.panels[s] = t.panels[s]
        /\ "no" \in DOMAIN u.panels[p]
    BY <1>9, <2>2 DEF TabFields, Fill
  <2>4. Panelled(Here, u)
    BY <1>2, <2>3 DEF Panelled
  <2>5. QED BY <2>1, <2>3, <2>4 DEF AskedFor
<1>11. ASSUME good = {} PROVE AskedFor(l, t, p, q, u)
  <2>1. u = sent
    BY <1>1, <1>11
  <2>2. /\ TabFields \subseteq DOMAIN u /\ u.asked = n /\ u.calls = (t.calls \ gone) \cup new
        /\ u.up = IF l.flag = "" THEN t.up ELSE t.up \cup {<<l.flag, None>>}
        /\ u.subject = t.subject /\ u.forms = t.forms /\ u.panels = asked.panels
    BY <1>9, <2>1 DEF TabFields
  <2>3. Panelled(Here, u)
    <3>1. ASSUME NEW c \in u.calls
          PROVE  CallFields \subseteq DOMAIN c /\ IF c.kind = "load" THEN c.for \in Loads(Here) ELSE c.for \in Forms(Here)
      <4>1. c \in t.calls \/ c \in new
        BY <2>2
      <4>2. QED BY <1>8, <4>1 DEF Panelled
    <3>2. \A s \in Loads(Here) : "no" \in DOMAIN u.panels[s]
      BY <1>9, <2>2 DEF Panelled
    <3>3. DOMAIN u.forms = Forms(Here) /\ \A f \in Forms(Here) : "opening" \in DOMAIN u.forms[f]
      BY <2>2 DEF Panelled
    <3>4. QED BY <1>2, <1>9, <2>2, <3>1, <3>2, <3>3 DEF Panelled
  <2>4. \E d \in u.calls : d.kind = "load" /\ d.for = p /\ d.of = q /\ d.no # 0 /\ d.no = u.panels[p].no
    BY <1>2, <1>8, <1>9, <2>2
  <2>5. \A c \in t.calls : c \in u.calls \/ (c.kind = "load" /\ (c.for = p \/ (l.guard = "abort" /\ c.for \in l.then)))
    BY <1>4, <2>2
  <2>6. QED BY <1>9, <2>2, <2>3, <2>4, <2>5 DEF AskedFor
<1>12. AskedFor(l, t, p, q, u)
  BY <1>10, <1>11
<1>13. QED BY <1>u, <1>12

\* A load that is asked raises its flag for the answer to come, and takes no other load's answer away.
LEMMA AskForLit ==
  ASSUME OkView(Here), NEW t, NEW but, Lit(Here, t, but), Askable(Here, but), NEW p \in Loads(Here), NEW q,
         LoadOf(p).guard = "question" /\ LoadOf(p).flag # "" => q = t.subject
  PROVE  Lit(Here, AskFor(LoadOf(p), t, p, q), but \ {p})
<1> DEFINE v == Here
           l == v.loads[p]
<1> HIDE DEF l
<1>l. l = LoadOf(p)
  BY DEF l, LoadOf
<1>u. PICK u : u = AskFor(l, t, p, q)
  OBVIOUS
<1>a. AskedFor(l, t, p, q, u)
  BY <1>u, AskForFields DEF Lit
<1>1. /\ Panelled(v, u) /\ u.subject = t.subject /\ u.forms = t.forms
      /\ \A s \in Loads(v) \ {p} : u.panels[s] = t.panels[s]
  BY <1>a DEF AskedFor
<1>2. \/ l.kept /\ u.up = t.up /\ u.calls = t.calls
      \/ /\ u.up = IF l.flag = "" THEN t.up ELSE t.up \cup {<<l.flag, None>>}
         /\ \A c \in t.calls : c \in u.calls \/ (c.kind = "load" /\ (c.for = p \/ (l.guard = "abort" /\ c.for \in l.then)))
         /\ \E d \in u.calls : d.kind = "load" /\ d.for = p /\ d.of = q /\ d.no # 0 /\ d.no = u.panels[p].no
  BY <1>a DEF AskedFor
<1>0. \A a, b : <<a, b>>[1] = a
  OBVIOUS
<1>3. ASSUME NEW c \in t.calls, NEW x, WriteEnds(v, t, c, x), c \in u.calls PROVE WriteEnds(v, u, c, x)
  BY <1>1, <1>3 DEF WriteEnds, Heard
<1>4. ASSUME NEW c \in t.calls, NEW x, LoadEnds(v, t, c, x), c \in u.calls, c.for # p \/ l.guard \notin {"latest", "abort"}
      PROVE  LoadEnds(v, u, c, x)
  <2>1. c.for \in Loads(v) /\ Counts(v, t, c)
    BY <1>4 DEF LoadEnds, Lit, Panelled
  <2>2. v.loads[c.for].guard \in {"latest", "abort"} => u.panels[c.for].no = t.panels[c.for].no
    <3>1. CASE c.for # p
      BY <1>1, <2>1, <3>1
    <3>2. CASE c.for = p
      BY <1>4, <3>2 DEF l
    <3>3. QED BY <3>1, <3>2
  <2>3. Counts(v, u, c)
    BY <1>1, <2>1, <2>2 DEF Counts
  <2>4. QED BY <1>4, <2>3 DEF LoadEnds
<1>5. \A x : Nobody(v, t, x) => Nobody(v, u, x)
  BY <1>1 DEF Nobody
<1>6. p \in DOMAIN v.loads /\ FlagsFall(v)
  BY DEF OkView, Loads
<1>7. l.flag # "" => /\ l.kept => l.guard = "none"
                     /\ \A f \in Forms(v) : v.forms[f].flag # l.flag
  BY <1>6 DEF FlagsFall, Forms, l
<1>8. \A s \in Loads(v) : v.loads[s].flag # "" => (l.guard = "abort" => s \notin l.then)
  BY <1>6 DEF FlagsFall, Loads, l
<1>9. ASSUME l.kept, u.up = t.up, u.calls = t.calls PROVE Lit(v, u, but \ {p})
  <2>1. ASSUME NEW x \in u.up
        PROVE  Proper(v, x) /\ (Ends(v, u, x) \/ \E s \in but \ {p} : x = <<v.loads[s].flag, None>>)
    <3>1. Proper(v, x) /\ (Ends(v, t, x) \/ \E s \in but : x = <<v.loads[s].flag, None>>)
      BY <1>9 DEF Lit
    <3>2. x[1] # ""
      BY <3>1 DEF Proper
    <3>3. x = <<l.flag, None>> => p \notin but
      <4>1. ASSUME x = <<l.flag, None>>, p \in but PROVE FALSE
        <5>1. l.flag # ""
          BY <1>0, <3>2, <4>1
        <5>2. ~l.kept
          BY <4>1, <5>1 DEF Askable, l
        <5>3. QED BY <1>9, <5>2
      <4>2. QED BY <4>1
    <3>4. ASSUME NEW c \in t.calls, LoadEnds(v, t, c, x) PROVE Ends(v, u, x)
      <4>1. c.for = p => l.guard = "none"
        BY <1>0, <1>7, <1>9, <3>2, <3>4 DEF LoadEnds, l
      <4>2. LoadEnds(v, u, c, x)
        BY <1>4, <1>9, <3>4, <4>1
      <4>3. QED BY <1>9, <4>2 DEF Ends
    <3>5. ASSUME NEW c \in t.calls, WriteEnds(v, t, c, x) PROVE Ends(v, u, x)
      BY <1>3, <1>9, <3>5 DEF Ends
    <3>6. Ends(v, t, x) => Ends(v, u, x)
      BY <1>5, <3>4, <3>5 DEF Ends
    <3>7. QED BY <3>1, <3>3, <3>6 DEF l
  <2>2. QED BY <1>1, <2>1 DEF Lit
<1>10. ASSUME u.up = IF l.flag = "" THEN t.up ELSE t.up \cup {<<l.flag, None>>},
              \A c \in t.calls : c \in u.calls \/ (c.kind = "load" /\ (c.for = p \/ (l.guard = "abort" /\ c.for \in l.then))),
              NEW d \in u.calls, d.kind = "load", d.for = p, d.of = q, d.no # 0, d.no = u.panels[p].no
       PROVE  Lit(v, u, but \ {p})
  <2>1. l.flag # "" => Ends(v, u, <<l.flag, None>>)
    <3>1. ASSUME l.flag # "" PROVE Counts(v, u, d)
      BY <1>l, <1>1, <1>10, <3>1 DEF Counts, l
    <3>2. QED BY <1>10, <3>1 DEF LoadEnds, Ends, l
  <2>2. ASSUME NEW x \in t.up, x # <<l.flag, None>>
        PROVE  Ends(v, u, x) \/ \E s \in but \ {p} : x = <<v.loads[s].flag, None>>
    <3>1. Proper(v, x) /\ (Ends(v, t, x) \/ \E s \in but : x = <<v.loads[s].flag, None>>)
      BY DEF Lit
    <3>2. ASSUME NEW c \in t.calls, LoadEnds(v, t, c, x) PROVE Ends(v, u, x)
      <4>1. c.for \in Loads(v) /\ c.for # p /\ v.loads[c.for].flag # ""
        BY <1>0, <2>2, <3>1, <3>2 DEF LoadEnds, Lit, Panelled, Proper, l
      <4>2. c \in u.calls
        BY <1>8, <1>10, <4>1
      <4>3. QED BY <1>4, <3>2, <4>1, <4>2 DEF Ends
    <3>3. ASSUME NEW c \in t.calls, WriteEnds(v, t, c, x) PROVE Ends(v, u, x)
      <4>1. c \in u.calls
        BY <1>10, <3>3 DEF WriteEnds
      <4>2. QED BY <1>3, <3>3, <4>1 DEF Ends
    <3>4. Ends(v, t, x) => Ends(v, u, x)
      BY <1>5, <3>2, <3>3 DEF Ends
    <3>5. QED BY <2>2, <3>1, <3>4 DEF l
  <2>3. ASSUME NEW x \in u.up
        PROVE  Proper(v, x) /\ (Ends(v, u, x) \/ \E s \in but \ {p} : x = <<v.loads[s].flag, None>>)
    <3>1. CASE x = <<l.flag, None>> /\ l.flag # ""
      <4>1. Proper(v, x)
        <5>1. \A s \in Loads(v) : v.loads[s].flag = l.flag => x = <<v.loads[s].flag, None>>
          BY <3>1
        <5>2. QED BY <1>0, <3>1, <5>1 DEF Proper
      <4>2. QED BY <2>1, <3>1, <4>1
    <3>2. CASE ~(x = <<l.flag, None>> /\ l.flag # "")
      <4>1. x \in t.up
        BY <1>10, <3>2
      <4>2. Proper(v, x)
        BY <4>1 DEF Lit
      <4>3. x # <<l.flag, None>>
        BY <1>0, <3>2, <4>2 DEF Proper
      <4>4. QED BY <2>2, <4>1, <4>2, <4>3
    <3>3. QED BY <3>1, <3>2
  <2>4. QED BY <1>1, <2>3 DEF Lit
<1>11. Lit(v, u, but \ {p})
  BY <1>2, <1>9, <1>10
<1>12. QED BY <1>11, <1>u, <1>l

\* Nobody to ask about: the flag is lowered, or hidden with the section.
LEMMA EmptyLit ==
  ASSUME OkView(Here), NEW t, NEW but, Lit(Here, t, but), Askable(Here, but), NEW p \in Loads(Here),
         LoadOf(p).about = "subject", t.subject = None
  PROVE  Lit(Here, Empty(LoadOf(p), t, p), but \ {p})
<1> DEFINE v == Here
           l == v.loads[p]
           u == Empty(LoadOf(p), t, p)
<1>1. p \in DOMAIN v.loads /\ FlagsFall(v)
  BY DEF OkView, Loads
<1>2. CASE l.guard = "latest"
  <2>1. u = [t EXCEPT !.up = Without(@, l.flag)]
    BY <1>2 DEF Empty, LoadOf
  <2>2. /\ TabFields \subseteq DOMAIN u /\ u.asked = t.asked /\ u.calls = t.calls /\ u.up = Without(t.up, l.flag)
        /\ u.subject = t.subject /\ u.forms = t.forms /\ u.panels = t.panels
    BY <2>1 DEF Lit, Panelled, TabFields
  <2> HIDE DEF u
  <2>3. Panelled(v, u) /\ Still(v, t, u)
    BY <2>2 DEF Lit, Panelled, Still
  <2>4. Lit(v, u, but)
    BY <2>2, <2>3, StillLit DEF Without
  <2>5. \A x \in u.up : x # <<l.flag, None>>
    BY <2>2 DEF Without
  <2>6. QED BY <2>4, <2>5 DEF Lit, u
<1>3. CASE l.guard # "latest"
  <2>1. u = [t EXCEPT !.asked = @ + 1, !.panels[p] = [@ EXCEPT !.no = t.asked + 1, !.of = None, !.shown = None, !.excuse = ""]]
    BY <1>3 DEF Empty, LoadOf
  <2>2. /\ TabFields \subseteq DOMAIN u /\ u.asked = t.asked + 1 /\ u.calls = t.calls /\ u.up = t.up
        /\ u.subject = t.subject /\ u.forms = t.forms
        /\ DOMAIN u.panels = Loads(v) /\ \A s \in Loads(v) : "no" \in DOMAIN u.panels[s]
        /\ \A s \in Loads(v) \ {p} : u.panels[s] = t.panels[s]
    BY <2>1 DEF Lit, Panelled, TabFields
  <2>3. Panelled(v, u)
    <3> HIDE DEF u
    <3>1. u.asked \in Nat
      BY <2>2 DEF Lit, Panelled
    <3>2. QED BY <2>2, <3>1 DEF Lit, Panelled
  <2> HIDE DEF u
  <2>4. ASSUME NEW x \in u.up
        PROVE  Proper(v, x) /\ (Ends(v, u, x) \/ \E s \in but \ {p} : x = <<v.loads[s].flag, None>>)
    <3>1. Proper(v, x) /\ (Ends(v, t, x) \/ \E s \in but : x = <<v.loads[s].flag, None>>)
      BY <2>2 DEF Lit
    <3>2. x[1] # ""
      BY <3>1 DEF Proper
    <3>3. ASSUME p \in but, x = <<l.flag, None>> PROVE Ends(v, u, x)
      <4>1. l.guard = "question"
        BY <1>3, <3>2, <3>3 DEF Askable, LoadOf
      <4>2. QED BY <2>2, <3>3, <4>1 DEF Ends, Nobody
    <3>4. ASSUME NEW c \in t.calls, LoadEnds(v, t, c, x) PROVE Ends(v, u, x)
      <4>1. c.for \in Loads(v) /\ Counts(v, t, c)
        BY <3>4 DEF LoadEnds, Lit, Panelled
      <4>2. c.for = p => l.guard # "abort"
        BY <1>1, <3>2, <3>4 DEF LoadEnds, FlagsFall, LoadOf
      <4>3. Counts(v, u, c)
        BY <1>3, <2>2, <4>1, <4>2 DEF Counts
      <4>4. QED BY <2>2, <3>4, <4>3 DEF LoadEnds, Ends
    <3>5. ASSUME NEW c \in t.calls, WriteEnds(v, t, c, x) PROVE Ends(v, u, x)
      BY <2>2, <3>5 DEF WriteEnds, Heard, Ends
    <3>6. Nobody(v, t, x) => Nobody(v, u, x)
      BY <2>2 DEF Nobody
    <3>7. Ends(v, t, x) => Ends(v, u, x)
      BY <3>4, <3>5, <3>6 DEF Ends
    <3>8. QED BY <3>1, <3>3, <3>7
  <2>5. QED BY <2>3, <2>4 DEF Lit, u
<1>4. QED BY <1>2, <1>3

LEMMA AskOneLit ==
  ASSUME OkView(Here), NEW t, NEW but, Lit(Here, t, but), Askable(Here, but), NEW p \in Loads(Here)
  PROVE  Lit(Here, AskOne(t, p), but \ {p})
<1>1. CASE LoadOf(p).about = "subject" /\ t.subject = None
  <2>1. AskOne(t, p) = Empty(LoadOf(p), t, p)
    BY <1>1 DEF AskOne, AskAgain
  <2>2. QED BY <1>1, <2>1, EmptyLit
<1>2. CASE ~(LoadOf(p).about = "subject" /\ t.subject = None)
  <2>1. AskOne(t, p) = AskFor(LoadOf(p), t, p, Question(LoadOf(p), t, p))
    BY <1>2 DEF AskOne, AskAgain
  <2>2. p \in DOMAIN Here.loads /\ FlagsFall(Here)
    BY DEF OkView, Loads
  <2>3. LoadOf(p).guard = "question" /\ LoadOf(p).flag # "" => LoadOf(p).about \in {"subject", "filter"}
    BY <2>2 DEF FlagsFall, LoadOf
  <2>4. LoadOf(p).guard = "question" /\ LoadOf(p).flag # "" => Question(LoadOf(p), t, p) = t.subject
    BY <2>3 DEF Question
  <2>5. Lit(Here, AskFor(LoadOf(p), t, p, Question(LoadOf(p), t, p)), but \ {p})
    BY <2>4, AskForLit
  <2>6. QED BY <2>1, <2>5
<1>3. QED BY <1>1, <1>2

\* What was about to be asked has been: its flag ends of itself.
LEMMA AskAllLit ==
  ASSUME OkView(Here), NEW t, NEW but, Lit(Here, t, but), Askable(Here, but), NEW ps, ps \subseteq Loads(Here), IsFiniteSet(ps)
  PROVE  Lit(Here, AskAll(t, ps), but \ ps)
<1>1. PICK g : AskAll(t, ps) = g[ps] /\ AskRounds(g, t, SUBSET ps)
  BY AskAllUnfolds
<1> DEFINE Good(n) == \A s \in UpTo(ps, n) : Lit(Here, g[s], but \ s)
<1>0. ASSUME NEW s \in SUBSET ps, s = {} PROVE Lit(Here, g[s], but \ s)
  <2>1. g[s] = t /\ but \ s = but
    BY <1>0, <1>1 DEF AskRounds
  <2>2. QED BY <2>1
<1>2. ASSUME NEW n \in Nat, ~Good(n) PROVE FALSE
  <2> DEFINE Broken == {m \in Nat : ~Good(m)}
  <2>1. PICK m \in Broken : \A k \in Broken : m <= k
    BY <1>2, LeastNat
  <2>2. Good(0)
    <3>1. \A s \in UpTo(ps, 0) : s = {} /\ s \in SUBSET ps
      BY SmallerSets DEF UpTo
    <3>2. QED BY <1>0, <3>1
  <2>3. m \in Nat /\ m # 0 /\ m - 1 \in Nat /\ Good(m - 1) /\ m - 1 + 1 = m
    BY <2>1, <2>2
  <2>4. ASSUME NEW s \in UpTo(ps, m), s # {} PROVE Lit(Here, g[s], but \ s)
    <3>1. s \in UpTo(ps, m - 1 + 1)
      BY <2>3
    <3>2. One(s) \in s /\ s \ {One(s)} \in UpTo(ps, m - 1)
      BY <2>3, <2>4, <3>1, SmallerSets
    <3>3. s \in SUBSET ps /\ g[s] = AskOne(g[s \ {One(s)}], One(s))
      BY <1>1, <2>4 DEF AskRounds, UpTo
    <3>4. Lit(Here, g[s \ {One(s)}], but \ (s \ {One(s)}))
      BY <2>3, <3>2
    <3>5. Askable(Here, but \ (s \ {One(s)})) /\ One(s) \in Loads(Here)
      BY <3>2, <3>3 DEF Askable
    <3>6. Lit(Here, AskOne(g[s \ {One(s)}], One(s)), (but \ (s \ {One(s)})) \ {One(s)})
      BY <3>4, <3>5, AskOneLit
    <3>7. (but \ (s \ {One(s)})) \ {One(s)} = but \ s
      BY <3>2
    <3>8. QED BY <3>3, <3>6, <3>7
  <2>5. \A s \in UpTo(ps, m) : s = {} => Lit(Here, g[s], but \ s)
    BY <1>0 DEF UpTo
  <2>6. QED BY <2>1, <2>4, <2>5
<1>3. ps \in UpTo(ps, Cardinality(ps)) /\ Cardinality(ps) \in Nat
  BY SmallerSets
<1>4. QED BY <1>1, <1>2, <1>3

LEMMA NoneLit ==
  ASSUME OkView(Here), NEW t, Lit(Here, t, {}), NEW ps, ps \subseteq Loads(Here), IsFiniteSet(ps)
  PROVE  Lit(Here, AskAll(t, ps), {})
<1>1. Askable(Here, {}) /\ {} \ ps = {}
  BY DEF Askable
<1>2. QED BY <1>1, AskAllLit

\* What a form asks about its row is not of whom the section is about.
LEMMA AskAboutLit ==
  ASSUME OkView(Here), NEW t, Lit(Here, t, {}), NEW f \in Forms(Here), NEW row
  PROVE  Lit(Here, AskAbout(t, Here.forms[f].shows, row), {})
<1> DEFINE ps == Here.forms[f].shows
<1>p. ps \subseteq Loads(Here) /\ IsFiniteSet(ps)
  BY FS_Subset DEF OkView, Refers, Loads, Forms
<1>q. \A p \in ps : ~(LoadOf(p).guard = "question" /\ LoadOf(p).flag # "")
  <2>1. FlagsFall(Here) /\ f \in DOMAIN Here.forms /\ ps \subseteq DOMAIN Here.loads
    BY <1>p DEF OkView, Loads, Forms
  <2>2. QED BY <2>1 DEF FlagsFall, LoadOf
<1>e. Askable(Here, {})
  BY DEF Askable
<1> HIDE DEF ps
<1>1. PICK g : AskAbout(t, ps, row) = g[ps] /\ RowRounds(g, t, SUBSET ps, row)
  BY <1>p, AskAboutUnfolds
<1> DEFINE Good(n) == \A s \in UpTo(ps, n) : Lit(Here, g[s], {})
<1>0. ASSUME NEW s \in SUBSET ps, s = {} PROVE Lit(Here, g[s], {})
  <2>1. g[s] = t
    BY <1>0, <1>1 DEF RowRounds
  <2>2. QED BY <2>1
<1>2. ASSUME NEW n \in Nat, ~Good(n) PROVE FALSE
  <2> DEFINE Broken == {m \in Nat : ~Good(m)}
  <2>1. PICK m \in Broken : \A k \in Broken : m <= k
    BY <1>2, LeastNat
  <2>2. Good(0)
    <3>1. \A s \in UpTo(ps, 0) : s = {} /\ s \in SUBSET ps
      BY <1>p, SmallerSets DEF UpTo
    <3>2. QED BY <1>0, <3>1
  <2>3. m \in Nat /\ m # 0 /\ m - 1 \in Nat /\ Good(m - 1) /\ m - 1 + 1 = m
    BY <2>1, <2>2
  <2>4. ASSUME NEW s \in UpTo(ps, m), s # {} PROVE Lit(Here, g[s], {})
    <3>1. s \in UpTo(ps, m - 1 + 1)
      BY <2>3
    <3>2. One(s) \in s /\ s \ {One(s)} \in UpTo(ps, m - 1)
      BY <1>p, <2>3, <2>4, <3>1, SmallerSets
    <3>3. s \in SUBSET ps /\ g[s] = Ask(g[s \ {One(s)}], One(s), row)
      BY <1>1, <2>4 DEF RowRounds, UpTo
    <3>4. Lit(Here, g[s \ {One(s)}], {}) /\ One(s) \in ps /\ One(s) \in Loads(Here)
      BY <1>p, <2>3, <3>2, <3>3
    <3>5. Lit(Here, AskFor(LoadOf(One(s)), g[s \ {One(s)}], One(s), row), {} \ {One(s)})
      BY <1>q, <1>e, <3>4, AskForLit
    <3>6. {} \ {One(s)} = {}
      OBVIOUS
    <3>7. QED BY <3>3, <3>5, <3>6 DEF Ask
  <2>5. \A s \in UpTo(ps, m) : s = {} => Lit(Here, g[s], {})
    BY <1>0 DEF UpTo
  <2>6. QED BY <2>1, <2>4, <2>5
<1>3. ps \in UpTo(ps, Cardinality(ps)) /\ Cardinality(ps) \in Nat
  BY <1>p, SmallerSets
<1>4. QED BY <1>1, <1>2, <1>3 DEF ps

----------------------------------------------------------------------------
(* Opening, closing and sending *)

LEMMA FlagNames ==
  ASSUME NEW v, NEW t, NEW c, NEW x, WriteEnds(v, t, c, x)
  PROVE  c.kind = "write" /\ Heard(v, t, c) /\ x[1] = v.forms[c.for].flag
<1>1. \A a, b : <<a, b>>[1] = a
  OBVIOUS
<1>2. FlagOf(v, c)[1] = v.forms[c.for].flag
  BY <1>1 DEF FlagOf, Flag
<1>3. QED BY <1>2 DEF WriteEnds

\* The flags that are left still end.
LEMMA EndsLit ==
  ASSUME NEW v, NEW t, NEW u, NEW but, NEW more, Lit(v, t, but), Panelled(v, u), u.subject = t.subject,
         \A x \in u.up : x \in t.up \/ (Proper(v, x) /\ Ends(v, u, x)), but \subseteq more,
         \A x \in u.up, c \in t.calls : LoadEnds(v, t, c, x) \/ WriteEnds(v, t, c, x) =>
           Ends(v, u, x) \/ \E p \in more : x = <<v.loads[p].flag, None>>
  PROVE  Lit(v, u, more)
<1>1. ASSUME NEW x \in u.up, x \in t.up PROVE Proper(v, x) /\ (Ends(v, u, x) \/ \E p \in more : x = <<v.loads[p].flag, None>>)
  <2>1. Proper(v, x) /\ (Ends(v, t, x) \/ \E p \in but : x = <<v.loads[p].flag, None>>)
    BY <1>1 DEF Lit
  <2>2. Nobody(v, t, x) => Nobody(v, u, x)
    BY DEF Nobody
  <2>3. QED BY <2>1, <2>2 DEF Ends
<1>2. QED BY <1>1 DEF Lit

LEMMA ShutLit ==
  ASSUME NEW t, NEW fs, NEW but, Lit(Here, t, but)
  PROVE  Lit(Here, ShutAll(t, fs), but)
<1> DEFINE v == Here
<1>u. PICK u : u = ShutAll(t, fs)
  OBVIOUS
<1>1. Panelled(v, t)
  BY DEF Lit
<1>2. /\ TabFields \subseteq DOMAIN u /\ DOMAIN u.forms = Forms(v)
      /\ u.calls = t.calls /\ u.asked = t.asked /\ u.panels = t.panels /\ u.subject = t.subject
      /\ \A f \in Forms(v) : u.forms[f] = IF f \in fs THEN Left(f, t.forms[f].opening) ELSE t.forms[f]
      /\ u.up = {x \in t.up : \A f \in fs : v.forms[f].child => x[1] # v.forms[f].flag}
  BY <1>u, <1>1 DEF ShutAll, Panelled, TabFields, FormOf
<1>3. \A f, n : "opening" \in DOMAIN Left(f, n)
  BY DEF Left
<1>4. \A f \in Forms(v) : "opening" \in DOMAIN u.forms[f]
  BY <1>1, <1>2, <1>3 DEF Panelled
<1>5. Panelled(v, u)
  BY <1>1, <1>2, <1>4 DEF Panelled
<1>6. ASSUME NEW x \in u.up, NEW c \in t.calls, LoadEnds(v, t, c, x) PROVE LoadEnds(v, u, c, x)
  BY <1>2, <1>6 DEF LoadEnds, Counts
<1>7. ASSUME NEW x \in u.up, NEW c \in t.calls, WriteEnds(v, t, c, x) PROVE WriteEnds(v, u, c, x)
  <2>1. c.kind = "write" /\ Heard(v, t, c) /\ x[1] = v.forms[c.for].flag
    BY <1>7, FlagNames
  <2>2. c.for \in Forms(v)
    BY <1>1, <2>1 DEF Panelled
  <2>3. v.forms[c.for].child => c.for \notin fs
    BY <1>2, <2>1
  <2>4. Heard(v, u, c)
    BY <1>2, <2>1, <2>2, <2>3 DEF Heard
  <2>5. QED BY <1>7, <2>4 DEF WriteEnds
<1>8. \A x \in u.up, c \in t.calls : LoadEnds(v, t, c, x) \/ WriteEnds(v, t, c, x) => Ends(v, u, x)
  BY <1>2, <1>6, <1>7 DEF Ends
<1>9. Lit(v, u, but)
  BY <1>2, <1>5, <1>8, EndsLit
<1>10. QED BY <1>u, <1>9

LEMMA ShowLit ==
  ASSUME OkView(Here), NEW t, Lit(Here, t, {}), NEW f \in Forms(Here), NEW row
  PROVE  Lit(Here, Show(t, f, row), {})
<1> DEFINE v == Here
<1>w. PICK w : w = ShutAll(t, FormOf(f).shuts)
  OBVIOUS
<1>u. PICK u : u = [w EXCEPT !.forms[f] = [up |-> TRUE, row |-> row, opening |-> @.opening + 1],
                             !.up = IF FormOf(f).child THEN Without(@, FormOf(f).flag) ELSE @]
  OBVIOUS
<1>0. Lit(v, w, {})
  BY <1>w, ShutLit
<1>1. Panelled(v, w)
  BY <1>0 DEF Lit
<1>2. /\ TabFields \subseteq DOMAIN u /\ DOMAIN u.forms = Forms(v)
      /\ u.calls = w.calls /\ u.asked = w.asked /\ u.panels = w.panels /\ u.subject = w.subject
      /\ \A g \in Forms(v) \ {f} : u.forms[g] = w.forms[g]
      /\ u.forms[f] = [up |-> TRUE, row |-> row, opening |-> w.forms[f].opening + 1]
      /\ u.up = IF v.forms[f].child THEN Without(w.up, v.forms[f].flag) ELSE w.up
  BY <1>u, <1>1 DEF Panelled, TabFields, FormOf
<1>3. "opening" \in DOMAIN u.forms[f]
  BY <1>2
<1>4. \A g \in Forms(v) : "opening" \in DOMAIN u.forms[g]
  BY <1>1, <1>2, <1>3 DEF Panelled
<1>5. Panelled(v, u)
  BY <1>1, <1>2, <1>4 DEF Panelled
<1>6. ASSUME NEW x \in u.up, NEW c \in w.calls, LoadEnds(v, w, c, x) PROVE LoadEnds(v, u, c, x)
  BY <1>2, <1>6 DEF LoadEnds, Counts
<1>7. ASSUME NEW x \in u.up, NEW c \in w.calls, WriteEnds(v, w, c, x) PROVE WriteEnds(v, u, c, x)
  <2>1. c.kind = "write" /\ Heard(v, w, c) /\ x[1] = v.forms[c.for].flag
    BY <1>7, FlagNames
  <2>2. c.for \in Forms(v)
    BY <1>1, <2>1 DEF Panelled
  <2>3. v.forms[c.for].child => c.for # f
    BY <1>2, <2>1 DEF Without
  <2>4. Heard(v, u, c)
    BY <1>2, <2>1, <2>2, <2>3 DEF Heard
  <2>5. QED BY <1>7, <2>4 DEF WriteEnds
<1>8. \A x \in u.up, c \in w.calls : LoadEnds(v, w, c, x) \/ WriteEnds(v, w, c, x) => Ends(v, u, x)
  BY <1>2, <1>6, <1>7 DEF Ends
<1>9. \A x \in u.up : x \in w.up
  BY <1>2 DEF Without
<1>10. Lit(v, u, {})
  BY <1>0, <1>2, <1>5, <1>8, <1>9, EndsLit
<1>11. Show(t, f, row) = AskAbout(u, v.forms[f].shows, row)
  BY <1>w, <1>u DEF Show, FormOf
<1>12. QED BY <1>10, <1>11, AskAboutLit

LEMMA LeadLit ==
  ASSUME OkView(Here), NEW t, Lit(Here, t, {}), NEW f \in Forms(Here), NEW row
  PROVE  Lit(Here, Lead(t, FormOf(f), row), {})
<1>1. CASE FormOf(f).leads = ""
  BY <1>1 DEF Lead
<1>2. CASE FormOf(f).leads # ""
  <2>1. FormOf(f).leads \in Forms(Here)
    BY <1>2, ViewRefers DEF FormOf
  <2>2. Lit(Here, Show(t, FormOf(f).leads, row), {})
    BY <2>1, ShowLit
  <2>3. QED BY <1>2, <2>2 DEF Lead
<1>3. QED BY <1>1, <1>2

\* The flag that a write raises ends with it, unless its component is gone and none is raised.
LEMMA SendLit ==
  ASSUME OkView(Here), NEW t, NEW f \in Forms(Here), NEW call, Lit(Here, t, {}), CallFields \subseteq DOMAIN call, call.for = f
  PROVE  Lit(Here, Send(t, f, call), {})
<1> DEFINE v == Here
           form == FormOf(f)
<1>w. PICK w : w = SentAs(t, f, call)
  OBVIOUS
<1>1. /\ CallFields \subseteq DOMAIN w /\ w.kind = "write" /\ w.for = f /\ w.opening = call.opening
      /\ w.of = (IF form.late THEN t.forms[f].row ELSE call.of)
  BY <1>w DEF SentAs, CallFields
<1>2. PICK made : made = [t EXCEPT !.asked = @ + 1, !.calls = @ \cup {w}]
  OBVIOUS
<1>3. PICK sent : sent = IF Gone(t, call) THEN made ELSE Raise(made, form, w.of)
  OBVIOUS
<1>4. Send(t, f, call) = IF form.leaves = "sent" THEN ShutAll(sent, {f}) ELSE sent
  BY <1>w, <1>1, <1>2, <1>3 DEF Send, SentAs, Shut
<1>5. Gone(t, call) <=> ~Heard(v, t, w)
  BY <1>1 DEF Gone, Heard, FormOf
<1>6. Panelled(v, t)
  BY DEF Lit
<1>7. /\ TabFields \subseteq DOMAIN made /\ made.calls = t.calls \cup {w} /\ made.asked = t.asked + 1
      /\ made.forms = t.forms /\ made.panels = t.panels /\ made.up = t.up /\ made.subject = t.subject
  BY <1>2, <1>6 DEF Panelled, TabFields
<1>8. /\ TabFields \subseteq DOMAIN sent /\ sent.calls = t.calls \cup {w} /\ sent.asked = t.asked + 1
      /\ sent.forms = t.forms /\ sent.panels = t.panels /\ sent.subject = t.subject
      /\ sent.up = IF Gone(t, call) \/ form.flag = "" THEN t.up
                   ELSE (IF form.per = "slot" THEN Without(t.up, form.flag) ELSE t.up) \cup {Flag(form, w.of)}
  BY <1>3, <1>7 DEF Raise, TabFields
<1>9. Panelled(v, sent)
  <2>1. ASSUME NEW c \in sent.calls
        PROVE  CallFields \subseteq DOMAIN c /\ IF c.kind = "load" THEN c.for \in Loads(v) ELSE c.for \in Forms(v)
    BY <1>1, <1>6, <1>8 DEF Panelled
  <2>2. sent.asked \in Nat
    <3>1. PICK n \in Nat : n = t.asked
      BY <1>6 DEF Panelled
    <3>2. sent.asked = n + 1
      BY <1>8, <3>1
    <3>3. QED BY <3>2
  <2>3. QED BY <1>6, <1>8, <2>1, <2>2 DEF Panelled
<1>10. Still(v, t, sent)
  BY <1>8 DEF Still
<1>11. ASSUME NEW x \in sent.up, x \notin t.up PROVE Proper(v, x) /\ Ends(v, sent, x)
  <2>1. ~Gone(t, call) /\ form.flag # "" /\ x = Flag(form, w.of)
    BY <1>8, <1>11 DEF Without
  <2>2. x = FlagOf(v, w) /\ x[1] = form.flag
    <3>1. \A a, b : <<a, b>>[1] = a
      OBVIOUS
    <3>2. QED BY <1>1, <2>1, <3>1 DEF FlagOf, FormOf, Flag
  <2>3. \A p \in Loads(v) : v.loads[p].flag # "" => v.forms[f].flag # v.loads[p].flag
    BY DEF OkView, FlagsFall, Loads, Forms
  <2>4. Proper(v, x)
    BY <2>1, <2>2, <2>3 DEF Proper, FormOf
  <2>5. Heard(v, sent, w)
    BY <1>5, <1>8, <2>1 DEF Heard
  <2>6. WriteEnds(v, sent, w, x)
    BY <1>1, <2>2, <2>5 DEF WriteEnds
  <2>7. QED BY <1>8, <2>4, <2>6 DEF Ends
<1>12. ASSUME NEW x \in sent.up, NEW c \in t.calls, LoadEnds(v, t, c, x) \/ WriteEnds(v, t, c, x) PROVE Ends(v, sent, x)
  <2>1. IF c.kind = "load" THEN c.for \in Loads(v) ELSE c.for \in Forms(v)
    BY <1>6 DEF Panelled
  <2>2. LoadEnds(v, sent, c, x) \/ WriteEnds(v, sent, c, x)
    BY <1>10, <1>12, <2>1, StillEnds
  <2>3. QED BY <1>8, <2>2 DEF Ends
<1>13. Lit(v, sent, {})
  <2>1. /\ \A x \in sent.up : x \in t.up \/ (Proper(v, x) /\ Ends(v, sent, x))
        /\ \A x \in sent.up, c \in t.calls : LoadEnds(v, t, c, x) \/ WriteEnds(v, t, c, x) => Ends(v, sent, x)
    BY <1>11, <1>12
  <2>2. sent.subject = t.subject /\ {} \subseteq {}
    BY <1>8
  <2>3. QED BY <1>9, <2>1, <2>2, EndsLit
<1>14. Lit(v, ShutAll(sent, {f}), {})
  BY <1>13, ShutLit
<1>15. QED BY <1>4, <1>13, <1>14

----------------------------------------------------------------------------
(* What lowers a flag, and what touches none *)

\* Nothing that a flag depends on is changed, but for the calls.
Alike(v, t, u) ==
  /\ TabFields \subseteq DOMAIN u /\ u.asked = t.asked /\ u.subject = t.subject /\ u.up = t.up
  /\ DOMAIN u.panels = Loads(v) /\ \A p \in Loads(v) : "no" \in DOMAIN u.panels[p] /\ u.panels[p].no = t.panels[p].no
  /\ DOMAIN u.forms = Forms(v)
  /\ \A f \in Forms(v) : "opening" \in DOMAIN u.forms[f] /\ u.forms[f].opening = t.forms[f].opening

LEMMA AlikeStill ==
  ASSUME NEW v, NEW t, NEW u, Panelled(v, t), Alike(v, t, u),
         \A c \in u.calls : c \in t.calls \/
           (CallFields \subseteq DOMAIN c /\ IF c.kind = "load" THEN c.for \in Loads(v) ELSE c.for \in Forms(v))
  PROVE  Panelled(v, u) /\ Still(v, t, u)
  BY DEF Panelled, Alike, Still

LEMMA AlikeLit ==
  ASSUME NEW v, NEW t, NEW u, NEW but, Lit(v, t, but), Alike(v, t, u), u.calls = t.calls
  PROVE  Lit(v, u, but)
<1>1. Panelled(v, u) /\ Still(v, t, u)
  BY AlikeStill DEF Lit
<1>2. u.up \subseteq t.up
  BY DEF Alike
<1>3. QED BY <1>1, <1>2, StillLit

LEMMA SameAlike ==
  ASSUME NEW v, NEW t, Panelled(v, t), NEW u, TabFields \subseteq DOMAIN u, u.asked = t.asked, u.subject = t.subject,
         u.up = t.up, u.panels = t.panels, u.forms = t.forms
  PROVE  Alike(v, t, u)
  BY DEF Panelled, Alike

\* A call more ends what it ends; one that ends nothing may go, and one may take the place of its twin.
LEMMA MoreLit ==
  ASSUME NEW v, NEW t, NEW u, NEW but, Lit(v, t, but), Alike(v, t, u), NEW c,
         CallFields \subseteq DOMAIN c, IF c.kind = "load" THEN c.for \in Loads(v) ELSE c.for \in Forms(v),
         u.calls = t.calls \cup {c}
  PROVE  Lit(v, u, but)
<1>1. Panelled(v, u) /\ Still(v, t, u)
  BY AlikeStill DEF Lit
<1>2. u.up \subseteq t.up
  BY DEF Alike
<1>3. QED BY <1>1, <1>2, StillLit

LEMMA IdleLit ==
  ASSUME NEW v, NEW t, NEW u, NEW but, Lit(v, t, but), Alike(v, t, u), NEW c, u.calls = t.calls \ {c},
         \A x : ~LoadEnds(v, t, c, x) /\ ~WriteEnds(v, t, c, x)
  PROVE  Lit(v, u, but)
<1>1. Panelled(v, u) /\ Still(v, t, u)
  BY AlikeStill DEF Lit
<1>2. u.up \subseteq t.up
  BY DEF Alike
<1>3. \A x \in u.up, d \in t.calls : LoadEnds(v, t, d, x) \/ WriteEnds(v, t, d, x) => d \in u.calls
  OBVIOUS
<1>4. QED BY <1>1, <1>2, <1>3, StillLit

LEMMA TwinLit ==
  ASSUME NEW v, NEW t, NEW u, NEW but, Lit(v, t, but), Alike(v, t, u), NEW c \in t.calls, NEW d,
         CallFields \subseteq DOMAIN d, d.kind = c.kind, d.for = c.for, d.of = c.of, d.no = c.no, d.opening = c.opening,
         u.calls = (t.calls \ {c}) \cup {d}
  PROVE  Lit(v, u, but)
<1>1. \A x : /\ LoadEnds(v, t, c, x) => LoadEnds(v, t, d, x)
             /\ WriteEnds(v, t, c, x) => WriteEnds(v, t, d, x)
  BY DEF LoadEnds, Counts, WriteEnds, Heard, FlagOf
<1>2. Panelled(v, u) /\ Still(v, t, u)
  <2>1. IF d.kind = "load" THEN d.for \in Loads(v) ELSE d.for \in Forms(v)
    BY DEF Lit, Panelled
  <2>2. QED BY <2>1, AlikeStill DEF Lit
<1>3. u.up \subseteq t.up
  BY DEF Alike
<1>4. \A x \in u.up, e \in t.calls : LoadEnds(v, t, e, x) \/ WriteEnds(v, t, e, x) =>
        e \in u.calls \/ \E h \in u.calls : LoadEnds(v, t, h, x) \/ WriteEnds(v, t, h, x)
  BY <1>1
<1>5. QED BY <1>2, <1>3, <1>4, StillLit

\* The answer to a write lowers what it would end.
LEMMA LowerLit ==
  ASSUME NEW t, NEW w, Lit(Here, t, {}), Alike(Here, t, w), NEW c, c.kind = "write", w.calls = t.calls \ {c}
  PROVE  Lit(Here, Lower(w, FormOf(c.for), c.of), {})
<1> DEFINE v == Here
<1>u. PICK u : u = Lower(w, FormOf(c.for), c.of)
  OBVIOUS
<1>0. Panelled(v, w) /\ Still(v, t, w)
  BY AlikeStill DEF Lit
<1>1. /\ TabFields \subseteq DOMAIN u /\ u.calls = w.calls /\ u.asked = w.asked /\ u.subject = w.subject
      /\ u.panels = w.panels /\ u.forms = w.forms
      /\ u.up = IF v.forms[c.for].per = "slot" THEN Without(w.up, v.forms[c.for].flag) ELSE w.up \ {FlagOf(v, c)}
  BY <1>u, <1>0 DEF Lower, Panelled, TabFields, FlagOf, FormOf
<1>2. Panelled(v, u) /\ Still(v, t, u)
  BY <1>0, <1>1 DEF Panelled, Still
<1>3. \A x \in u.up : x \in t.up /\ x # FlagOf(v, c) /\ (v.forms[c.for].per = "slot" => x[1] # v.forms[c.for].flag)
  <2>1. \A a, b : <<a, b>>[1] = a
    OBVIOUS
  <2>2. FlagOf(v, c)[1] = v.forms[c.for].flag
    BY <2>1 DEF FlagOf, Flag
  <2>3. w.up = t.up
    BY DEF Alike
  <2>4. QED BY <1>1, <2>2, <2>3 DEF Without
<1>4. \A x \in u.up : ~LoadEnds(v, t, c, x) /\ ~WriteEnds(v, t, c, x)
  BY <1>3 DEF LoadEnds, WriteEnds
<1>5. \A x \in u.up, d \in t.calls : LoadEnds(v, t, d, x) \/ WriteEnds(v, t, d, x) => d \in u.calls
  BY <1>1, <1>4
<1>6. u.up \subseteq t.up
  BY <1>3
<1>7. Lit(v, u, {})
  BY <1>2, <1>5, <1>6, StillLit
<1>8. QED BY <1>u, <1>7

LEMMA OweAlike ==
  ASSUME NEW t, Panelled(Here, t), NEW form, NEW ns
  PROVE  Alike(Here, t, Owe(t, form, ns)) /\ Owe(t, form, ns).calls = t.calls
<1>u. PICK u : u = Owe(t, form, ns)
  OBVIOUS
<1> DEFINE due(p) == [t.panels[p] EXCEPT !.due = @ \cup ns, !.excuse = IF p \in form.misses THEN "missed" ELSE @]
           owed(p) == IF p \in Changed(form) \ form.patches THEN due(p) ELSE t.panels[p]
<1>1. u = [t EXCEPT !.panels = [p \in DOMAIN t.panels |-> owed(p)]]
  BY <1>u DEF Owe
<1>2. \A p \in Loads(Here) : "no" \in DOMAIN owed(p) /\ owed(p).no = t.panels[p].no
  BY DEF Panelled
<1> HIDE DEF owed
<1>3. /\ TabFields \subseteq DOMAIN u /\ u.calls = t.calls /\ u.asked = t.asked /\ u.subject = t.subject
      /\ u.up = t.up /\ u.forms = t.forms
      /\ u.panels = [p \in DOMAIN t.panels |-> owed(p)]
  BY <1>1 DEF Panelled, TabFields
<1>4. \A p \in Loads(Here) : "no" \in DOMAIN u.panels[p] /\ u.panels[p].no = t.panels[p].no
  BY <1>2, <1>3 DEF Panelled
<1>5. QED BY <1>u, <1>3, <1>4 DEF Alike, Panelled

LEMMA PatchAlike ==
  ASSUME NEW t, Panelled(Here, t), NEW form, NEW c
  PROVE  Alike(Here, t, Patch(t, form, c)) /\ Patch(t, form, c).calls = t.calls
<1>u. PICK u : u = Patch(t, form, c)
  OBVIOUS
<1> DEFINE lost(p) == t.panels[p].no > c.no \/ InFlight(t, {p}) # {}
           drawn(p) == [t.panels[p] EXCEPT !.due = @ \cup {c.seen}, !.at = @ \cup {c.seen},
                                           !.excuse = IF lost(p) THEN "stranded" ELSE @]
<1>1. /\ TabFields \subseteq DOMAIN u /\ u.calls = t.calls /\ u.asked = t.asked /\ u.subject = t.subject
      /\ u.up = t.up /\ u.forms = t.forms
      /\ u.panels = [p \in DOMAIN t.panels |-> IF p \in form.patches THEN drawn(p) ELSE t.panels[p]]
  BY <1>u DEF Patch, Panelled, TabFields
<1>2. \A p \in Loads(Here) : "no" \in DOMAIN drawn(p) /\ drawn(p).no = t.panels[p].no
  BY DEF Panelled
<1> HIDE DEF drawn
<1>3. \A p \in Loads(Here) : "no" \in DOMAIN u.panels[p] /\ u.panels[p].no = t.panels[p].no
  BY <1>1, <1>2 DEF Panelled
<1>4. QED BY <1>u, <1>1, <1>3 DEF Alike, Panelled

LEMMA UnheardAlike ==
  ASSUME NEW t, Panelled(Here, t), NEW form, NEW c
  PROVE  Alike(Here, t, Unheard(t, form, c)) /\ Unheard(t, form, c).calls = t.calls
<1>w. PICK w : w = Owe(t, form, c.done)
  OBVIOUS
<1>u. PICK u : u = Unheard(t, form, c)
  OBVIOUS
<1>1. Alike(Here, t, w) /\ w.calls = t.calls
  BY <1>w, OweAlike
<1>2. u = [w EXCEPT !.panels = [p \in DOMAIN @ |-> IF p \in Asked(form) THEN [@[p] EXCEPT !.excuse = "untold"] ELSE @[p]]]
  BY <1>w, <1>u DEF Unheard
<1>3. /\ TabFields \subseteq DOMAIN u /\ u.calls = w.calls /\ u.asked = w.asked /\ u.subject = w.subject
      /\ u.up = w.up /\ u.forms = w.forms
      /\ u.panels = [p \in DOMAIN w.panels |-> IF p \in Asked(form) THEN [w.panels[p] EXCEPT !.excuse = "untold"] ELSE w.panels[p]]
  BY <1>1, <1>2 DEF Alike, TabFields
<1>4. \A p \in Loads(Here) : "no" \in DOMAIN u.panels[p] /\ u.panels[p].no = t.panels[p].no
  BY <1>1, <1>3 DEF Alike
<1>5. QED BY <1>u, <1>1, <1>3, <1>4 DEF Alike

LEMMA ForgetLit ==
  ASSUME NEW t, NEW but, Lit(Here, t, but), NEW fs
  PROVE  Lit(Here, [t EXCEPT !.forms = [f \in DOMAIN @ |-> IF f \in fs THEN [@[f] EXCEPT !.row = None] ELSE @[f]]], but)
<1>u. PICK u : u = [t EXCEPT !.forms = [f \in DOMAIN @ |-> IF f \in fs THEN [@[f] EXCEPT !.row = None] ELSE @[f]]]
  OBVIOUS
<1>1. Panelled(Here, t)
  BY DEF Lit
<1>2. /\ TabFields \subseteq DOMAIN u /\ u.calls = t.calls /\ u.asked = t.asked /\ u.subject = t.subject
      /\ u.up = t.up /\ u.panels = t.panels
      /\ u.forms = [f \in DOMAIN t.forms |-> IF f \in fs THEN [t.forms[f] EXCEPT !.row = None] ELSE t.forms[f]]
  BY <1>u, <1>1 DEF Panelled, TabFields
<1>3. \A f \in Forms(Here) : "opening" \in DOMAIN u.forms[f] /\ u.forms[f].opening = t.forms[f].opening
  BY <1>1, <1>2 DEF Panelled
<1>4. Alike(Here, t, u)
  BY <1>1, <1>2, <1>3 DEF Alike, Panelled
<1>5. QED BY <1>u, <1>2, <1>4, AlikeLit

\* Loads that are dropped are asked again.
LEMMA ReloadLit ==
  ASSUME OkView(Here), NEW t, Lit(Here, t, {}), NEW f \in Forms(Here)
  PROVE  Lit(Here, Reload(t, FormOf(f)), {})
<1> DEFINE v == Here
           form == FormOf(f)
           ps == form.asks
           fresh == [t EXCEPT !.calls = @ \ InFlight(t, ps)]
<1>0. Panelled(v, t)
  BY DEF Lit
<1>1. ps \subseteq Loads(v) /\ IsFiniteSet(ps)
  BY ViewRefers DEF FormOf
<1>w. PICK w : w = IF ~form.anew THEN t
                   ELSE IF Here.list \in ps THEN [fresh EXCEPT !.query = t.url, !.written = t.url, !.waiting = FALSE]
                   ELSE fresh
  OBVIOUS
<1>2. Reload(t, form) = AskAll(w, ps)
  BY <1>w DEF Reload
<1>3. CASE ~form.anew
  <2>1. w = t
    BY <1>3, <1>w
  <2>2. QED BY <1>1, <1>2, <2>1, NoneLit
<1>4. CASE form.anew
  <2>1. /\ TabFields \subseteq DOMAIN w /\ w.calls = t.calls \ InFlight(t, ps)
        /\ w.asked = t.asked /\ w.subject = t.subject /\ w.up = t.up /\ w.panels = t.panels /\ w.forms = t.forms
    BY <1>0, <1>4, <1>w DEF Panelled, TabFields
  <2>2. Panelled(v, w) /\ Still(v, t, w)
    BY <1>0, <2>1, SameAlike, AlikeStill
  <2>3. ASSUME NEW x \in w.up, NEW c \in t.calls, LoadEnds(v, t, c, x) \/ WriteEnds(v, t, c, x)
        PROVE  Ends(v, w, x) \/ \E p \in ps : x = <<v.loads[p].flag, None>>
    <3>1. CASE c \in InFlight(t, ps)
      BY <2>3, <3>1 DEF InFlight, LoadEnds, WriteEnds
    <3>2. CASE c \notin InFlight(t, ps)
      <4>1. IF c.kind = "load" THEN c.for \in Loads(v) ELSE c.for \in Forms(v)
        BY <1>0 DEF Panelled
      <4>2. LoadEnds(v, w, c, x) \/ WriteEnds(v, w, c, x)
        BY <2>2, <2>3, <4>1, StillEnds
      <4>3. QED BY <2>1, <3>2, <4>2 DEF Ends
    <3>3. QED BY <3>1, <3>2
  <2>4. Lit(v, w, ps)
    <3>1. /\ w.subject = t.subject /\ {} \subseteq ps
          /\ \A x \in w.up : x \in t.up \/ (Proper(v, x) /\ Ends(v, w, x))
      BY <2>1
    <3> HIDE DEF ps
    <3>2. QED BY <2>2, <2>3, <3>1, EndsLit
  <2>5. Askable(v, ps)
    <3>1. FlagsFall(v) /\ f \in DOMAIN v.forms /\ v.forms[f].anew /\ ps = v.forms[f].asks
      BY <1>4 DEF OkView, FormOf, Forms
    <3>2. QED BY <1>1, <3>1 DEF FlagsFall, Askable, Loads
  <2>6. Lit(v, AskAll(w, ps), ps \ ps)
    <3> HIDE DEF ps
    <3>1. QED BY <1>1, <2>4, <2>5, AskAllLit
  <2>7. ps \ ps = {}
    OBVIOUS
  <2>8. QED BY <1>2, <2>6, <2>7
<1>5. QED BY <1>3, <1>4

----------------------------------------------------------------------------
(* Every step ends the flags it raises *)

LEMMA OpenLit ==
  ASSUME OkView(Here), Lit(Here, tab, {}), NEW f \in Forms(Here), Open(f) \/ Close(f)
  PROVE  Lit(Here, tab', {})
<1>1. CASE Open(f)
  <2>1. PICK row : tab' = Show(tab, f, row)
    BY <1>1 DEF Open
  <2>2. QED BY <2>1, ShowLit
<1>2. CASE Close(f)
  <2>1. tab' = ShutAll(tab, {f})
    BY <1>2 DEF Close, Shut
  <2>2. QED BY <2>1, ShutLit
<1>3. QED BY <1>1, <1>2

LEMMA SubmitLit ==
  ASSUME OkView(Here), Lit(Here, tab, {}), NEW f \in Forms(Here), Submit(f)
  PROVE  Lit(Here, tab', {})
<1> DEFINE form == FormOf(f)
<1>1. PICK row :
        tab' = IF form.steps = <<>> THEN Lead(ShutAll(Reload(tab, form), {f} \cap Up(tab, form.layer)), form, row)
               ELSE IF form.gate
               THEN [tab EXCEPT !.asked = @ + 1,
                                !.calls = @ \cup {[CallOf(f, row) EXCEPT !.kind = "preview", !.no = tab.asked + 1]}]
               ELSE Send(tab, f, CallOf(f, row))
  BY DEF Submit, CallOf
<1>2. Panelled(Here, tab)
  BY DEF Lit
<1>3. CallFields \subseteq DOMAIN CallOf(f, row) /\ CallOf(f, row).for = f
  BY DEF CallOf, Request, CallFields
<1>4. CASE form.steps = <<>>
  <2>1. Lit(Here, ShutAll(Reload(tab, form), {f} \cap Up(tab, form.layer)), {})
    BY ReloadLit, ShutLit
  <2>2. QED BY <1>1, <1>4, <2>1, LeadLit
<1>5. CASE form.steps # <<>> /\ form.gate
  <2>c. PICK c : c = [CallOf(f, row) EXCEPT !.kind = "preview", !.no = tab.asked + 1]
    OBVIOUS
  <2>1. CallFields \subseteq DOMAIN c /\ c.kind = "preview" /\ c.for = f
    BY <1>3, <2>c DEF CallFields
  <2>2. tab' = [tab EXCEPT !.asked = @ + 1, !.calls = @ \cup {c}]
    BY <1>1, <1>5, <2>c
  <2>3. /\ TabFields \subseteq DOMAIN tab' /\ tab'.calls = tab.calls \cup {c} /\ tab'.asked = tab.asked + 1
        /\ tab'.subject = tab.subject /\ tab'.up = tab.up /\ tab'.panels = tab.panels /\ tab'.forms = tab.forms
    BY <1>2, <2>2 DEF Panelled, TabFields
  <2>4. tab'.asked \in Nat
    <3>1. PICK n \in Nat : n = tab.asked
      BY <1>2 DEF Panelled
    <3>2. tab'.asked = n + 1
      BY <2>3, <3>1
    <3>3. QED BY <3>2
  <2>5. Panelled(Here, tab') /\ Still(Here, tab, tab')
    BY <1>2, <2>1, <2>3, <2>4 DEF Panelled, Still
  <2>6. tab'.up \subseteq tab.up /\ \A d \in tab.calls : d \in tab'.calls
    BY <2>3
  <2>7. QED BY <2>5, <2>6, StillLit
<1>6. CASE form.steps # <<>> /\ ~form.gate
  BY <1>1, <1>3, <1>6, SendLit
<1>7. QED BY <1>4, <1>5, <1>6

LEMMA GateLit ==
  ASSUME OkView(Here), IsTab(Here, tab), Lit(Here, tab, {}), Confirm \/ Cancel
  PROVE  Lit(Here, tab', {})
<1>t. PICK t : t = [tab EXCEPT !.gate = None]
  OBVIOUS
<1>1. Panelled(Here, tab)
  BY DEF Lit
<1>2. /\ TabFields \subseteq DOMAIN t /\ t.calls = tab.calls /\ t.asked = tab.asked
      /\ t.subject = tab.subject /\ t.up = tab.up /\ t.panels = tab.panels /\ t.forms = tab.forms
  BY <1>1, <1>t DEF Panelled, TabFields
<1>3. Lit(Here, t, {})
  BY <1>1, <1>2, SameAlike, AlikeLit
<1>4. CASE Confirm
  <2>c. PICK over, call : call = [tab.gate EXCEPT !.over = over, !.told = IF over THEN tab.gate.of ELSE None]
                          /\ tab' = Send(t, tab.gate.for, call)
    BY <1>4, <1>t DEF Confirm
  <2>1. CallFields \subseteq DOMAIN tab.gate /\ tab.gate.for \in Forms(Here)
    BY <1>4 DEF Confirm, IsTab, IsCall
  <2>2. CallFields \subseteq DOMAIN call /\ call.for = tab.gate.for
    BY <2>c, <2>1 DEF CallFields
  <2>3. QED BY <1>3, <2>c, <2>1, <2>2, SendLit
<1>5. CASE Cancel
  BY <1>3, <1>5, <1>t DEF Cancel
<1>6. QED BY <1>4, <1>5

\* The loads whose answers count for one subject are asked about the next one, or the section is about nobody.
LEMMA SwitchLit ==
  ASSUME OkView(Here), Lit(Here, tab, {}), NEW s, Switch(s)
  PROVE  Lit(Here, tab', {})
<1> DEFINE v == Here
           ps == {p \in Here.mounts: LoadOf(p).about \in {"subject", "filter"}}
           but == {p \in ps : v.loads[p].guard = "question"}
<1>t. PICK w : w = [tab EXCEPT !.subject = s]
  OBVIOUS
<1>1. tab' = AskAll(w, ps)
  BY <1>t DEF Switch
<1>2. ps \subseteq Loads(v) /\ IsFiniteSet(ps)
  <2>1. ps \subseteq Here.mounts /\ Here.mounts \subseteq Loads(v) /\ IsFiniteSet(Loads(v))
    BY DEF OkView, Refers, Loads
  <2> HIDE DEF ps
  <2>2. QED BY <2>1, FS_Subset
<1>3. Panelled(v, tab)
  BY DEF Lit
<1>4. /\ TabFields \subseteq DOMAIN w /\ w.calls = tab.calls /\ w.asked = tab.asked
      /\ w.up = tab.up /\ w.panels = tab.panels /\ w.forms = tab.forms
  BY <1>3, <1>t DEF Panelled, TabFields
<1>5. Panelled(v, w)
  BY <1>3, <1>4 DEF Panelled
<1>6. \A p \in Loads(v) : v.loads[p].guard = "question" /\ v.loads[p].flag # "" => p \in but /\ ~v.loads[p].kept
  <2>1. FlagsFall(v)
    BY DEF OkView
  <2>2. QED BY <2>1 DEF FlagsFall, Loads, LoadOf
<1>7. ASSUME NEW x \in w.up
      PROVE  Proper(v, x) /\ (Ends(v, w, x) \/ \E p \in but : x = <<v.loads[p].flag, None>>)
  <2>1. Proper(v, x) /\ Ends(v, tab, x)
    BY <1>4 DEF Lit
  <2>2. x[1] # "" /\ \A a, b : <<a, b>>[1] = a
    BY <2>1 DEF Proper
  <2>3. ASSUME Nobody(v, tab, x) PROVE \E p \in but : x = <<v.loads[p].flag, None>>
    <3>1. PICK p \in Loads(v) : v.loads[p].guard = "question" /\ x = <<v.loads[p].flag, None>>
      BY <2>3 DEF Nobody
    <3>2. v.loads[p].flag # ""
      BY <2>2, <3>1
    <3>3. p \in but
      BY <1>6, <3>1, <3>2
    <3> HIDE DEF but
    <3>4. QED BY <3>1, <3>3
  <2>4. ASSUME NEW c \in tab.calls, LoadEnds(v, tab, c, x) PROVE Ends(v, w, x) \/ \E p \in but : x = <<v.loads[p].flag, None>>
    <3>1. c.for \in Loads(v) /\ Counts(v, tab, c) /\ x = <<v.loads[c.for].flag, None>> /\ c.kind = "load"
      BY <1>3, <2>4 DEF LoadEnds, Panelled
    <3>2. CASE v.loads[c.for].guard = "question"
      <4>1. v.loads[c.for].flag # ""
        BY <2>2, <3>1
      <4>2. QED BY <1>6, <3>1, <3>2, <4>1
    <3>3. CASE v.loads[c.for].guard # "question"
      <4>1. Counts(v, w, c)
        BY <1>4, <3>1, <3>3 DEF Counts
      <4>2. QED BY <1>4, <3>1, <4>1 DEF LoadEnds, Ends
    <3>4. QED BY <3>2, <3>3
  <2>5. ASSUME NEW c \in tab.calls, WriteEnds(v, tab, c, x) PROVE Ends(v, w, x)
    BY <1>4, <2>5 DEF WriteEnds, Heard, Ends
  <2>6. QED BY <2>1, <2>3, <2>4, <2>5 DEF Ends
<1>8. but \subseteq ps
  OBVIOUS
<1>9. Askable(v, but)
  <2>1. \A p \in but : p \in Loads(v) /\ v.loads[p].guard = "question"
    BY <1>2
  <2>2. QED BY <1>6, <2>1 DEF Askable
<1> HIDE DEF but, ps
<1>10. Lit(v, w, but)
  BY <1>5, <1>7 DEF Lit
<1>11. Lit(v, AskAll(w, ps), but \ ps)
  BY <1>2, <1>9, <1>10, AskAllLit
<1>12. but \ ps = {}
  BY <1>8
<1>13. QED BY <1>1, <1>11, <1>12

LEMMA AskingLit ==
  ASSUME OkView(Here), Lit(Here, tab, {}), IsTab(Here, tab),
         \/ \E p \in Loads(Here) : Tick(p) \/ \E row : Prefetch(p, row)
         \/ \E term : Typed(term)
         \/ \E page : Turn(page)
         \/ DebounceFires
         \/ \E u : Travel(u)
         \/ \E k : Forget(k)
  PROVE  Lit(Here, tab', {})
<1>1. Panelled(Here, tab)
  BY DEF Lit
<1>2. ASSUME NEW w, TabFields \subseteq DOMAIN w, w.calls = tab.calls, w.asked = tab.asked, w.subject = tab.subject,
             w.up = tab.up, w.panels = tab.panels, w.forms = tab.forms
      PROVE  Lit(Here, w, {})
  BY <1>1, <1>2, SameAlike, AlikeLit
<1>3. Here.list # "" => Here.list \in Loads(Here)
  BY DEF OkView, Refers, Loads
<1>4. ASSUME NEW t, Lit(Here, t, {}), NEW p \in Loads(Here) PROVE Lit(Here, AskOne(t, p), {})
  <2>1. Askable(Here, {}) /\ {} \ {p} = {}
    BY DEF Askable
  <2>2. QED BY <1>4, <2>1, AskOneLit
<1>5. ASSUME NEW p \in Loads(Here), Tick(p) PROVE Lit(Here, tab', {})
  BY <1>4, <1>5 DEF Tick
<1>6. ASSUME NEW p \in Loads(Here), NEW row, Prefetch(p, row) PROVE Lit(Here, tab', {})
  <2>c. PICK c : c = [Request EXCEPT !.for = p, !.of = row, !.gen = tab.told]
    OBVIOUS
  <2>1. tab' = [tab EXCEPT !.calls = @ \cup {c}]
    BY <1>6, <2>c DEF Prefetch
  <2>2. CallFields \subseteq DOMAIN c /\ c.kind = "load" /\ c.for = p
    BY <2>c DEF Request, CallFields
  <2>3. /\ TabFields \subseteq DOMAIN tab' /\ tab'.calls = tab.calls \cup {c} /\ tab'.asked = tab.asked
        /\ tab'.subject = tab.subject /\ tab'.up = tab.up /\ tab'.panels = tab.panels /\ tab'.forms = tab.forms
    BY <1>1, <2>1 DEF Panelled, TabFields
  <2>4. QED BY <1>1, <2>2, <2>3, SameAlike, MoreLit
<1>7. ASSUME NEW term, Typed(term) PROVE Lit(Here, tab', {})
  <2>1. tab' = [tab EXCEPT !.query = <<term, 1>>, !.waiting = TRUE]
    BY <1>7 DEF Typed
  <2>2. /\ TabFields \subseteq DOMAIN tab' /\ tab'.calls = tab.calls /\ tab'.asked = tab.asked /\ tab'.subject = tab.subject
        /\ tab'.up = tab.up /\ tab'.panels = tab.panels /\ tab'.forms = tab.forms
    BY <1>1, <2>1 DEF Panelled, TabFields
  <2>3. QED BY <1>2, <2>2
<1>8. ASSUME NEW q, Here.list \in Loads(Here) PROVE Lit(Here, Commit(tab, q), {})
  <2>w. PICK w : w = [tab EXCEPT !.query = q, !.url = q, !.waiting = FALSE, !.written = IF q = tab.url THEN @ ELSE q]
    OBVIOUS
  <2>1. /\ TabFields \subseteq DOMAIN w /\ w.calls = tab.calls /\ w.asked = tab.asked /\ w.subject = tab.subject
        /\ w.up = tab.up /\ w.panels = tab.panels /\ w.forms = tab.forms
    BY <1>1, <2>w DEF Panelled, TabFields
  <2>2. Commit(tab, q) = AskOne(w, Here.list)
    BY <2>w DEF Commit
  <2>3. QED BY <1>2, <1>4, <1>8, <2>1, <2>2
<1>9. ASSUME NEW page, Turn(page) PROVE Lit(Here, tab', {})
  BY <1>3, <1>8, <1>9 DEF Turn
<1>10. ASSUME DebounceFires PROVE Lit(Here, tab', {})
  BY <1>8, <1>10 DEF DebounceFires, IsTab
<1>11. ASSUME NEW u, Travel(u) PROVE Lit(Here, tab', {})
  <2>1. Here.list \in Loads(Here)
    BY <1>3, <1>11 DEF Travel
  <2>2. CASE u = tab.written
    <3>1. tab' = [tab EXCEPT !.url = u]
      BY <1>11, <2>2 DEF Travel
    <3>2. /\ TabFields \subseteq DOMAIN tab' /\ tab'.calls = tab.calls /\ tab'.asked = tab.asked /\ tab'.subject = tab.subject
          /\ tab'.up = tab.up /\ tab'.panels = tab.panels /\ tab'.forms = tab.forms
      BY <1>1, <3>1 DEF Panelled, TabFields
    <3>3. QED BY <1>2, <3>2
  <2>3. CASE u # tab.written
    <3>w. PICK w : w = [tab EXCEPT !.url = u, !.query = u, !.written = u]
      OBVIOUS
    <3>1. tab' = AskOne(w, Here.list)
      BY <1>11, <2>3, <3>w DEF Travel
    <3>2. /\ TabFields \subseteq DOMAIN w /\ w.calls = tab.calls /\ w.asked = tab.asked /\ w.subject = tab.subject
          /\ w.up = tab.up /\ w.panels = tab.panels /\ w.forms = tab.forms
      BY <1>1, <3>w DEF Panelled, TabFields
    <3>3. QED BY <1>2, <1>4, <2>1, <3>1, <3>2
  <2>4. QED BY <2>2, <2>3
<1>12. ASSUME NEW k, Forget(k) PROVE Lit(Here, tab', {})
  <2>1. tab' = [tab EXCEPT !.kept = @ \ {k}]
    BY <1>12 DEF Forget
  <2>2. /\ TabFields \subseteq DOMAIN tab' /\ tab'.calls = tab.calls /\ tab'.asked = tab.asked /\ tab'.subject = tab.subject
        /\ tab'.up = tab.up /\ tab'.panels = tab.panels /\ tab'.forms = tab.forms
    BY <1>1, <2>1 DEF Panelled, TabFields
  <2>3. QED BY <1>2, <2>2
<1>13. QED BY <1>5, <1>6, <1>7, <1>9, <1>10, <1>11, <1>12

LEMMA ServeLit ==
  ASSUME Lit(Here, tab, {}), NEW c \in tab.calls, Serve(c)
  PROVE  Lit(Here, tab', {})
<1>1. Panelled(Here, tab)
  BY DEF Lit
<1>2. PICK r, world : tab' = [tab EXCEPT !.world = world, !.calls = (@ \ {c}) \cup {[c EXCEPT !.result = r, !.seen = world]}]
  BY DEF Serve
<1>d. PICK d : d = [c EXCEPT !.result = r, !.seen = world]
  OBVIOUS
<1>3. CallFields \subseteq DOMAIN d /\ d.kind = c.kind /\ d.for = c.for /\ d.of = c.of /\ d.no = c.no /\ d.opening = c.opening
  BY <1>1, <1>d DEF Panelled, CallFields
<1>4. /\ TabFields \subseteq DOMAIN tab' /\ tab'.calls = (tab.calls \ {c}) \cup {d} /\ tab'.asked = tab.asked
      /\ tab'.subject = tab.subject /\ tab'.up = tab.up /\ tab'.panels = tab.panels /\ tab'.forms = tab.forms
  BY <1>1, <1>2, <1>d DEF Panelled, TabFields
<1>5. Alike(Here, tab, tab')
  BY <1>1, <1>4, SameAlike
<1>6. QED BY <1>3, <1>4, <1>5, TwinLit

----------------------------------------------------------------------------
(* Every answer ends the flags it is heard for *)

LEMMA TakenAlike ==
  ASSUME Panelled(Here, tab), NEW c
  PROVE  Alike(Here, tab, Taken(c)) /\ Taken(c).calls = tab.calls \ {c}
<1>u. PICK u : u = Taken(c)
  OBVIOUS
<1>1. /\ TabFields \subseteq DOMAIN u /\ u.calls = tab.calls \ {c} /\ u.asked = tab.asked
      /\ u.subject = tab.subject /\ u.up = tab.up /\ u.panels = tab.panels /\ u.forms = tab.forms
  BY <1>u DEF Taken, Panelled, TabFields
<1>2. QED BY <1>u, <1>1, SameAlike

LEMMA KeepAlike ==
  ASSUME NEW t, Alike(Here, tab, t), NEW c
  PROVE  Alike(Here, tab, Keep(t, c)) /\ Keep(t, c).calls = t.calls
<1>u. PICK u : u = Keep(t, c)
  OBVIOUS
<1>1. /\ TabFields \subseteq DOMAIN u /\ u.calls = t.calls /\ u.asked = t.asked
      /\ u.subject = t.subject /\ u.up = t.up /\ u.panels = t.panels /\ u.forms = t.forms
  BY <1>u DEF Keep, Alike, TabFields
<1>2. QED BY <1>u, <1>1 DEF Alike

LEMMA FilledNo ==
  ASSUME NEW p, "no" \in DOMAIN p, NEW c, NEW l
  PROVE  "no" \in DOMAIN Filled(p, c, l) /\ Filled(p, c, l).no = p.no
<1>1. CASE c.result = "failed"
  BY <1>1 DEF Filled
<1>2. CASE c.result # "failed" /\ c.result = "ok" /\ l.guard = "untouched" /\ p.due # {}
  BY <1>2 DEF Filled
<1>3. CASE c.result # "failed" /\ ~(c.result = "ok" /\ l.guard = "untouched" /\ p.due # {})
  <2>1. Filled(p, c, l) = Fill(p, c.of, c.seen, c.no)
    BY <1>3 DEF Filled
  <2>2. QED BY <2>1 DEF Fill
<1>4. QED BY <1>1, <1>2, <1>3

\* An answer that comes too late lowers nothing, and would end nothing.
LEMMA LoadAnsweredLit ==
  ASSUME OkView(Here), Lit(Here, tab, {}), NEW c \in tab.calls, LoadAnswered(c)
  PROVE  Lit(Here, tab', {})
<1> DEFINE v == Here
           l == LoadOf(c.for)
<1>k. PICK kept : kept = Keep(Taken(c), c)
  OBVIOUS
<1>f. PICK filled : filled = [kept EXCEPT !.panels[c.for] = Filled(@, c, l), !.up = Without(@, l.flag)]
  OBVIOUS
<1>1. Panelled(v, tab)
  BY DEF Lit
<1>2. c.kind = "load" /\ c.for \in Loads(v)
  BY <1>1 DEF LoadAnswered, Arrives, Panelled
<1>3. tab' = IF c.no = 0 \/ TooLate(c) THEN kept ELSE IF c.result = "ok" THEN AskAll(filled, l.then) ELSE filled
  BY <1>k, <1>f DEF LoadAnswered
<1>4. Alike(v, tab, kept) /\ kept.calls = tab.calls \ {c}
  BY <1>1, <1>k, TakenAlike, KeepAlike
<1>5. CASE c.no = 0 \/ TooLate(c)
  <2>1. ~Counts(v, tab, c)
    BY <1>5 DEF TooLate, Counts, LoadOf
  <2>2. \A x : ~LoadEnds(v, tab, c, x) /\ ~WriteEnds(v, tab, c, x)
    BY <1>2, <2>1 DEF LoadEnds, WriteEnds
  <2>3. Lit(v, kept, {})
    BY <1>4, <2>2, IdleLit
  <2>4. QED BY <1>3, <1>5, <2>3
<1>6. CASE ~(c.no = 0 \/ TooLate(c))
  <2>1. /\ TabFields \subseteq DOMAIN filled /\ filled.calls = tab.calls \ {c} /\ filled.asked = tab.asked
        /\ filled.subject = tab.subject /\ filled.up = Without(tab.up, l.flag) /\ filled.forms = kept.forms
        /\ filled.panels = [kept.panels EXCEPT ![c.for] = Filled(@, c, l)]
    BY <1>4, <1>f DEF Alike, TabFields
  <2>2. \A p \in Loads(v) : "no" \in DOMAIN filled.panels[p] /\ filled.panels[p].no = tab.panels[p].no
    BY <1>2, <1>4, <2>1, FilledNo DEF Alike
  <2>3. Panelled(v, filled) /\ Still(v, tab, filled)
    BY <1>1, <1>4, <2>1, <2>2 DEF Panelled, Still, Alike
  <2>4. \A x \in filled.up : x \in tab.up /\ ~LoadEnds(v, tab, c, x) /\ ~WriteEnds(v, tab, c, x)
    <3>1. \A a, b : <<a, b>>[1] = a
      OBVIOUS
    <3>2. QED BY <1>2, <2>1, <3>1 DEF LoadEnds, WriteEnds, Without, LoadOf
  <2>5. \A x \in filled.up, d \in tab.calls : LoadEnds(v, tab, d, x) \/ WriteEnds(v, tab, d, x) => d \in filled.calls
    BY <2>1, <2>4
  <2>6. filled.up \subseteq tab.up
    BY <2>4
  <2>7. Lit(v, filled, {})
    BY <2>3, <2>5, <2>6, StillLit
  <2>8. l.then \subseteq Loads(v) /\ IsFiniteSet(l.then)
    <3>1. l.then \subseteq Loads(v) /\ IsFiniteSet(Loads(v))
      BY <1>2 DEF OkView, Refers, Loads, LoadOf
    <3> HIDE DEF l
    <3>2. QED BY <3>1, FS_Subset
  <2>9. Lit(v, AskAll(filled, l.then), {})
    BY <2>7, <2>8, NoneLit
  <2>10. QED BY <1>3, <1>6, <2>7, <2>9
<1>7. QED BY <1>5, <1>6

LEMMA PreviewedLit ==
  ASSUME OkView(Here), Lit(Here, tab, {}), NEW c \in tab.calls, Previewed(c)
  PROVE  Lit(Here, tab', {})
<1>w. PICK w : w = Taken(c)
  OBVIOUS
<1>1. Panelled(Here, tab) /\ c.kind = "preview"
  BY DEF Lit, Previewed, Arrives
<1>2. tab' = IF c.result = "ok" THEN Send(w, c.for, c) ELSE IF Gone(tab, c) THEN w ELSE [w EXCEPT !.gate = c]
  BY <1>w DEF Previewed
<1>3. Alike(Here, tab, w) /\ w.calls = tab.calls \ {c}
  BY <1>1, <1>w, TakenAlike
<1>4. \A x : ~LoadEnds(Here, tab, c, x) /\ ~WriteEnds(Here, tab, c, x)
  BY <1>1 DEF LoadEnds, WriteEnds
<1>5. Lit(Here, w, {})
  BY <1>3, <1>4, IdleLit
<1>6. CASE c.result = "ok"
  <2>1. CallFields \subseteq DOMAIN c /\ c.for \in Forms(Here)
    BY <1>1 DEF Panelled
  <2>2. QED BY <1>2, <1>5, <1>6, <2>1, SendLit
<1>7. CASE tab' = w
  BY <1>5, <1>7
<1>8. CASE tab' = [w EXCEPT !.gate = c]
  <2>1. Panelled(Here, w)
    BY <1>5 DEF Lit
  <2>2. /\ TabFields \subseteq DOMAIN tab' /\ tab'.calls = w.calls /\ tab'.asked = w.asked /\ tab'.subject = w.subject
        /\ tab'.up = w.up /\ tab'.panels = w.panels /\ tab'.forms = w.forms
    BY <1>8, <2>1 DEF Panelled, TabFields
  <2>3. QED BY <1>5, <2>1, <2>2, SameAlike, AlikeLit
<1>9. QED BY <1>2, <1>6, <1>7, <1>8

LEMMA FinishedLit ==
  ASSUME OkView(Here), NEW t, NEW c, c.for \in Forms(Here), Lit(Here, Lower(t, FormOf(c.for), c.of), {})
  PROVE  Lit(Here, Finished(t, FormOf(c.for), c), {})
<1> DEFINE form == FormOf(c.for)
<1>1. PICK low : low = Lower(t, form, c.of)
  OBVIOUS
<1>2. PICK owed : owed = Owe(low, form, c.done)
  OBVIOUS
<1>3. PICK closed : closed = ShutAll(owed, form.closes \cup (IF form.leaves \in {"saved", "answered"} /\ form.opens # "always"
                                                            THEN {c.for} ELSE {}))
  OBVIOUS
<1>4. PICK forgot : forgot = [closed EXCEPT !.forms = [f \in DOMAIN @ |-> IF f \in form.forgets THEN [@[f] EXCEPT !.row = None] ELSE @[f]]]
  OBVIOUS
<1>5. Finished(t, form, c) = Lead(Reload(forgot, form), form, c.of)
  BY <1>1, <1>2, <1>3, <1>4 DEF Finished
<1>6. Panelled(Here, low)
  BY <1>1 DEF Lit
<1>7. Lit(Here, owed, {})
  BY <1>1, <1>2, <1>6, OweAlike, AlikeLit
<1>8. Lit(Here, closed, {})
  BY <1>3, <1>7, ShutLit
<1>9. Lit(Here, forgot, {})
  BY <1>4, <1>8, ForgetLit
<1>10. Lit(Here, Reload(forgot, form), {})
  BY <1>9, ReloadLit
<1>11. QED BY <1>5, <1>10, LeadLit

LEMMA FailedLit ==
  ASSUME OkView(Here), NEW t, NEW c, c.for \in Forms(Here), Lit(Here, Lower(t, FormOf(c.for), c.of), {})
  PROVE  Lit(Here, Failed(t, FormOf(c.for), c), {})
<1> DEFINE form == FormOf(c.for)
<1>1. PICK low : low = Lower(t, form, c.of)
  OBVIOUS
<1>2. PICK closed : closed = IF form.leaves = "answered" THEN ShutAll(low, {c.for}) ELSE low
  OBVIOUS
<1>3. PICK forgot : forgot = [closed EXCEPT !.forms = [f \in DOMAIN @ |-> IF f \in form.forgets THEN [@[f] EXCEPT !.row = None] ELSE @[f]]]
  OBVIOUS
<1>4. Failed(t, form, c) \in {Reload(Owe(forgot, form, c.done), form), Owe(forgot, form, c.done), forgot}
  BY <1>1, <1>2, <1>3 DEF Failed, Shut
<1>5. Lit(Here, ShutAll(low, {c.for}), {})
  BY <1>1, ShutLit
<1>6. Lit(Here, closed, {})
  BY <1>1, <1>2, <1>5
<1>7. Lit(Here, forgot, {})
  BY <1>3, <1>6, ForgetLit
<1>8. Panelled(Here, forgot)
  BY <1>7 DEF Lit
<1>9. Lit(Here, Owe(forgot, form, c.done), {})
  BY <1>7, <1>8, OweAlike, AlikeLit
<1>10. Lit(Here, Reload(Owe(forgot, form, c.done), form), {})
  BY <1>9, ReloadLit
<1>11. QED BY <1>4, <1>7, <1>9, <1>10

LEMMA AlikeTransitive ==
  ASSUME NEW v, NEW t, NEW u, NEW w, Alike(v, t, u), Alike(v, u, w)
  PROVE  Alike(v, t, w)
  BY DEF Alike

\* A write that is answered lowers its flag; one nobody hears has lost it with its component.
LEMMA WrittenLit ==
  ASSUME OkView(Here), Lit(Here, tab, {}), NEW c \in tab.calls, Written(c)
  PROVE  Lit(Here, tab', {})
<1> DEFINE v == Here
           form == FormOf(c.for)
           write == form.steps[c.step] = "write"
<1>s. PICK said : said = [c EXCEPT !.done = IF write THEN @ \cup {c.seen} ELSE @]
  OBVIOUS
<1>t. PICK taken : taken = Taken(c)
  OBVIOUS
<1>h. PICK heard : heard = [taken EXCEPT !.told = @ + 1, !.heard = IF write THEN @ \cup {c.seen} ELSE @]
  OBVIOUS
<1>d. PICK drawn : drawn = IF write THEN Patch(heard, form, c) ELSE heard
  OBVIOUS
<1>n. PICK next : next = [said EXCEPT !.step = @ + 1, !.result = ""]
  OBVIOUS
<1>a. PICK again : again = [c EXCEPT !.step = @ + 1, !.result = ""]
  OBVIOUS
<1>1. Panelled(v, tab)
  BY DEF Lit
<1>2. c.kind = "write" /\ c.for \in Forms(v) /\ CallFields \subseteq DOMAIN c
  BY <1>1 DEF Written, Arrives, Panelled
<1>3. \/ tab' = [drawn EXCEPT !.calls = @ \cup {next}]
      \/ Gone(tab, c) /\ tab' = Unheard(drawn, form, said)
      \/ ~Gone(tab, c) /\ tab' = Finished(drawn, form, said)
      \/ Gone(tab, c) /\ tab' = taken
      \/ tab' = [taken EXCEPT !.calls = @ \cup {again}]
      \/ ~Gone(tab, c) /\ tab' = Failed(taken, form, c)
      \/ ~Gone(tab, c) /\ tab' = [Lower(taken, form, c.of) EXCEPT !.gate = c]
  BY <1>s, <1>t, <1>h, <1>d, <1>n, <1>a DEF Written
<1>4. Alike(v, tab, taken) /\ taken.calls = tab.calls \ {c}
  BY <1>1, <1>t, TakenAlike
<1>5. Alike(v, tab, heard) /\ heard.calls = tab.calls \ {c}
  <2>1. /\ TabFields \subseteq DOMAIN heard /\ heard.calls = taken.calls /\ heard.asked = taken.asked
        /\ heard.subject = taken.subject
        /\ heard.up = taken.up /\ heard.panels = taken.panels /\ heard.forms = taken.forms
    BY <1>4, <1>h DEF Alike, TabFields
  <2>2. QED BY <1>4, <2>1 DEF Alike
<1>6. Alike(v, tab, drawn) /\ drawn.calls = tab.calls \ {c}
  <2>1. Panelled(v, heard)
    BY <1>1, <1>5, AlikeStill
  <2>2. Alike(v, heard, Patch(heard, form, c)) /\ Patch(heard, form, c).calls = heard.calls
    BY <2>1, PatchAlike
  <2>3. QED BY <1>5, <1>d, <2>2, AlikeTransitive
<1>7. /\ CallFields \subseteq DOMAIN said /\ said.kind = c.kind /\ said.for = c.for /\ said.of = c.of
      /\ said.no = c.no /\ said.opening = c.opening
  BY <1>2, <1>s DEF CallFields
<1>8. /\ CallFields \subseteq DOMAIN next /\ next.kind = c.kind /\ next.for = c.for /\ next.of = c.of
      /\ next.no = c.no /\ next.opening = c.opening
  BY <1>7, <1>n DEF CallFields
<1>9. ASSUME Gone(tab, c) PROVE \A x : ~LoadEnds(v, tab, c, x) /\ ~WriteEnds(v, tab, c, x)
  BY <1>2, <1>9 DEF LoadEnds, WriteEnds, Heard, Gone, FormOf
<1>10. CASE tab' = [drawn EXCEPT !.calls = @ \cup {next}]
  <2>1. /\ TabFields \subseteq DOMAIN tab' /\ tab'.calls = (tab.calls \ {c}) \cup {next} /\ tab'.asked = drawn.asked
        /\ tab'.subject = drawn.subject /\ tab'.up = drawn.up /\ tab'.panels = drawn.panels /\ tab'.forms = drawn.forms
    BY <1>6, <1>10 DEF Alike, TabFields
  <2>2. Alike(v, tab, tab')
    BY <1>6, <2>1 DEF Alike
  <2>3. QED BY <1>8, <2>1, <2>2, TwinLit
<1>11. CASE Gone(tab, c) /\ tab' = Unheard(drawn, form, said)
  <2>1. Panelled(v, drawn)
    BY <1>1, <1>6, AlikeStill
  <2>2. Alike(v, tab, tab') /\ tab'.calls = tab.calls \ {c}
    BY <1>6, <1>11, <2>1, UnheardAlike, AlikeTransitive
  <2>3. QED BY <1>9, <1>11, <2>2, IdleLit
<1>12. CASE tab' = Finished(drawn, form, said)
  <2>1. Lit(v, Lower(drawn, FormOf(c.for), c.of), {})
    BY <1>2, <1>6, LowerLit
  <2>2. Lit(v, Lower(drawn, FormOf(said.for), said.of), {}) /\ said.for \in Forms(v)
    BY <1>2, <1>7, <2>1
  <2>3. Lit(v, Finished(drawn, FormOf(said.for), said), {})
    BY <2>2, FinishedLit
  <2>4. QED BY <1>7, <1>12, <2>3
<1>13. CASE Gone(tab, c) /\ tab' = taken
  BY <1>4, <1>9, <1>13, IdleLit
<1>14. Lit(v, Lower(taken, form, c.of), {})
  BY <1>2, <1>4, LowerLit
<1>15. CASE tab' = Failed(taken, form, c)
  BY <1>2, <1>14, <1>15, FailedLit
<1>16. CASE tab' = [Lower(taken, form, c.of) EXCEPT !.gate = c]
  <2>1. PICK low : low = Lower(taken, form, c.of)
    OBVIOUS
  <2>2. Lit(v, low, {}) /\ Panelled(v, low)
    BY <1>14, <2>1 DEF Lit
  <2>3. /\ TabFields \subseteq DOMAIN tab' /\ tab'.calls = low.calls /\ tab'.asked = low.asked /\ tab'.subject = low.subject
        /\ tab'.up = low.up /\ tab'.panels = low.panels /\ tab'.forms = low.forms
    BY <1>16, <2>1, <2>2 DEF Panelled, TabFields
  <2>4. QED BY <2>2, <2>3, SameAlike, AlikeLit
<1>17. CASE tab' = [taken EXCEPT !.calls = @ \cup {again}]
  <2>1. /\ CallFields \subseteq DOMAIN again /\ again.kind = c.kind /\ again.for = c.for /\ again.of = c.of
        /\ again.no = c.no /\ again.opening = c.opening
    BY <1>2, <1>a DEF CallFields
  <2>2. /\ TabFields \subseteq DOMAIN tab' /\ tab'.calls = (tab.calls \ {c}) \cup {again} /\ tab'.asked = taken.asked
        /\ tab'.subject = taken.subject /\ tab'.up = taken.up /\ tab'.panels = taken.panels /\ tab'.forms = taken.forms
    BY <1>4, <1>17 DEF Alike, TabFields
  <2>3. Alike(v, tab, tab')
    BY <1>4, <2>2 DEF Alike
  <2>4. QED BY <2>1, <2>2, <2>3, TwinLit
<1>18. QED BY <1>3, <1>10, <1>11, <1>12, <1>13, <1>15, <1>16, <1>17

----------------------------------------------------------------------------
(* Flags end *)

\* The inductive invariant.
FlagInv == TabInv /\ Lit(Here, tab, {})

LEMMA FreshIsLit ==
  ASSUME OkView(Here), NEW s, NEW q
  PROVE  Lit(Here, Fresh(s, q), {})
<1>t. PICK t : t = [calls |-> {}, up |-> {}, gate |-> None, subject |-> s, query |-> q, url |-> q, written |-> q,
                    waiting |-> FALSE, world |-> 0, told |-> 0, heard |-> {}, kept |-> {}, asked |-> 0,
                    panels |-> [p \in DOMAIN Here.loads |-> Panel],
                    forms |-> [f \in DOMAIN Here.forms |->
                                 [up |-> FormOf(f).opens \in {"always", "keyed"}, row |-> None, opening |-> 0]]]
  OBVIOUS
<1>1. /\ TabFields \subseteq DOMAIN t /\ t.calls = {} /\ t.up = {} /\ t.asked = 0
      /\ t.panels = [p \in Loads(Here) |-> Panel]
      /\ t.forms = [f \in Forms(Here) |-> [up |-> Here.forms[f].opens \in {"always", "keyed"}, row |-> None, opening |-> 0]]
  BY <1>t DEF TabFields, Loads, Forms, FormOf
<1>2. "no" \in DOMAIN Panel
  BY DEF Panel
<1>3. ASSUME NEW f \in Forms(Here) PROVE "opening" \in DOMAIN t.forms[f]
  <2>1. t.forms[f] = [up |-> Here.forms[f].opens \in {"always", "keyed"}, row |-> None, opening |-> 0]
    BY <1>1
  <2>2. QED BY <2>1
<1>4. DOMAIN t.forms = Forms(Here) /\ DOMAIN t.panels = Loads(Here) /\ \A p \in Loads(Here) : t.panels[p] = Panel
  BY <1>1
<1>5. Panelled(Here, t)
  BY <1>1, <1>2, <1>3, <1>4 DEF Panelled
<1>6. Lit(Here, t, {})
  BY <1>1, <1>5 DEF Lit
<1>7. Here.mounts \subseteq Loads(Here) /\ IsFiniteSet(Here.mounts)
  BY FS_Subset DEF OkView, Refers, Loads
<1>8. Fresh(s, q) = AskAll(t, Here.mounts)
  BY <1>t DEF Fresh
<1>9. QED BY <1>6, <1>7, <1>8, NoneLit

LEMMA FlagInvInit == TabInit => FlagInv
<1> SUFFICES ASSUME TabInit PROVE FlagInv
  OBVIOUS
<1>1. TabInv
  BY TabInvInit
<1>2. PICK s, q : tab = Fresh(s, q)
  BY DEF TabInit
<1>3. OkView(Here)
  BY <1>1, HereIsOk DEF TabInv
<1>4. QED BY <1>1, <1>2, <1>3, FreshIsLit DEF FlagInv

LEMMA FlagInvNext == FlagInv /\ [TabNext]_tabVars => FlagInv'
<1> SUFFICES ASSUME FlagInv, [TabNext]_tabVars PROVE FlagInv'
  OBVIOUS
<1>1. TabInv /\ IsTab(Here, tab) /\ Lit(Here, tab, {}) /\ OkView(Here)
  BY HereIsOk DEF FlagInv, TabInv, Meant, MeantBut
<1>2. TabInv'
  BY <1>1, TabInvNext
<1>3. DOMAIN tab.forms = Forms(Here)
  BY <1>1 DEF IsTab
<1>4. SUFFICES screen' = screen /\ Lit(Here, tab', {})
  BY <1>2 DEF FlagInv, Here
<1>5. CASE UNCHANGED tabVars
  BY <1>1, <1>5 DEF tabVars
<1>6. ASSUME NEW f \in DOMAIN tab.forms, Open(f) \/ Close(f) PROVE screen' = screen /\ Lit(Here, tab', {})
  BY <1>1, <1>3, <1>6, OpenLit DEF Open, Close, Does
<1>7. ASSUME NEW f \in DOMAIN tab.forms, Submit(f) PROVE screen' = screen /\ Lit(Here, tab', {})
  BY <1>1, <1>3, <1>7, SubmitLit DEF Submit, Does
<1>8. CASE Confirm \/ Cancel
  BY <1>1, <1>8, GateLit DEF Confirm, Cancel
<1>9. ASSUME NEW s, Switch(s) PROVE screen' = screen /\ Lit(Here, tab', {})
  BY <1>1, <1>9, SwitchLit DEF Switch, Does
<1>10. ASSUME NEW p \in Loads(Here), Tick(p) \/ \E row : Prefetch(p, row) PROVE screen' = screen /\ Lit(Here, tab', {})
  BY <1>1, <1>10, AskingLit DEF Tick, Prefetch, Does
<1>11. ASSUME NEW term, Typed(term) PROVE screen' = screen /\ Lit(Here, tab', {})
  BY <1>1, <1>11, AskingLit DEF Typed, Does
<1>12. ASSUME NEW page, Turn(page) PROVE screen' = screen /\ Lit(Here, tab', {})
  BY <1>1, <1>12, AskingLit DEF Turn, Does
<1>13. CASE DebounceFires
  BY <1>1, <1>13, AskingLit DEF DebounceFires
<1>14. ASSUME NEW u, Travel(u) PROVE screen' = screen /\ Lit(Here, tab', {})
  BY <1>1, <1>14, AskingLit DEF Travel, Does
<1>15. ASSUME NEW c \in tab.calls, Serve(c) PROVE screen' = screen /\ Lit(Here, tab', {})
  BY <1>1, <1>15, ServeLit DEF Serve
<1>16. ASSUME NEW c \in tab.calls, LoadAnswered(c) PROVE screen' = screen /\ Lit(Here, tab', {})
  BY <1>1, <1>16, LoadAnsweredLit DEF LoadAnswered, Arrives
<1>17. ASSUME NEW c \in tab.calls, Previewed(c) PROVE screen' = screen /\ Lit(Here, tab', {})
  BY <1>1, <1>17, PreviewedLit DEF Previewed, Arrives
<1>18. ASSUME NEW c \in tab.calls, Written(c) PROVE screen' = screen /\ Lit(Here, tab', {})
  BY <1>1, <1>18, WrittenLit DEF Written, Arrives
<1>19. ASSUME NEW k, Forget(k) PROVE screen' = screen /\ Lit(Here, tab', {})
  BY <1>1, <1>19, AskingLit DEF Forget
<1>20. QED
  BY <1>5, <1>6, <1>7, <1>8, <1>9, <1>10, <1>11, <1>12, <1>13, <1>14, <1>15, <1>16, <1>17, <1>18, <1>19 DEF TabNext, Loads

LEMMA LitEnds == FlagInv => FlagsEndWithTheirCalls
<1> SUFFICES ASSUME FlagInv, tab.calls = {}, NEW x \in tab.up PROVE Nobody(Here, tab, x)
  BY DEF FlagsEndWithTheirCalls, Nobody, Loads, LoadOf
<1>1. QED BY DEF FlagInv, Lit, Ends

\* Whichever way calls ended, overtook each other or lost their form, and however long the user goes on,
\* every flag that is up ends with a call in flight, or is of a section that is about nobody.
THEOREM FlagsAlwaysEnd == TabSpec => []FlagsEndWithTheirCalls
<1>1. FlagInv /\ [TabNext]_tabVars => FlagInv'
  BY FlagInvNext
<1>2. QED BY <1>1, FlagInvInit, LitEnds, PTL DEF TabSpec

----------------------------------------------------------------------------
(* What keeps a panel current *)

PanelFields == {"no", "last", "of", "shown", "at", "due", "failed", "excuse"}

\* The fields of a tab that panels depend on.
Recorded(v, t) ==
  /\ TabFields \subseteq DOMAIN t /\ t.asked \in Nat /\ t.world \in Nat /\ t.told \in Nat
  /\ DOMAIN t.panels = Loads(v) /\ \A p \in Loads(v) : PanelFields \subseteq DOMAIN t.panels[p]
  /\ \A c \in t.calls : /\ CallFields \subseteq DOMAIN c
                        /\ IF c.kind = "load" THEN c.for \in Loads(v) ELSE c.for \in Forms(v)

\* What was asked since the tab was last told of a write reflects every write it was told of.
DatedCall(t, c) ==
  /\ c.done \subseteq t.heard
  /\ c.kind = "load" => /\ c.gen \in Nat /\ c.gen <= t.told /\ c.result \in {"", "ok", "failed"}
                        /\ c.result # "" /\ c.gen = t.told => t.heard \subseteq 1..c.seen
  /\ c.kind = "write" /\ c.result = "ok" => c.seen \in 1..t.world
DatedAnswer(t, k) == k.gen \in Nat /\ k.gen <= t.told /\ (k.gen = t.told => t.heard \subseteq 1..k.seen)
DatedPanel(v, t, p) ==
  /\ t.panels[p].due \subseteq t.heard
  /\ v.loads[p].guard = "untouched" => t.panels[p].due \subseteq t.panels[p].at
Dated(v, t) ==
  /\ t.heard \subseteq 1..t.world
  /\ \A c \in t.calls : DatedCall(t, c)
  /\ t.gate # None => t.gate.done \subseteq t.heard
  /\ \A k \in t.kept : DatedAnswer(t, k)
  /\ \A p \in Loads(v) : DatedPanel(v, t, p)

\* Requests are numbered as they are asked; the last of a panel is of what the panel is of, and a
\* load that others follow, or whose answer is never too late, has no other in flight.
NumberedPanel(t, p) ==
  t.panels[p].no \in Nat /\ t.panels[p].no <= t.asked /\ t.panels[p].last \in Nat /\ t.panels[p].last <= t.asked
NumberedCall(v, t, c) ==
  c.kind = "load" =>
    /\ c.no \in Nat /\ c.no <= t.asked
    /\ c.no # 0 /\ c.no = t.panels[c.for].no => c.of = t.panels[c.for].of
    /\ v.loads[c.for].then # {} => c.no # 0 /\ c.no = t.panels[c.for].no
    /\ v.loads[c.for].guard = "untouched" => c.of = t.panels[c.for].of
Numbered(v, t) == (\A p \in Loads(v) : NumberedPanel(t, p)) /\ \A c \in t.calls : NumberedCall(v, t, c)

\* The address is the one the list wrote, and what the list asks for once nothing typed waits.
Addressed(t) == t.written = t.url /\ (~t.waiting => t.query = t.url)

\* A panel that is to be asked by the answer to another, or was left by its failure.
Follows(v, p) == {x \in Loads(v) : p \in v.loads[x].then}
Covered(v, t, p) == \E x \in Follows(v, p) : t.panels[x].failed \/ \E c \in t.calls : c.kind = "load" /\ c.for = x
Live(v, t, p) == t.panels[p].no # 0 /\ t.panels[p].excuse = "" /\ ~Covered(v, t, p)

\* A panel about nobody; one that shows an answer to an earlier question; a call whose answer will do.
Void(v, t, p) == v.loads[p].about = "subject" /\ t.subject = None /\ (p \in v.mounts \/ Follows(v, p) # {})
Stale(v, t, p) == v.loads[p].guard = "none" /\ t.panels[p].last # t.panels[p].no
Heeded(v, t, p, c) ==
  /\ c.kind = "load" /\ c.for = p /\ c.no # 0
  /\ IF v.loads[p].guard = "question" THEN c.of = t.subject ELSE c.no = t.panels[p].no
Shows(v, t, p) ==
  \/ \E c \in t.calls : c.kind = "load" /\ c.for = p /\ c.no = t.panels[p].no
  \/ t.panels[p].shown = t.panels[p].of /\ t.panels[p].due \subseteq t.panels[p].at
  \/ Stale(v, t, p) \/ t.panels[p].failed
Emptied(v, t, p) ==
  v.loads[p].guard = "latest"
    \/ (t.panels[p].of = None /\ (Stale(v, t, p) \/ t.panels[p].failed \/ t.panels[p].shown = None))
Settles(v, t, p) ==
  /\ v.loads[p].guard # "untouched" =>
       \A c \in t.calls : Heeded(v, t, p, c) /\ c.result # "" => t.panels[p].due \subseteq 1..c.seen
  /\ Shows(v, t, p)
  /\ v.loads[p].about \in {"subject", "filter"} /\ (p \in v.mounts \/ Follows(v, p) # {}) => t.panels[p].of = t.subject
  /\ v.loads[p].about = "query" /\ ~t.waiting => t.panels[p].of = t.query
Good(v, t, p) == Live(v, t, p) => IF Void(v, t, p) THEN Emptied(v, t, p) ELSE Settles(v, t, p)

\* Every panel comes to be current, but for those that are about to be asked.
CurrentBut(v, t, but) ==
  /\ Recorded(v, t) /\ Dated(v, t) /\ Numbered(v, t) /\ Addressed(t)
  /\ \A p \in Loads(v) \ but : Good(v, t, p)

LEMMA SettleFacts ==
  ASSUME NEW v, OkView(v), NEW p \in Loads(v)
  PROVE  /\ v.loads[p].guard \in {"none", "latest", "abort", "question", "untouched"}
         /\ v.loads[p].then \subseteq Loads(v)
         /\ v.loads[p].then # {} => /\ v.loads[p].guard = "abort" /\ ~v.loads[p].shared /\ ~v.loads[p].kept
                                    /\ v.loads[p].about = "filter" /\ p \in v.mounts /\ Follows(v, p) = {}
         /\ v.loads[p].guard = "question" => /\ v.loads[p].shared /\ ~v.loads[p].kept
                                             /\ v.loads[p].about \in {"subject", "filter"} /\ p \in v.mounts
         /\ v.loads[p].guard = "untouched" =>
              /\ ~v.loads[p].kept /\ v.loads[p].about = "nothing" /\ Follows(v, p) = {}
              /\ \A f \in Forms(v) : p \notin v.forms[f].asks \cup v.forms[f].shows \cup v.forms[f].misses
         /\ v.loads[p].about = "subject" /\ v.loads[p].guard # "none" => p \in v.mounts \/ Follows(v, p) # {}
         /\ v.loads[p].about = "query" => p = v.list
         /\ \A f \in Forms(v) : p \in v.forms[f].shows => v.loads[p].about = "nothing"
<1>1. p \in DOMAIN v.loads /\ LoadsSettle(v) /\ Refers(v)
  BY DEF OkView, Loads
<1>2. v.loads[p].then \subseteq Loads(v)
  BY <1>1 DEF Refers, Loads
<1>3. QED BY <1>1, <1>2 DEF LoadsSettle, Follows, Loads, Forms

LEMMA CurrentMore ==
  ASSUME NEW v, NEW t, NEW but, CurrentBut(v, t, but), NEW more, but \cap Loads(v) \subseteq more
  PROVE  CurrentBut(v, t, more)
  BY DEF CurrentBut

\* A panel nothing was done to, nor to what it follows.
Same(v, t, u, p) ==
  /\ u.panels[p] = t.panels[p]
  /\ \A c \in t.calls \cup u.calls : c.kind = "load" /\ c.for = p => c \in t.calls /\ c \in u.calls

LEMMA StillGood ==
  ASSUME NEW v, NEW t, NEW u, NEW p \in Loads(v), Good(v, t, p), Same(v, t, u, p),
         Covered(v, t, p) => Covered(v, u, p), u.subject = t.subject,
         v.loads[p].about = "query" => u.query = t.query /\ u.waiting = t.waiting
  PROVE  Good(v, u, p)
<1>1. u.panels[p] = t.panels[p] /\ \A c \in t.calls \cup u.calls : c.kind = "load" /\ c.for = p => c \in t.calls /\ c \in u.calls
  BY DEF Same
<1>3. Live(v, u, p) => Live(v, t, p)
  BY <1>1 DEF Live
<1>4. Void(v, u, p) <=> Void(v, t, p)
  BY DEF Void
<1>5. Stale(v, u, p) <=> Stale(v, t, p)
  BY <1>1 DEF Stale
<1>6. Emptied(v, t, p) => Emptied(v, u, p)
  BY <1>1, <1>5 DEF Emptied
<1>7. ASSUME Shows(v, t, p) PROVE Shows(v, u, p)
  BY <1>1, <1>5, <1>7 DEF Shows
<1>8. ASSUME Settles(v, t, p) PROVE Settles(v, u, p)
  <2>1. ASSUME NEW c \in u.calls, Heeded(v, u, p, c) PROVE c \in t.calls /\ Heeded(v, t, p, c)
    BY <1>1, <2>1 DEF Heeded
  <2>2. v.loads[p].guard # "untouched" =>
          \A c \in u.calls : Heeded(v, u, p, c) /\ c.result # "" => u.panels[p].due \subseteq 1..c.seen
    BY <1>1, <1>8, <2>1 DEF Settles
  <2>3. QED BY <1>1, <1>7, <1>8, <2>2 DEF Settles
<1>9. QED BY <1>3, <1>4, <1>6, <1>8 DEF Good

LEMMA SameGood ==
  ASSUME NEW v, NEW t, NEW u, NEW p \in Loads(v), Good(v, t, p), Same(v, t, u, p),
         \A x \in Follows(v, p) : Same(v, t, u, x),
         u.subject = t.subject, u.query = t.query, u.waiting = t.waiting
  PROVE  Good(v, u, p)
<1>1. Covered(v, t, p) => Covered(v, u, p)
  BY DEF Same, Covered
<1>2. QED BY <1>1, StillGood

----------------------------------------------------------------------------
(* Asking, and what it leaves current *)

\* A call just asked for q, or an identical one that was joined.
AskedAs(t, p, q, n, d) ==
  /\ CallFields \subseteq DOMAIN d /\ d.kind = "load" /\ d.for = p /\ d.of = q /\ d.no = n
  /\ DatedCall(t, d)

\* Nothing else of the tab is changed.
Beside(t, u) ==
  /\ u.subject = t.subject /\ u.query = t.query /\ u.url = t.url /\ u.written = t.written /\ u.waiting = t.waiting
  /\ u.world = t.world /\ u.told = t.told /\ u.heard = t.heard /\ u.gate = t.gate /\ u.kept = t.kept

\* What is left of the calls that were in flight: a load with a signal has only its last.
CallsAsked(l, t, p, q, n, u) ==
  /\ \A d \in u.calls : AskedAs(t, p, q, n, d) \/
       (d \in t.calls /\ (d.kind = "load" /\ d.for = p => l.guard # "abort" /\ ~(l.shared /\ d.of = q)))
  /\ \A c \in t.calls : c \in u.calls \/ (c.kind = "load" /\ (c.for = p \/ (l.guard = "abort" /\ c.for \in l.then)))
  /\ \E d \in u.calls : AskedAs(t, p, q, n, d)
  /\ u.panels[p].excuse = "" => \A d \in u.calls : d.kind = "load" /\ d.for = p /\ d.no = n => d \in t.calls \/ d.result = ""

\* What a load that is asked of q does to its panel: it waits for the answer, or shows one that was kept.
PanelAsked(l, t, p, q, n, u) ==
  /\ \A s \in Loads(Here) \ {p} : u.panels[s] = t.panels[s]
  /\ PanelFields \subseteq DOMAIN u.panels[p] /\ u.panels[p].no = n /\ u.panels[p].of = q
  /\ u.panels[p].due = t.panels[p].due
  /\ \/ /\ l.kept /\ u.calls = t.calls /\ u.panels[p].shown = q /\ t.heard \subseteq u.panels[p].at /\ u.panels[p].last = n
     \/ /\ CallsAsked(l, t, p, q, n, u)
        /\ u.panels[p].last = t.panels[p].last /\ u.panels[p].at = t.panels[p].at

LEMMA AskForPanel ==
  ASSUME NEW t, Recorded(Here, t), Dated(Here, t), NEW p \in Loads(Here), NEW q, NEW l,
         NEW n, n = t.asked + 1, NEW u, u = AskFor(l, t, p, q)
  PROVE  /\ TabFields \subseteq DOMAIN u /\ DOMAIN u.panels = Loads(Here) /\ u.asked = n
         /\ Beside(t, u) /\ PanelAsked(l, t, p, q, n, u)
<1> DEFINE good == {k \in t.kept: l.kept /\ k.for = p /\ k.of = q /\ k.gen = t.told}
           same == {c \in InFlight(t, {p}): l.shared /\ c.of = q}
           gone == same \cup IF l.guard = "abort" THEN InFlight(t, {p} \cup l.then) ELSE {}
           fresh == [Request EXCEPT !.for = p, !.of = q, !.no = n, !.gen = t.told]
           old == IF same = {} THEN {fresh} ELSE same
           new == {[c EXCEPT !.no = n]: c \in old}
           asked == [t EXCEPT !.asked = n,
                              !.panels[p] = [@ EXCEPT !.no = n, !.of = q, !.excuse = IF same = {} THEN "" ELSE "joined"]]
           best == CHOOSE k \in good: TRUE
           shown == [asked EXCEPT !.panels[p] = [Fill(@, q, best.seen, n) EXCEPT !.excuse = ""]]
           sent == [asked EXCEPT !.calls = (@ \ gone) \cup new, !.up = IF l.flag = "" THEN @ ELSE @ \cup {<<l.flag, None>>}]
<1>1. u = IF good # {} THEN shown ELSE sent
  BY DEF AskFor
<1>3. \A c \in same : CallFields \subseteq DOMAIN c /\ c.kind = "load" /\ c.for = p /\ c.of = q /\ c \in t.calls /\ DatedCall(t, c)
  BY DEF InFlight, Recorded, Dated
<1>4. /\ \A c \in gone : c \in t.calls /\ c.kind = "load" /\ (c.for = p \/ (l.guard = "abort" /\ c.for \in l.then))
      /\ \A c \in t.calls \ gone : c.kind = "load" /\ c.for = p => l.guard # "abort" /\ ~(l.shared /\ c.of = q)
  BY DEF InFlight
<1>5. /\ CallFields \subseteq DOMAIN fresh /\ fresh.kind = "load" /\ fresh.for = p /\ fresh.of = q /\ fresh.result = ""
      /\ fresh.gen = t.told /\ fresh.done = {}
  BY DEF Request, CallFields
<1> HIDE DEF fresh, same
<1>6. DatedCall(t, fresh)
  <2>1. \A i \in Nat : i <= i
    OBVIOUS
  <2>2. t.told \in Nat /\ t.told <= t.told
    BY <2>1 DEF Recorded
  <2>3. fresh.gen \in Nat /\ fresh.gen <= t.told
    BY <1>5, <2>2
  <2>4. QED BY <1>5, <2>3 DEF DatedCall
<1>7. /\ \A c \in old : CallFields \subseteq DOMAIN c /\ c.kind = "load" /\ c.for = p /\ c.of = q /\ DatedCall(t, c)
      /\ same = {} => \A c \in old : c.result = ""
      /\ old # {}
  BY <1>3, <1>5, <1>6
<1> HIDE DEF old
<1>8. /\ \A d \in new : AskedAs(t, p, q, n, d) /\ (same = {} => d.result = "")
      /\ new # {}
  <2>1. ASSUME NEW d \in new PROVE AskedAs(t, p, q, n, d) /\ (same = {} => d.result = "")
    <3>1. PICK c \in old : d = [c EXCEPT !.no = n]
      OBVIOUS
    <3>2. /\ CallFields \subseteq DOMAIN d /\ d.kind = c.kind /\ d.for = c.for /\ d.of = c.of /\ d.no = n
          /\ d.gen = c.gen /\ d.result = c.result /\ d.seen = c.seen /\ d.done = c.done
      BY <1>7, <3>1 DEF CallFields
    <3>3. DatedCall(t, d)
      BY <1>7, <3>2 DEF DatedCall
    <3>4. QED BY <1>7, <3>2, <3>3 DEF AskedAs
  <2>2. QED BY <1>7, <2>1
<1>9. /\ TabFields \subseteq DOMAIN asked /\ asked.asked = n /\ asked.calls = t.calls
      /\ Beside(t, asked) /\ DOMAIN asked.panels = Loads(Here)
      /\ \A s \in Loads(Here) \ {p} : asked.panels[s] = t.panels[s]
      /\ PanelFields \subseteq DOMAIN asked.panels[p] /\ asked.panels[p].no = n /\ asked.panels[p].of = q
      /\ asked.panels[p].due = t.panels[p].due /\ asked.panels[p].last = t.panels[p].last /\ asked.panels[p].at = t.panels[p].at
      /\ asked.panels[p].excuse = IF same = {} THEN "" ELSE "joined"
  BY DEF Recorded, TabFields, PanelFields, Beside
<1> HIDE DEF asked, new, gone, good, best
<1>10. CASE good # {}
  <2>1. best \in t.kept /\ l.kept /\ best.gen = t.told
    BY <1>10 DEF good, best
  <2>2. t.heard \subseteq 1..best.seen
    BY <2>1 DEF Dated, DatedAnswer
  <2>3. u = shown
    BY <1>1, <1>10
  <2>f. PICK filled : filled = [Fill(asked.panels[p], q, best.seen, n) EXCEPT !.excuse = ""]
    OBVIOUS
  <2>p. /\ PanelFields \subseteq DOMAIN filled /\ filled.no = asked.panels[p].no /\ filled.of = asked.panels[p].of
        /\ filled.due = asked.panels[p].due /\ filled.shown = q /\ filled.at = 1..best.seen /\ filled.last = n
    BY <1>9, <2>f DEF Fill, PanelFields
  <2>e. u = [asked EXCEPT !.panels[p] = filled]
    BY <2>3, <2>f
  <2>4. /\ TabFields \subseteq DOMAIN u /\ u.asked = n /\ u.calls = t.calls /\ Beside(asked, u) /\ DOMAIN u.panels = Loads(Here)
        /\ \A s \in Loads(Here) \ {p} : u.panels[s] = t.panels[s]
        /\ PanelFields \subseteq DOMAIN u.panels[p] /\ u.panels[p].no = n /\ u.panels[p].of = q
        /\ u.panels[p].due = t.panels[p].due /\ u.panels[p].shown = q /\ u.panels[p].at = 1..best.seen /\ u.panels[p].last = n
    BY <1>9, <2>e, <2>p DEF TabFields, Beside
  <2>5. Beside(t, u)
    BY <1>9, <2>4 DEF Beside
  <2>6. QED BY <2>1, <2>2, <2>4, <2>5 DEF PanelAsked
<1>11. CASE good = {}
  <2>1. u = sent
    BY <1>1, <1>11
  <2>2. /\ TabFields \subseteq DOMAIN u /\ u.asked = n /\ u.calls = (t.calls \ gone) \cup new
        /\ Beside(asked, u) /\ u.panels = asked.panels
    BY <1>9, <2>1 DEF TabFields, Beside
  <2>3. Beside(t, u)
    BY <1>9, <2>2 DEF Beside
  <2>4. \A d \in u.calls : AskedAs(t, p, q, n, d) \/
          (d \in t.calls /\ (d.kind = "load" /\ d.for = p => l.guard # "abort" /\ ~(l.shared /\ d.of = q)))
    BY <1>4, <1>8, <2>2
  <2>5. \A c \in t.calls : c \in u.calls \/ (c.kind = "load" /\ (c.for = p \/ (l.guard = "abort" /\ c.for \in l.then)))
    BY <1>4, <2>2
  <2>6. \E d \in u.calls : AskedAs(t, p, q, n, d)
    BY <1>8, <2>2
  <2>7. u.panels[p].excuse = "" => \A d \in u.calls : d.kind = "load" /\ d.for = p /\ d.no = n => d \in t.calls \/ d.result = ""
    BY <1>8, <1>9, <2>2
  <2>8. CallsAsked(l, t, p, q, n, u)
    BY <2>4, <2>5, <2>6, <2>7 DEF CallsAsked
  <2>9. QED BY <1>9, <2>2, <2>3, <2>8 DEF PanelAsked
<1>12. QED BY <1>10, <1>11

\* A load that is asked makes its panel current, or waits; what follows it waits for its answer.
LEMMA AskForCurrent ==
  ASSUME OkView(Here), NEW t, NEW but, CurrentBut(Here, t, but), NEW p \in Loads(Here), NEW q,
         LoadOf(p).about \in {"subject", "filter"} => q = t.subject,
         LoadOf(p).about = "subject" => t.subject # None,
         LoadOf(p).about = "query" => q = t.query,
         LoadOf(p).guard = "untouched" => q = t.panels[p].of
  PROVE  CurrentBut(Here, AskFor(LoadOf(p), t, p, q), but \ ({p} \cup LoadOf(p).then))
<1> DEFINE v == Here
           l == v.loads[p]
<1> HIDE DEF l
<1>l. l = LoadOf(p)
  BY DEF l, LoadOf
<1>h. /\ l.about \in {"subject", "filter"} => q = t.subject
      /\ l.about = "subject" => t.subject # None
      /\ l.about = "query" => q = t.query
      /\ l.guard = "untouched" => q = t.panels[p].of
  BY <1>l
<1>s. /\ l.guard \in {"none", "latest", "abort", "question", "untouched"} /\ l.then \subseteq Loads(v)
      /\ l.then # {} => l.guard = "abort" /\ ~l.kept
      /\ l.guard = "question" => l.shared /\ ~l.kept /\ l.about \in {"subject", "filter"}
      /\ l.guard = "untouched" => ~l.kept
  BY SettleFacts DEF l
<1>r. Recorded(v, t) /\ Dated(v, t) /\ Numbered(v, t) /\ Addressed(t) /\ \A s \in Loads(v) \ but : Good(v, t, s)
  BY DEF CurrentBut
<1>n. PICK n \in Nat : n = t.asked + 1
  BY <1>r DEF Recorded
<1>m. n # 0 /\ n <= n /\ \A i \in Nat : i <= t.asked => i <= n /\ i # n
  BY <1>r, <1>n DEF Recorded
<1>u. PICK u : u = AskFor(l, t, p, q)
  OBVIOUS
<1>1. TabFields \subseteq DOMAIN u /\ DOMAIN u.panels = Loads(v) /\ u.asked = n /\ Beside(t, u) /\ PanelAsked(l, t, p, q, n, u)
  BY <1>r, <1>n, <1>u, AskForPanel
<1>2. /\ \A s \in Loads(v) \ {p} : u.panels[s] = t.panels[s]
      /\ PanelFields \subseteq DOMAIN u.panels[p] /\ u.panels[p].no = n /\ u.panels[p].of = q
      /\ u.panels[p].due = t.panels[p].due
  BY <1>1 DEF PanelAsked
<1>3. \/ l.kept /\ u.calls = t.calls /\ u.panels[p].shown = q /\ t.heard \subseteq u.panels[p].at /\ u.panels[p].last = n
      \/ CallsAsked(l, t, p, q, n, u) /\ u.panels[p].last = t.panels[p].last /\ u.panels[p].at = t.panels[p].at
  BY <1>1 DEF PanelAsked
<1>b. /\ u.subject = t.subject /\ u.query = t.query /\ u.url = t.url /\ u.written = t.written /\ u.waiting = t.waiting
      /\ u.world = t.world /\ u.told = t.told /\ u.heard = t.heard /\ u.gate = t.gate /\ u.kept = t.kept
  BY <1>1 DEF Beside
<1>4. \A d \in u.calls : d \in t.calls \/ AskedAs(t, p, q, n, d)
  BY <1>3 DEF CallsAsked
<1>5. \A c : AskedAs(t, p, q, n, c) => CallFields \subseteq DOMAIN c /\ c.kind = "load" /\ c.for = p /\ c.of = q /\ c.no = n /\ DatedCall(t, c)
  BY DEF AskedAs
<1>6. \A c \in t.calls : c.kind = "load" => c.no \in Nat /\ c.no <= t.asked /\ c.no # n
  BY <1>r, <1>m DEF Numbered, NumberedCall
<1>7. ASSUME NEW c \in u.calls, c \in t.calls, c.kind = "load", c.for = p PROVE l.kept \/ (l.guard # "abort" /\ ~(l.shared /\ c.of = q))
  <2>1. CASE CallsAsked(l, t, p, q, n, u)
    <3>1. ~AskedAs(t, p, q, n, c)
      BY <1>5, <1>6, <1>7
    <3>2. QED BY <1>7, <2>1, <3>1 DEF CallsAsked
  <2>2. QED BY <1>3, <2>1
<1>8. Recorded(v, u)
  <2>1. \A s \in Loads(v) : PanelFields \subseteq DOMAIN u.panels[s]
    BY <1>r, <1>2 DEF Recorded
  <2>2. ASSUME NEW c \in u.calls
        PROVE  CallFields \subseteq DOMAIN c /\ IF c.kind = "load" THEN c.for \in Loads(v) ELSE c.for \in Forms(v)
    BY <1>r, <1>4, <1>5 DEF Recorded
  <2>3. u.world \in Nat /\ u.told \in Nat
    BY <1>r, <1>b DEF Recorded
  <2>4. QED BY <1>1, <2>1, <2>2, <2>3 DEF Recorded
<1>9. Dated(v, u)
  <2>1. ASSUME NEW c \in u.calls PROVE DatedCall(u, c)
    <3>1. DatedCall(t, c)
      BY <1>r, <1>4, <1>5 DEF Dated
    <3>2. QED BY <1>b, <3>1 DEF DatedCall
  <2>2. ASSUME NEW s \in Loads(v) PROVE DatedPanel(v, u, s)
    <3>1. DatedPanel(v, t, s)
      BY <1>r DEF Dated
    <3>2. CASE s # p
      BY <1>2, <1>b, <3>1, <3>2 DEF DatedPanel
    <3>3. CASE s = p
      <4>1. l.guard = "untouched" => u.panels[p].at = t.panels[p].at
        BY <1>s, <1>3
      <4>2. QED BY <1>2, <1>b, <3>1, <3>3, <4>1 DEF DatedPanel, l
    <3>4. QED BY <3>2, <3>3
  <2>3. \A k \in u.kept : DatedAnswer(u, k)
    BY <1>r, <1>b DEF Dated, DatedAnswer
  <2>4. QED BY <1>r, <1>b, <2>1, <2>2, <2>3 DEF Dated
<1>10. Numbered(v, u)
  <2>1. ASSUME NEW s \in Loads(v) PROVE NumberedPanel(u, s)
    <3>1. NumberedPanel(t, s)
      BY <1>r DEF Numbered
    <3>2. CASE s # p
      BY <1>1, <1>2, <1>m, <3>1, <3>2 DEF NumberedPanel
    <3>3. CASE s = p
      <4>1. u.panels[p].last = n \/ u.panels[p].last = t.panels[p].last
        BY <1>3
      <4>2. QED BY <1>1, <1>2, <1>m, <3>1, <3>3, <4>1 DEF NumberedPanel
    <3>4. QED BY <3>2, <3>3
  <2>2. ASSUME NEW c \in u.calls, c.kind = "load"
        PROVE  /\ c.no \in Nat /\ c.no <= u.asked
               /\ c.no # 0 /\ c.no = u.panels[c.for].no => c.of = u.panels[c.for].of
               /\ v.loads[c.for].then # {} => c.no # 0 /\ c.no = u.panels[c.for].no
               /\ v.loads[c.for].guard = "untouched" => c.of = u.panels[c.for].of
    <3>1. CASE AskedAs(t, p, q, n, c)
      BY <1>1, <1>2, <1>m, <1>5, <3>1
    <3>2. CASE c \in t.calls /\ c.for # p
      <4>1. c.for \in Loads(v) /\ NumberedCall(v, t, c)
        BY <1>r, <2>2, <3>2 DEF Recorded, Numbered
      <4>2. u.panels[c.for] = t.panels[c.for]
        BY <1>2, <3>2, <4>1
      <4>3. QED BY <1>1, <1>m, <2>2, <4>1, <4>2 DEF NumberedCall
    <3>3. CASE c \in t.calls /\ c.for = p
      <4>1. NumberedCall(v, t, c)
        BY <1>r, <3>3 DEF Numbered
      <4>2. c.no \in Nat /\ c.no <= u.asked /\ c.no # u.panels[c.for].no
        BY <1>1, <1>2, <1>6, <1>m, <2>2, <3>3
      <4>3. v.loads[c.for].then = {}
        BY <1>s, <1>7, <2>2, <3>3 DEF l
      <4>4. v.loads[c.for].guard = "untouched" => c.of = u.panels[c.for].of
        BY <1>h, <1>2, <2>2, <3>3, <4>1 DEF NumberedCall, l
      <4>5. QED BY <4>2, <4>3, <4>4
    <3>4. QED BY <1>4, <3>1, <3>2, <3>3
  <2>3. \A c \in u.calls : NumberedCall(v, u, c)
    BY <2>2 DEF NumberedCall
  <2>4. QED BY <2>1, <2>3 DEF Numbered
<1>11. Addressed(u)
  BY <1>r, <1>b DEF Addressed
<1>12. ASSUME NEW s \in Loads(v), s \notin {p} \cup l.then PROVE Same(v, t, u, s)
  <2>1. ASSUME NEW c \in t.calls, c.kind = "load", c.for = s PROVE c \in u.calls
    BY <1>3, <1>12, <2>1 DEF CallsAsked
  <2>2. ASSUME NEW c \in u.calls, c.kind = "load", c.for = s PROVE c \in t.calls
    BY <1>4, <1>5, <1>12, <2>2
  <2>3. QED BY <1>2, <1>12, <2>1, <2>2 DEF Same
<1>13. ASSUME NEW s \in Loads(v), s \notin {p} \cup l.then, s \notin but PROVE Good(v, u, s)
  <2>1. ASSUME NEW x \in Follows(v, s) PROVE Same(v, t, u, x)
    <3>1. x \in Loads(v) /\ s \in v.loads[x].then
      BY DEF Follows
    <3>2. x # p
      BY <1>13, <3>1 DEF l
    <3>3. Follows(v, x) = {}
      BY <3>1, SettleFacts
    <3>4. x \notin l.then
      BY <3>3 DEF Follows, l
    <3>5. QED BY <1>12, <3>1, <3>2, <3>4
  <2>2. Good(v, t, s) /\ Same(v, t, u, s)
    BY <1>r, <1>12, <1>13
  <2>3. QED BY <1>b, <1>13, <2>1, <2>2, SameGood
<1>14. ASSUME NEW s \in l.then PROVE Good(v, u, s)
  <2>1. CallsAsked(l, t, p, q, n, u)
    BY <1>s, <1>3, <1>14
  <2>2. PICK d \in u.calls : AskedAs(t, p, q, n, d)
    BY <2>1 DEF CallsAsked
  <2>3. p \in Follows(v, s)
    BY DEF Follows, l
  <2>4. Covered(v, u, s)
    BY <1>5, <2>2, <2>3 DEF Covered
  <2>5. QED BY <2>4 DEF Good, Live
<1>15. Good(v, u, p)
  <2> SUFFICES ASSUME Live(v, u, p) PROVE Settles(v, u, p) /\ ~Void(v, u, p)
    BY DEF Good
  <2>1. u.panels[p].excuse = ""
    BY DEF Live
  <2>2. ~Void(v, u, p)
    BY <1>h, <1>b DEF Void, l
  <2>3. ASSUME NEW c \in u.calls, Heeded(v, u, p, c), c.result # "" PROVE FALSE
    <3>1. c.kind = "load" /\ c.for = p /\ (IF l.guard = "question" THEN c.of = t.subject ELSE c.no = n)
      BY <1>2, <1>b, <2>3 DEF Heeded, l
    <3>2. ASSUME c \in t.calls PROVE FALSE
      <4>1. c.no # n
        BY <1>6, <3>1, <3>2
      <4>2. l.guard = "question" /\ c.of = q
        BY <1>h, <1>s, <3>1, <4>1
      <4>3. QED BY <1>7, <1>s, <3>1, <3>2, <4>2
    <3>3. AskedAs(t, p, q, n, c) /\ u.calls # t.calls
      BY <1>4, <3>2
    <3>4. c.no = n /\ CallsAsked(l, t, p, q, n, u)
      BY <1>3, <1>5, <3>3
    <3>5. QED BY <2>1, <2>3, <3>1, <3>2, <3>4 DEF CallsAsked
  <2>4. Shows(v, u, p)
    <3>1. CASE CallsAsked(l, t, p, q, n, u)
      <4>1. PICK d \in u.calls : AskedAs(t, p, q, n, d)
        BY <3>1 DEF CallsAsked
      <4>2. QED BY <1>2, <1>5, <4>1 DEF Shows
    <3>2. CASE u.panels[p].shown = q /\ t.heard \subseteq u.panels[p].at
      <4>1. u.panels[p].due \subseteq t.heard
        BY <1>r, <1>2 DEF Dated, DatedPanel
      <4>2. QED BY <1>2, <3>2, <4>1 DEF Shows
    <3>3. QED BY <1>3, <3>1, <3>2
  <2>5. /\ l.about \in {"subject", "filter"} => u.panels[p].of = u.subject
        /\ l.about = "query" => u.panels[p].of = u.query
    BY <1>h, <1>2, <1>b
  <2>6. QED BY <2>2, <2>3, <2>4, <2>5 DEF Settles, l
<1>16. ASSUME NEW s \in Loads(v) \ (but \ ({p} \cup l.then)) PROVE Good(v, u, s)
  BY <1>13, <1>14, <1>15
<1>17. CurrentBut(v, u, but \ ({p} \cup l.then))
  BY <1>8, <1>9, <1>10, <1>11, <1>16 DEF CurrentBut
<1>18. QED BY <1>l, <1>u, <1>17

\* Nobody to ask about: the panel shows nobody, and whatever is still in flight for it is of before.
LEMMA EmptyCurrent ==
  ASSUME OkView(Here), NEW t, NEW but, CurrentBut(Here, t, but), NEW p \in Loads(Here),
         LoadOf(p).about = "subject", t.subject = None
  PROVE  CurrentBut(Here, Empty(LoadOf(p), t, p), but \ ({p} \cup LoadOf(p).then))
<1> DEFINE v == Here
           l == v.loads[p]
<1> HIDE DEF l
<1>l. l = LoadOf(p)
  BY DEF l, LoadOf
<1>s. /\ l.about = "subject" /\ l.then = {} /\ l.guard # "untouched"
      /\ l.guard # "none" => p \in v.mounts \/ Follows(v, p) # {}
  BY <1>l, SettleFacts DEF l
<1>r. Recorded(v, t) /\ Dated(v, t) /\ Numbered(v, t) /\ Addressed(t) /\ \A s \in Loads(v) \ but : Good(v, t, s)
  BY DEF CurrentBut
<1>n. PICK n \in Nat : n = t.asked + 1
  BY <1>r DEF Recorded
<1>m. n # 0 /\ n <= n /\ \A i \in Nat : i <= t.asked => i <= n /\ i # n
  BY <1>r, <1>n DEF Recorded
<1>u. PICK u : u = Empty(l, t, p)
  OBVIOUS
<1>1. /\ TabFields \subseteq DOMAIN u /\ DOMAIN u.panels = Loads(v) /\ Beside(t, u) /\ u.calls = t.calls
      /\ \A s \in Loads(v) \ {p} : u.panels[s] = t.panels[s]
      /\ \/ l.guard = "latest" /\ u.asked = t.asked /\ u.panels[p] = t.panels[p]
         \/ /\ u.asked = n /\ u.panels[p] = [t.panels[p] EXCEPT !.no = n, !.of = None, !.shown = None, !.excuse = ""]
  BY <1>r, <1>n, <1>u DEF Empty, Recorded, TabFields, Beside
<1>b. /\ u.subject = t.subject /\ u.query = t.query /\ u.url = t.url /\ u.written = t.written /\ u.waiting = t.waiting
      /\ u.world = t.world /\ u.told = t.told /\ u.heard = t.heard /\ u.gate = t.gate /\ u.kept = t.kept
  BY <1>1 DEF Beside
<1>2. \/ l.guard = "latest" /\ u.asked = t.asked /\ u.panels[p] = t.panels[p]
      \/ /\ u.asked = n /\ PanelFields \subseteq DOMAIN u.panels[p]
         /\ u.panels[p].no = n /\ u.panels[p].of = None /\ u.panels[p].shown = None
         /\ u.panels[p].due = t.panels[p].due /\ u.panels[p].last = t.panels[p].last
  <2>1. PICK e : e = [t.panels[p] EXCEPT !.no = n, !.of = None, !.shown = None, !.excuse = ""]
    OBVIOUS
  <2>2. /\ PanelFields \subseteq DOMAIN e /\ e.no = n /\ e.of = None /\ e.shown = None
        /\ e.due = t.panels[p].due /\ e.last = t.panels[p].last
    <3>1. PanelFields \subseteq DOMAIN t.panels[p]
      BY <1>r DEF Recorded
    <3>2. QED BY <2>1, <3>1 DEF PanelFields
  <2>3. QED BY <1>1, <2>1, <2>2
<1>6. \A c \in t.calls : c.kind = "load" => c.no \in Nat /\ c.no <= t.asked /\ c.no # n
  BY <1>r, <1>m DEF Numbered, NumberedCall
<1>7. u.asked \in Nat /\ \A i \in Nat : i <= t.asked => i <= u.asked
  BY <1>r, <1>2, <1>m DEF Recorded
<1>8. Recorded(v, u)
  <2>1. \A s \in Loads(v) : PanelFields \subseteq DOMAIN u.panels[s]
    BY <1>r, <1>1, <1>2 DEF Recorded
  <2>2. \A c \in u.calls : CallFields \subseteq DOMAIN c /\ IF c.kind = "load" THEN c.for \in Loads(v) ELSE c.for \in Forms(v)
    BY <1>r, <1>1 DEF Recorded
  <2>3. u.world \in Nat /\ u.told \in Nat
    BY <1>r, <1>b DEF Recorded
  <2>4. QED BY <1>1, <1>7, <2>1, <2>2, <2>3 DEF Recorded
<1>9. Dated(v, u)
  <2>1. \A c \in u.calls : DatedCall(u, c)
    BY <1>r, <1>1, <1>b DEF Dated, DatedCall
  <2>2. ASSUME NEW s \in Loads(v) PROVE DatedPanel(v, u, s)
    <3>1. DatedPanel(v, t, s)
      BY <1>r DEF Dated
    <3>2. CASE s # p
      BY <1>1, <1>b, <3>1, <3>2 DEF DatedPanel
    <3>3. CASE s = p
      <4>1. u.panels[p].due = t.panels[p].due
        BY <1>2
      <4>2. QED BY <1>s, <1>b, <3>1, <3>3, <4>1 DEF DatedPanel, l
    <3>4. QED BY <3>2, <3>3
  <2>3. \A k \in u.kept : DatedAnswer(u, k)
    BY <1>r, <1>b DEF Dated, DatedAnswer
  <2>4. QED BY <1>r, <1>b, <2>1, <2>2, <2>3 DEF Dated
<1>10. Numbered(v, u)
  <2>1. ASSUME NEW s \in Loads(v) PROVE NumberedPanel(u, s)
    <3>1. NumberedPanel(t, s)
      BY <1>r DEF Numbered
    <3>2. CASE u.panels[s] = t.panels[s]
      BY <1>7, <3>1, <3>2 DEF NumberedPanel
    <3>3. CASE u.panels[s] # t.panels[s]
      BY <1>1, <1>2, <1>m, <3>1, <3>3 DEF NumberedPanel
    <3>4. QED BY <3>2, <3>3
  <2>2. ASSUME NEW c \in u.calls, c.kind = "load" PROVE NumberedCall(v, u, c)
    <3>1. NumberedCall(v, t, c) /\ c.for \in Loads(v)
      BY <1>r, <1>1, <2>2 DEF Numbered, Recorded
    <3>2. CASE u.panels[c.for] = t.panels[c.for]
      BY <1>7, <3>1, <3>2 DEF NumberedCall
    <3>3. CASE u.panels[c.for] # t.panels[c.for]
      <4>1. c.for = p /\ u.panels[p].no = n /\ u.asked = n
        BY <1>1, <1>2, <3>1, <3>3
      <4>2. c.no \in Nat /\ c.no <= u.asked /\ c.no # u.panels[c.for].no
        BY <1>1, <1>6, <1>7, <2>2, <4>1
      <4>3. v.loads[c.for].then = {} /\ v.loads[c.for].guard # "untouched"
        BY <1>s, <4>1 DEF l
      <4>4. QED BY <4>2, <4>3 DEF NumberedCall
    <3>4. QED BY <3>2, <3>3
  <2>3. \A c \in u.calls : NumberedCall(v, u, c)
    BY <2>2 DEF NumberedCall
  <2>4. QED BY <2>1, <2>3 DEF Numbered
<1>11. Addressed(u)
  BY <1>r, <1>b DEF Addressed
<1>13. ASSUME NEW s \in Loads(v), s # p, s \notin but PROVE Good(v, u, s)
  <2>1. ASSUME NEW x \in Follows(v, s) PROVE Same(v, t, u, x)
    <3>1. x \in Loads(v) /\ x # p
      BY <1>s DEF Follows, l
    <3>2. QED BY <1>1, <3>1 DEF Same
  <2>2. Good(v, t, s) /\ Same(v, t, u, s)
    BY <1>r, <1>1, <1>13 DEF Same
  <2>3. QED BY <1>b, <1>13, <2>1, <2>2, SameGood
<1>14. Good(v, u, p)
  <2>1. ASSUME Void(v, u, p) PROVE Emptied(v, u, p)
    BY <1>2 DEF Emptied, l
  <2>2. ASSUME ~Void(v, u, p) PROVE Settles(v, u, p)
    <3>1. ~(p \in v.mounts \/ Follows(v, p) # {})
      BY <1>s, <1>b, <2>2 DEF Void, l
    <3>2. l.guard = "none" /\ u.panels[p].no = n /\ u.panels[p].last = t.panels[p].last
      BY <1>2, <1>s, <3>1
    <3>3. u.panels[p].last # n
      BY <1>r, <1>m, <3>2 DEF Numbered, NumberedPanel
    <3>4. Shows(v, u, p)
      BY <3>2, <3>3 DEF Shows, Stale, l
    <3>5. ASSUME NEW c \in u.calls, Heeded(v, u, p, c) PROVE FALSE
      BY <1>1, <1>6, <3>2, <3>5 DEF Heeded, l
    <3>6. QED BY <1>s, <3>1, <3>4, <3>5 DEF Settles, l
  <2>3. QED BY <2>1, <2>2 DEF Good
<1>15. CurrentBut(v, u, but \ ({p} \cup l.then))
  BY <1>s, <1>8, <1>9, <1>10, <1>11, <1>13, <1>14 DEF CurrentBut
<1>16. QED BY <1>l, <1>u, <1>15

LEMMA AskOneCurrent ==
  ASSUME OkView(Here), NEW t, NEW but, CurrentBut(Here, t, but), NEW p \in Loads(Here)
  PROVE  CurrentBut(Here, AskOne(t, p), but \ ({p} \cup LoadOf(p).then))
<1>1. CASE LoadOf(p).about = "subject" /\ t.subject = None
  <2>1. AskOne(t, p) = Empty(LoadOf(p), t, p)
    BY <1>1 DEF AskOne, AskAgain
  <2>2. QED BY <1>1, <2>1, EmptyCurrent
<1>2. CASE ~(LoadOf(p).about = "subject" /\ t.subject = None)
  <2>q. PICK q : q = Question(LoadOf(p), t, p)
    OBVIOUS
  <2>1. AskOne(t, p) = AskFor(LoadOf(p), t, p, q)
    BY <1>2, <2>q DEF AskOne, AskAgain
  <2>2. LoadOf(p).guard = "untouched" => LoadOf(p).about = "nothing"
    BY SettleFacts DEF LoadOf
  <2>3. /\ LoadOf(p).about \in {"subject", "filter"} => q = t.subject
        /\ LoadOf(p).about = "query" => q = t.query
        /\ LoadOf(p).guard = "untouched" => q = t.panels[p].of
    BY <2>q, <2>2 DEF Question
  <2>4. QED BY <1>2, <2>1, <2>3, AskForCurrent
<1>3. QED BY <1>1, <1>2

\* A set of panels, and those that are asked by their answers.
With(ps) == ps \cup UNION {LoadOf(p).then : p \in ps}

\* What was about to be asked has been, or is asked by an answer to come.
LEMMA AskAllCurrent ==
  ASSUME OkView(Here), NEW t, NEW but, CurrentBut(Here, t, but), NEW ps, ps \subseteq Loads(Here), IsFiniteSet(ps)
  PROVE  CurrentBut(Here, AskAll(t, ps), but \ With(ps))
<1>1. PICK g : AskAll(t, ps) = g[ps] /\ AskRounds(g, t, SUBSET ps)
  BY AskAllUnfolds
<1> DEFINE Done(n) == \A s \in UpTo(ps, n) : CurrentBut(Here, g[s], but \ With(s))
<1>0. ASSUME NEW s \in SUBSET ps, s = {} PROVE CurrentBut(Here, g[s], but \ With(s))
  <2>1. g[s] = t /\ but \ With(s) = but
    BY <1>0, <1>1 DEF AskRounds, With
  <2>2. QED BY <2>1
<1>2. ASSUME NEW n \in Nat, ~Done(n) PROVE FALSE
  <2> DEFINE Broken == {m \in Nat : ~Done(m)}
  <2>1. PICK m \in Broken : \A k \in Broken : m <= k
    BY <1>2, LeastNat
  <2>2. Done(0)
    <3>1. \A s \in UpTo(ps, 0) : s = {} /\ s \in SUBSET ps
      BY SmallerSets DEF UpTo
    <3>2. QED BY <1>0, <3>1
  <2>3. m \in Nat /\ m # 0 /\ m - 1 \in Nat /\ Done(m - 1) /\ m - 1 + 1 = m
    BY <2>1, <2>2
  <2>4. ASSUME NEW s \in UpTo(ps, m), s # {} PROVE CurrentBut(Here, g[s], but \ With(s))
    <3>1. s \in UpTo(ps, m - 1 + 1)
      BY <2>3
    <3>2. One(s) \in s /\ s \ {One(s)} \in UpTo(ps, m - 1)
      BY <2>3, <2>4, <3>1, SmallerSets
    <3>3. s \in SUBSET ps /\ g[s] = AskOne(g[s \ {One(s)}], One(s))
      BY <1>1, <2>4 DEF AskRounds, UpTo
    <3>4. CurrentBut(Here, g[s \ {One(s)}], but \ With(s \ {One(s)})) /\ One(s) \in Loads(Here)
      BY <2>3, <3>2, <3>3
    <3>5. CurrentBut(Here, AskOne(g[s \ {One(s)}], One(s)), (but \ With(s \ {One(s)})) \ ({One(s)} \cup LoadOf(One(s)).then))
      BY <3>4, AskOneCurrent
    <3>6. (but \ With(s \ {One(s)})) \ ({One(s)} \cup LoadOf(One(s)).then) = but \ With(s)
      BY <3>2 DEF With
    <3>7. QED BY <3>3, <3>5, <3>6
  <2>5. \A s \in UpTo(ps, m) : s = {} => CurrentBut(Here, g[s], but \ With(s))
    BY <1>0 DEF UpTo
  <2>6. QED BY <2>1, <2>4, <2>5
<1>3. ps \in UpTo(ps, Cardinality(ps)) /\ Cardinality(ps) \in Nat
  BY SmallerSets
<1>4. QED BY <1>1, <1>2, <1>3

LEMMA AskAboutCurrent ==
  ASSUME OkView(Here), NEW t, CurrentBut(Here, t, {}), NEW f \in Forms(Here), NEW row
  PROVE  CurrentBut(Here, AskAbout(t, Here.forms[f].shows, row), {})
<1> DEFINE ps == Here.forms[f].shows
<1>p. ps \subseteq Loads(Here) /\ IsFiniteSet(ps)
  BY FS_Subset DEF OkView, Refers, Loads, Forms
<1>q. \A p \in ps : LoadOf(p).about = "nothing" /\ LoadOf(p).guard # "untouched"
  BY <1>p, SettleFacts DEF LoadOf
<1> HIDE DEF ps
<1>1. PICK g : AskAbout(t, ps, row) = g[ps] /\ RowRounds(g, t, SUBSET ps, row)
  BY <1>p, AskAboutUnfolds
<1> DEFINE Done(n) == \A s \in UpTo(ps, n) : CurrentBut(Here, g[s], {})
<1>0. ASSUME NEW s \in SUBSET ps, s = {} PROVE CurrentBut(Here, g[s], {})
  <2>1. g[s] = t
    BY <1>0, <1>1 DEF RowRounds
  <2>2. QED BY <2>1
<1>2. ASSUME NEW n \in Nat, ~Done(n) PROVE FALSE
  <2> DEFINE Broken == {m \in Nat : ~Done(m)}
  <2>1. PICK m \in Broken : \A k \in Broken : m <= k
    BY <1>2, LeastNat
  <2>2. Done(0)
    <3>1. \A s \in UpTo(ps, 0) : s = {} /\ s \in SUBSET ps
      BY <1>p, SmallerSets DEF UpTo
    <3>2. QED BY <1>0, <3>1
  <2>3. m \in Nat /\ m # 0 /\ m - 1 \in Nat /\ Done(m - 1) /\ m - 1 + 1 = m
    BY <2>1, <2>2
  <2>4. ASSUME NEW s \in UpTo(ps, m), s # {} PROVE CurrentBut(Here, g[s], {})
    <3>1. s \in UpTo(ps, m - 1 + 1)
      BY <2>3
    <3>2. One(s) \in s /\ s \ {One(s)} \in UpTo(ps, m - 1)
      BY <1>p, <2>3, <2>4, <3>1, SmallerSets
    <3>3. s \in SUBSET ps /\ g[s] = Ask(g[s \ {One(s)}], One(s), row)
      BY <1>1, <2>4 DEF RowRounds, UpTo
    <3>4. CurrentBut(Here, g[s \ {One(s)}], {}) /\ One(s) \in ps /\ One(s) \in Loads(Here)
      BY <1>p, <2>3, <3>2, <3>3
    <3>5. CurrentBut(Here, AskFor(LoadOf(One(s)), g[s \ {One(s)}], One(s), row), {} \ ({One(s)} \cup LoadOf(One(s)).then))
      BY <1>q, <3>4, AskForCurrent
    <3>6. {} \ ({One(s)} \cup LoadOf(One(s)).then) = {}
      OBVIOUS
    <3>7. QED BY <3>3, <3>5, <3>6 DEF Ask
  <2>5. \A s \in UpTo(ps, m) : s = {} => CurrentBut(Here, g[s], {})
    BY <1>0 DEF UpTo
  <2>6. QED BY <2>1, <2>4, <2>5
<1>3. ps \in UpTo(ps, Cardinality(ps)) /\ Cardinality(ps) \in Nat
  BY <1>p, SmallerSets
<1>4. QED BY <1>1, <1>2, <1>3 DEF ps

----------------------------------------------------------------------------
(* What touches no panel, and what a write does to some *)

\* A call that is no load, and what it has written is known.
NoLoad(v, t, c) ==
  /\ c.kind # "load" /\ CallFields \subseteq DOMAIN c /\ c.for \in Forms(v)
  /\ c.done \subseteq t.heard /\ (c.kind = "write" /\ c.result = "ok" => c.seen \in 1..t.world)

\* The panels are what they were, and so are the loads in flight.
Apart(v, t, u) ==
  /\ TabFields \subseteq DOMAIN u /\ u.panels = t.panels
  /\ u.subject = t.subject /\ u.query = t.query /\ u.url = t.url /\ u.written = t.written /\ u.waiting = t.waiting
  /\ u.world = t.world /\ u.told = t.told /\ u.heard = t.heard /\ u.kept \subseteq t.kept
  /\ u.asked \in {t.asked, t.asked + 1}
  /\ u.gate # None => u.gate.done \subseteq t.heard
  /\ \A c \in u.calls : c \in t.calls \/ NoLoad(v, t, c)
  /\ \A c \in t.calls : c.kind = "load" => c \in u.calls

LEMMA ApartCurrent ==
  ASSUME NEW v, NEW t, NEW but, CurrentBut(v, t, but), NEW u, Apart(v, t, u)
  PROVE  CurrentBut(v, u, but)
<1>r. Recorded(v, t) /\ Dated(v, t) /\ Numbered(v, t) /\ Addressed(t) /\ \A s \in Loads(v) \ but : Good(v, t, s)
  BY DEF CurrentBut
<1>1. /\ TabFields \subseteq DOMAIN u /\ u.panels = t.panels
      /\ u.subject = t.subject /\ u.query = t.query /\ u.url = t.url /\ u.written = t.written /\ u.waiting = t.waiting
      /\ u.world = t.world /\ u.told = t.told /\ u.heard = t.heard /\ u.kept \subseteq t.kept
      /\ u.asked \in {t.asked, t.asked + 1}
      /\ u.gate # None => u.gate.done \subseteq t.heard
      /\ \A c \in u.calls : c \in t.calls \/ NoLoad(v, t, c)
      /\ \A c \in t.calls : c.kind = "load" => c \in u.calls
  BY DEF Apart
<1>2. \A c : NoLoad(v, t, c) => /\ c.kind # "load" /\ CallFields \subseteq DOMAIN c /\ c.for \in Forms(v)
                               /\ c.done \subseteq t.heard /\ (c.kind = "write" /\ c.result = "ok" => c.seen \in 1..t.world)
  BY DEF NoLoad
<1>3. u.asked \in Nat /\ \A i \in Nat : i <= t.asked => i <= u.asked
  <2>1. PICK n \in Nat : n = t.asked
    BY <1>r DEF Recorded
  <2>2. u.asked = n \/ u.asked = n + 1
    BY <1>1, <2>1
  <2>3. QED BY <2>1, <2>2
<1>4. Recorded(v, u)
  BY <1>r, <1>1, <1>2, <1>3 DEF Recorded
<1>5. Dated(v, u)
  <2>1. ASSUME NEW c \in u.calls PROVE DatedCall(u, c)
    <3>1. CASE c \in t.calls
      BY <1>r, <1>1, <3>1 DEF Dated, DatedCall
    <3>2. CASE NoLoad(v, t, c)
      BY <1>1, <1>2, <3>2 DEF DatedCall
    <3>3. QED BY <1>1, <3>1, <3>2
  <2>2. \A s \in Loads(v) : DatedPanel(v, u, s)
    BY <1>r, <1>1 DEF Dated, DatedPanel
  <2>3. \A k \in u.kept : DatedAnswer(u, k)
    BY <1>r, <1>1 DEF Dated, DatedAnswer
  <2>4. QED BY <1>r, <1>1, <2>1, <2>2, <2>3 DEF Dated
<1>6. Numbered(v, u)
  <2>1. ASSUME NEW s \in Loads(v) PROVE NumberedPanel(u, s)
    BY <1>r, <1>1, <1>3 DEF Numbered, NumberedPanel
  <2>2. ASSUME NEW c \in u.calls PROVE NumberedCall(v, u, c)
    <3>1. CASE c.kind = "load"
      <4>1. NumberedCall(v, t, c)
        BY <1>r, <1>1, <1>2, <3>1 DEF Numbered
      <4>2. QED BY <1>1, <1>3, <4>1 DEF NumberedCall
    <3>2. CASE c.kind # "load"
      BY <3>2 DEF NumberedCall
    <3>3. QED BY <3>1, <3>2
  <2>3. QED BY <2>1, <2>2 DEF Numbered
<1>7. Addressed(u)
  BY <1>r, <1>1 DEF Addressed
<1>8. \A s : Same(v, t, u, s)
  BY <1>1, <1>2 DEF Same
<1>9. ASSUME NEW s \in Loads(v) \ but PROVE Good(v, u, s)
  BY <1>r, <1>1, <1>8, SameGood
<1>10. QED BY <1>4, <1>5, <1>6, <1>7, <1>9 DEF CurrentBut

LEMMA ShutCurrent ==
  ASSUME NEW t, NEW fs, NEW but, CurrentBut(Here, t, but)
  PROVE  CurrentBut(Here, ShutAll(t, fs), but)
<1>u. PICK u : u = ShutAll(t, fs)
  OBVIOUS
<1>1. TabFields \subseteq DOMAIN t /\ (t.gate # None => t.gate.done \subseteq t.heard)
  BY DEF CurrentBut, Recorded, Dated
<1>2. /\ TabFields \subseteq DOMAIN u /\ u.calls = t.calls /\ u.asked = t.asked /\ u.panels = t.panels /\ Beside(t, u)
  BY <1>u, <1>1 DEF ShutAll, TabFields, Beside
<1>3. Apart(Here, t, u)
  BY <1>1, <1>2 DEF Apart, Beside
<1>4. QED BY <1>u, <1>3, ApartCurrent

LEMMA ShowCurrent ==
  ASSUME OkView(Here), NEW t, CurrentBut(Here, t, {}), NEW f \in Forms(Here), NEW row
  PROVE  CurrentBut(Here, Show(t, f, row), {})
<1>w. PICK w : w = ShutAll(t, FormOf(f).shuts)
  OBVIOUS
<1>u. PICK u : u = [w EXCEPT !.forms[f] = [up |-> TRUE, row |-> row, opening |-> @.opening + 1],
                             !.up = IF FormOf(f).child THEN Without(@, FormOf(f).flag) ELSE @]
  OBVIOUS
<1>0. CurrentBut(Here, w, {})
  BY <1>w, ShutCurrent
<1>1. TabFields \subseteq DOMAIN w /\ (w.gate # None => w.gate.done \subseteq w.heard)
  BY <1>0 DEF CurrentBut, Recorded, Dated
<1>2. /\ TabFields \subseteq DOMAIN u /\ u.calls = w.calls /\ u.asked = w.asked /\ u.panels = w.panels /\ Beside(w, u)
  BY <1>u, <1>1 DEF TabFields, Beside
<1>3. Apart(Here, w, u)
  BY <1>1, <1>2 DEF Apart, Beside
<1>4. CurrentBut(Here, u, {})
  BY <1>0, <1>3, ApartCurrent
<1>5. Show(t, f, row) = AskAbout(u, Here.forms[f].shows, row)
  BY <1>w, <1>u DEF Show, FormOf
<1>6. QED BY <1>4, <1>5, AskAboutCurrent

LEMMA LeadCurrent ==
  ASSUME OkView(Here), NEW t, CurrentBut(Here, t, {}), NEW f \in Forms(Here), NEW row
  PROVE  CurrentBut(Here, Lead(t, FormOf(f), row), {})
<1>1. CASE FormOf(f).leads = ""
  BY <1>1 DEF Lead
<1>2. CASE FormOf(f).leads # ""
  <2>1. FormOf(f).leads \in Forms(Here)
    BY <1>2, ViewRefers DEF FormOf
  <2>2. CurrentBut(Here, Show(t, FormOf(f).leads, row), {})
    BY <2>1, ShowCurrent
  <2>3. QED BY <1>2, <2>2 DEF Lead
<1>3. QED BY <1>1, <1>2

LEMMA LowerCurrent ==
  ASSUME NEW t, NEW form, NEW row, NEW but, CurrentBut(Here, t, but)
  PROVE  CurrentBut(Here, Lower(t, form, row), but)
<1>u. PICK u : u = Lower(t, form, row)
  OBVIOUS
<1>1. TabFields \subseteq DOMAIN t /\ (t.gate # None => t.gate.done \subseteq t.heard)
  BY DEF CurrentBut, Recorded, Dated
<1>2. TabFields \subseteq DOMAIN u /\ u.calls = t.calls /\ u.asked = t.asked /\ u.panels = t.panels /\ Beside(t, u)
  BY <1>u, <1>1 DEF Lower, TabFields, Beside
<1>3. Apart(Here, t, u)
  BY <1>1, <1>2 DEF Apart, Beside
<1>4. QED BY <1>u, <1>3, ApartCurrent

LEMMA SendCurrent ==
  ASSUME OkView(Here), NEW t, NEW f \in Forms(Here), NEW call, CurrentBut(Here, t, {}),
         CallFields \subseteq DOMAIN call, call.for = f, call.done \subseteq t.heard
  PROVE  CurrentBut(Here, Send(t, f, call), {})
<1> DEFINE form == FormOf(f)
<1>w. PICK w : w = SentAs(t, f, call)
  OBVIOUS
<1>1. /\ CallFields \subseteq DOMAIN w /\ w.kind = "write" /\ w.for = f /\ w.done = call.done /\ w.result = ""
      /\ w.of = (IF form.late THEN t.forms[f].row ELSE call.of)
  BY <1>w DEF SentAs, CallFields
<1>2. PICK made : made = [t EXCEPT !.asked = @ + 1, !.calls = @ \cup {w}]
  OBVIOUS
<1>3. PICK sent : sent = IF Gone(t, call) THEN made ELSE Raise(made, form, w.of)
  OBVIOUS
<1>4. Send(t, f, call) = IF form.leaves = "sent" THEN ShutAll(sent, {f}) ELSE sent
  BY <1>w, <1>1, <1>2, <1>3 DEF Send, SentAs, Shut
<1>5. TabFields \subseteq DOMAIN t /\ (t.gate # None => t.gate.done \subseteq t.heard)
  BY DEF CurrentBut, Recorded, Dated
<1>6. TabFields \subseteq DOMAIN made /\ made.calls = t.calls \cup {w} /\ made.asked = t.asked + 1 /\ made.panels = t.panels /\ Beside(t, made)
  BY <1>2, <1>5 DEF TabFields, Beside
<1>7. TabFields \subseteq DOMAIN sent /\ sent.calls = t.calls \cup {w} /\ sent.asked = t.asked + 1 /\ sent.panels = t.panels /\ Beside(made, sent)
  BY <1>3, <1>6 DEF Raise, TabFields, Beside
<1>8. NoLoad(Here, t, w)
  BY <1>1 DEF NoLoad
<1>9. Apart(Here, t, sent)
  BY <1>5, <1>6, <1>7, <1>8 DEF Apart, Beside
<1>10. CurrentBut(Here, sent, {})
  BY <1>9, ApartCurrent
<1>11. CurrentBut(Here, ShutAll(sent, {f}), {})
  BY <1>10, ShutCurrent
<1>12. QED BY <1>4, <1>10, <1>11

LEMMA FormsCurrent ==
  ASSUME NEW t, NEW but, CurrentBut(Here, t, but), NEW forms
  PROVE  CurrentBut(Here, [t EXCEPT !.forms = forms], but)
<1>u. PICK u : u = [t EXCEPT !.forms = forms]
  OBVIOUS
<1>1. TabFields \subseteq DOMAIN t /\ (t.gate # None => t.gate.done \subseteq t.heard)
  BY DEF CurrentBut, Recorded, Dated
<1>2. TabFields \subseteq DOMAIN u /\ u.calls = t.calls /\ u.asked = t.asked /\ u.panels = t.panels /\ Beside(t, u)
  BY <1>u, <1>1 DEF TabFields, Beside
<1>3. Apart(Here, t, u)
  BY <1>1, <1>2 DEF Apart, Beside
<1>4. QED BY <1>u, <1>3, ApartCurrent

\* Only what panels owe, show besides or are excused from is changed.
Marked(v, t, u) ==
  /\ TabFields \subseteq DOMAIN u /\ u.calls = t.calls /\ u.asked = t.asked /\ Beside(t, u) /\ DOMAIN u.panels = Loads(v)
  /\ \A p \in Loads(v) :
       /\ PanelFields \subseteq DOMAIN u.panels[p]
       /\ u.panels[p].no = t.panels[p].no /\ u.panels[p].last = t.panels[p].last /\ u.panels[p].of = t.panels[p].of
       /\ u.panels[p].shown = t.panels[p].shown /\ u.panels[p].failed = t.panels[p].failed
       /\ DatedPanel(v, u, p)

LEMMA MarkedCurrent ==
  ASSUME NEW v, NEW t, NEW but, CurrentBut(v, t, but), NEW u, Marked(v, t, u), NEW more,
         \A p \in Loads(v) \ more : Good(v, u, p) \/ (u.panels[p] = t.panels[p] /\ p \notin but)
  PROVE  CurrentBut(v, u, more)
<1>r. Recorded(v, t) /\ Dated(v, t) /\ Numbered(v, t) /\ Addressed(t) /\ \A s \in Loads(v) \ but : Good(v, t, s)
  BY DEF CurrentBut
<1>1. /\ TabFields \subseteq DOMAIN u /\ u.calls = t.calls /\ u.asked = t.asked /\ DOMAIN u.panels = Loads(v)
      /\ u.subject = t.subject /\ u.query = t.query /\ u.url = t.url /\ u.written = t.written /\ u.waiting = t.waiting
      /\ u.world = t.world /\ u.told = t.told /\ u.heard = t.heard /\ u.gate = t.gate /\ u.kept = t.kept
  BY DEF Marked, Beside
<1>2. \A p \in Loads(v) :
       /\ PanelFields \subseteq DOMAIN u.panels[p]
       /\ u.panels[p].no = t.panels[p].no /\ u.panels[p].last = t.panels[p].last /\ u.panels[p].of = t.panels[p].of
       /\ u.panels[p].failed = t.panels[p].failed
       /\ DatedPanel(v, u, p)
  BY DEF Marked
<1>3. Recorded(v, u)
  BY <1>r, <1>1, <1>2 DEF Recorded
<1>4. Dated(v, u)
  <2>1. \A c \in u.calls : DatedCall(u, c)
    BY <1>r, <1>1 DEF Dated, DatedCall
  <2>2. \A k \in u.kept : DatedAnswer(u, k)
    BY <1>r, <1>1 DEF Dated, DatedAnswer
  <2>3. QED BY <1>r, <1>1, <1>2, <2>1, <2>2 DEF Dated
<1>5. Numbered(v, u)
  <2>1. \A s \in Loads(v) : NumberedPanel(u, s)
    BY <1>r, <1>1, <1>2 DEF Numbered, NumberedPanel
  <2>2. ASSUME NEW c \in u.calls PROVE NumberedCall(v, u, c)
    <3>1. NumberedCall(v, t, c) /\ (c.kind = "load" => c.for \in Loads(v))
      BY <1>r, <1>1 DEF Numbered, Recorded
    <3>2. QED BY <1>1, <1>2, <3>1 DEF NumberedCall
  <2>3. QED BY <2>1, <2>2 DEF Numbered
<1>6. Addressed(u)
  BY <1>r, <1>1 DEF Addressed
<1>7. ASSUME NEW p \in Loads(v) \ more, u.panels[p] = t.panels[p], p \notin but PROVE Good(v, u, p)
  <2>1. Same(v, t, u, p)
    BY <1>1, <1>7 DEF Same
  <2>2. Covered(v, t, p) => Covered(v, u, p)
    BY <1>1, <1>2 DEF Covered, Follows
  <2>3. Good(v, t, p)
    BY <1>r, <1>7
  <2>4. QED BY <1>1, <2>1, <2>2, <2>3, StillGood
<1>8. QED BY <1>3, <1>4, <1>5, <1>6, <1>7 DEF CurrentBut

\* The panels a form changes are those it asks, or leads to asking, those it draws and those it misses.
LEMMA ChangedPanels ==
  ASSUME OkView(Here), NEW f \in Forms(Here), NEW p \in Loads(Here), p \in Changed(FormOf(f)) \ FormOf(f).patches
  PROVE  /\ p \in Asked(FormOf(f)) \/ p \in FormOf(f).misses
         /\ Here.loads[p].guard # "untouched"
         /\ Partial(FormOf(f)) => FormOf(f).repairs
<1> DEFINE v == Here
           form == FormOf(f)
<1>1. Writing(form) /\ p \notin form.spares
  BY DEF Changed
<1>2. f \in DOMAIN v.forms /\ form = v.forms[f] /\ WritesReload(v)
  BY DEF OkView, Forms, FormOf
<1>3. p \in DOMAIN v.loads /\ p \notin form.patches \cup form.spares
  BY <1>1 DEF Loads
<1>4. Partial(form) => form.repairs
  BY <1>1, <1>2, <1>3 DEF WritesReload
<1>5. p \in form.asks \/ p \in form.misses \/ \E x \in form.asks : p \in v.loads[x].then
  <2>1. DOMAIN v.loads \subseteq (v.forms[f].patches \cup v.forms[f].spares) \cup v.forms[f].asks \cup v.forms[f].misses
                                 \cup UNION {v.loads[x].then : x \in v.forms[f].asks}
    BY <1>1, <1>2 DEF WritesReload
  <2> HIDE DEF v, form
  <2>2. QED BY <1>2, <1>3, <2>1
<1>6. p \in Asked(form) \/ p \in form.misses
  BY <1>5 DEF Asked, LoadOf
<1>7. v.loads[p].guard # "untouched"
  <2>1. CASE p \in form.asks \cup form.misses
    BY <1>2, <2>1, SettleFacts DEF Forms
  <2>2. CASE p \notin form.asks \cup form.misses
    <3>1. PICK x \in form.asks : p \in v.loads[x].then
      BY <1>5, <2>2
    <3>2. x \in Loads(v)
      BY DEF OkView, Refers, Loads, Forms, FormOf
    <3>3. x \in Follows(v, p)
      BY <3>1, <3>2 DEF Follows
    <3>4. QED BY <3>3, SettleFacts
  <2>3. QED BY <2>1, <2>2
<1>8. QED BY <1>4, <1>6, <1>7

\* What a form asks again owes what it wrote, until it is asked; what it misses is excused until then.
LEMMA OweCurrent ==
  ASSUME OkView(Here), NEW t, NEW f \in Forms(Here), NEW ns, ns \subseteq t.heard, CurrentBut(Here, t, {})
  PROVE  CurrentBut(Here, Owe(t, FormOf(f), ns), Asked(FormOf(f)))
<1> DEFINE v == Here
           form == FormOf(f)
           ps == Changed(form) \ form.patches
           owed(p) == [t.panels[p] EXCEPT !.due = @ \cup ns, !.excuse = IF p \in form.misses THEN "missed" ELSE @]
<1> HIDE DEF ps
<1>u. PICK u : u = Owe(t, form, ns)
  OBVIOUS
<1>r. Recorded(v, t) /\ Dated(v, t)
  BY DEF CurrentBut
<1>1. /\ TabFields \subseteq DOMAIN u /\ u.calls = t.calls /\ u.asked = t.asked /\ Beside(t, u) /\ DOMAIN u.panels = Loads(v)
      /\ \A p \in Loads(v) : u.panels[p] = IF p \in ps THEN owed(p) ELSE t.panels[p]
  BY <1>u, <1>r DEF Owe, Recorded, TabFields, Beside, ps
<1>2. \A p \in Loads(v) : p \in ps => (p \in Asked(form) \/ p \in form.misses) /\ v.loads[p].guard # "untouched"
  BY ChangedPanels DEF ps
<1>3. ASSUME NEW p \in Loads(v)
      PROVE  /\ PanelFields \subseteq DOMAIN u.panels[p]
             /\ u.panels[p].no = t.panels[p].no /\ u.panels[p].last = t.panels[p].last /\ u.panels[p].of = t.panels[p].of
             /\ u.panels[p].shown = t.panels[p].shown /\ u.panels[p].failed = t.panels[p].failed
             /\ DatedPanel(v, u, p)
             /\ p \in ps /\ p \in form.misses => u.panels[p].excuse = "missed"
  <2>1. PanelFields \subseteq DOMAIN t.panels[p] /\ DatedPanel(v, t, p)
    BY <1>r DEF Recorded, Dated
  <2>2. u.heard = t.heard
    BY <1>1 DEF Beside
  <2>3. CASE p \notin ps
    BY <1>1, <2>1, <2>2, <2>3 DEF DatedPanel
  <2>4. CASE p \in ps
    <3>1. PICK e : e = owed(p)
      OBVIOUS
    <3>2. /\ PanelFields \subseteq DOMAIN e /\ e.no = t.panels[p].no /\ e.last = t.panels[p].last /\ e.of = t.panels[p].of
          /\ e.shown = t.panels[p].shown /\ e.failed = t.panels[p].failed /\ e.due = t.panels[p].due \cup ns
          /\ p \in form.misses => e.excuse = "missed"
      BY <2>1, <3>1 DEF PanelFields
    <3>3. u.panels[p] = e
      BY <1>1, <2>4, <3>1
    <3>4. DatedPanel(v, u, p)
      BY <1>2, <2>1, <2>2, <2>4, <3>2, <3>3 DEF DatedPanel
    <3>5. QED BY <3>2, <3>3, <3>4
  <2>5. QED BY <2>3, <2>4
<1>4. Marked(v, t, u)
  BY <1>1, <1>3 DEF Marked
<1>5. ASSUME NEW p \in Loads(v) \ Asked(form) PROVE Good(v, u, p) \/ (u.panels[p] = t.panels[p] /\ p \notin {})
  <2>1. CASE p \notin ps
    BY <1>1, <2>1
  <2>2. CASE p \in ps
    <3>1. u.panels[p].excuse = "missed"
      BY <1>2, <1>3, <1>5, <2>2
    <3>2. QED BY <3>1 DEF Good, Live
  <2>3. QED BY <2>1, <2>2
<1>6. CurrentBut(v, u, Asked(form))
  BY <1>4, <1>5, MarkedCurrent
<1>7. QED BY <1>u, <1>6

\* A form of several writes that does not load again when one fails has drawn what the others wrote.
LEMMA OweNothing ==
  ASSUME OkView(Here), NEW t, NEW f \in Forms(Here), NEW ns, CurrentBut(Here, t, {}),
         ~FormOf(f).repairs, Partial(FormOf(f))
  PROVE  CurrentBut(Here, Owe(t, FormOf(f), ns), {})
<1> DEFINE v == Here
           form == FormOf(f)
           ps == Changed(form) \ form.patches
           owed(p) == [t.panels[p] EXCEPT !.due = @ \cup ns, !.excuse = IF p \in form.misses THEN "missed" ELSE @]
<1> HIDE DEF ps
<1>u. PICK u : u = Owe(t, form, ns)
  OBVIOUS
<1>r. Recorded(v, t) /\ Dated(v, t)
  BY DEF CurrentBut
<1>1. /\ TabFields \subseteq DOMAIN u /\ u.calls = t.calls /\ u.asked = t.asked /\ Beside(t, u) /\ DOMAIN u.panels = Loads(v)
      /\ \A p \in Loads(v) : u.panels[p] = IF p \in ps THEN owed(p) ELSE t.panels[p]
  BY <1>u, <1>r DEF Owe, Recorded, TabFields, Beside, ps
<1> HIDE DEF owed
<1>2. \A p \in Loads(v) : p \notin ps
  BY ChangedPanels DEF ps
<1>3. \A p \in Loads(v) : u.panels[p] = t.panels[p] /\ p \notin {}
  BY <1>1, <1>2
<1>4. Marked(v, t, u)
  <2>1. \A p \in Loads(v) : PanelFields \subseteq DOMAIN t.panels[p] /\ DatedPanel(v, t, p)
    BY <1>r DEF Recorded, Dated
  <2>2. \A p \in Loads(v) : DatedPanel(v, u, p)
    BY <1>1, <1>3, <2>1 DEF DatedPanel, Beside
  <2>3. QED BY <1>1, <1>3, <2>1, <2>2 DEF Marked
<1>5. CurrentBut(v, u, {})
  BY <1>3, <1>4, MarkedCurrent
<1>6. QED BY <1>u, <1>5

\* Nobody is told to load: the panels that would have been asked are excused until they are.
LEMMA UnheardCurrent ==
  ASSUME OkView(Here), NEW t, NEW f \in Forms(Here), NEW c, c.done \subseteq t.heard, CurrentBut(Here, t, {})
  PROVE  CurrentBut(Here, Unheard(t, FormOf(f), c), {})
<1> DEFINE v == Here
           ps == Asked(FormOf(f))
<1> HIDE DEF ps
<1>w. PICK w : w = Owe(t, FormOf(f), c.done)
  OBVIOUS
<1>0. CurrentBut(v, w, ps)
  BY <1>w, OweCurrent DEF ps
<1>r. Recorded(v, w) /\ Dated(v, w)
  BY <1>0 DEF CurrentBut
<1>u. PICK u : u = [w EXCEPT !.panels = [p \in DOMAIN @ |-> IF p \in ps THEN [@[p] EXCEPT !.excuse = "untold"] ELSE @[p]]]
  OBVIOUS
<1>1. /\ TabFields \subseteq DOMAIN u /\ u.calls = w.calls /\ u.asked = w.asked /\ Beside(w, u) /\ DOMAIN u.panels = Loads(v)
      /\ \A p \in Loads(v) : u.panels[p] = IF p \in ps THEN [w.panels[p] EXCEPT !.excuse = "untold"] ELSE w.panels[p]
  BY <1>u, <1>r DEF Recorded, TabFields, Beside
<1>2. ASSUME NEW p \in Loads(v)
      PROVE  /\ PanelFields \subseteq DOMAIN u.panels[p]
             /\ u.panels[p].no = w.panels[p].no /\ u.panels[p].last = w.panels[p].last /\ u.panels[p].of = w.panels[p].of
             /\ u.panels[p].shown = w.panels[p].shown /\ u.panels[p].failed = w.panels[p].failed
             /\ u.panels[p].due = w.panels[p].due /\ u.panels[p].at = w.panels[p].at
             /\ p \in ps => u.panels[p].excuse = "untold"
  <2>1. PanelFields \subseteq DOMAIN w.panels[p]
    BY <1>r DEF Recorded
  <2>2. QED BY <1>1, <2>1 DEF PanelFields
<1>3. \A p \in Loads(v) : DatedPanel(v, u, p)
  BY <1>r, <1>1, <1>2 DEF Dated, DatedPanel, Beside
<1>4. Marked(v, w, u)
  BY <1>1, <1>2, <1>3 DEF Marked
<1>5. \A p \in Loads(v) : p \in ps => Good(v, u, p)
  BY <1>2 DEF Good, Live
<1>6. \A p \in Loads(v) \ {} : Good(v, u, p) \/ (u.panels[p] = w.panels[p] /\ p \notin ps)
  BY <1>1, <1>5
<1>7. CurrentBut(v, u, {})
  BY <1>0, <1>4, <1>6, MarkedCurrent
<1>8. Unheard(t, FormOf(f), c) = u
  BY <1>w, <1>u DEF Unheard, ps
<1>9. QED BY <1>7, <1>8

\* What is drawn at once is in what is shown, unless an answer still to come may take it away.
LEMMA PatchCurrent ==
  ASSUME OkView(Here), NEW t, NEW f \in Forms(Here), NEW c, c.seen \in t.heard, CurrentBut(Here, t, {})
  PROVE  CurrentBut(Here, Patch(t, FormOf(f), c), {})
<1> DEFINE v == Here
           ps == FormOf(f).patches
           lost(p) == t.panels[p].no > c.no \/ InFlight(t, {p}) # {}
           drawn(p) == [t.panels[p] EXCEPT !.due = @ \cup {c.seen}, !.at = @ \cup {c.seen},
                                           !.excuse = IF lost(p) THEN "stranded" ELSE @]
<1> HIDE DEF ps, lost
<1>u. PICK u : u = Patch(t, FormOf(f), c)
  OBVIOUS
<1>r. Recorded(v, t) /\ Dated(v, t) /\ \A s \in Loads(v) : Good(v, t, s)
  BY DEF CurrentBut
<1>1. /\ TabFields \subseteq DOMAIN u /\ u.calls = t.calls /\ u.asked = t.asked /\ Beside(t, u) /\ DOMAIN u.panels = Loads(v)
      /\ \A p \in Loads(v) : u.panels[p] = IF p \in ps THEN drawn(p) ELSE t.panels[p]
  BY <1>u, <1>r DEF Patch, Recorded, TabFields, Beside, ps, lost
<1>b. u.subject = t.subject /\ u.query = t.query /\ u.waiting = t.waiting /\ u.heard = t.heard
  BY <1>1 DEF Beside
<1>2. ASSUME NEW p \in Loads(v), p \in ps
      PROVE  /\ PanelFields \subseteq DOMAIN u.panels[p]
             /\ u.panels[p].no = t.panels[p].no /\ u.panels[p].last = t.panels[p].last /\ u.panels[p].of = t.panels[p].of
             /\ u.panels[p].shown = t.panels[p].shown /\ u.panels[p].failed = t.panels[p].failed
             /\ u.panels[p].due = t.panels[p].due \cup {c.seen} /\ u.panels[p].at = t.panels[p].at \cup {c.seen}
             /\ u.panels[p].excuse = IF lost(p) THEN "stranded" ELSE t.panels[p].excuse
  <2>1. PanelFields \subseteq DOMAIN t.panels[p]
    BY <1>r DEF Recorded
  <2>2. PICK e : e = drawn(p)
    OBVIOUS
  <2>3. /\ PanelFields \subseteq DOMAIN e /\ e.no = t.panels[p].no /\ e.last = t.panels[p].last /\ e.of = t.panels[p].of
        /\ e.shown = t.panels[p].shown /\ e.failed = t.panels[p].failed
        /\ e.due = t.panels[p].due \cup {c.seen} /\ e.at = t.panels[p].at \cup {c.seen}
        /\ e.excuse = IF lost(p) THEN "stranded" ELSE t.panels[p].excuse
    BY <2>1, <2>2 DEF PanelFields
  <2>4. u.panels[p] = e
    BY <1>1, <1>2, <2>2
  <2>5. QED BY <2>3, <2>4
<1> HIDE DEF drawn
<1>3. ASSUME NEW p \in Loads(v)
      PROVE  /\ PanelFields \subseteq DOMAIN u.panels[p]
             /\ u.panels[p].no = t.panels[p].no /\ u.panels[p].last = t.panels[p].last /\ u.panels[p].of = t.panels[p].of
             /\ u.panels[p].shown = t.panels[p].shown /\ u.panels[p].failed = t.panels[p].failed
             /\ DatedPanel(v, u, p)
  <2>1. PanelFields \subseteq DOMAIN t.panels[p] /\ DatedPanel(v, t, p)
    BY <1>r DEF Recorded, Dated
  <2>2. CASE p \notin ps
    BY <1>1, <1>b, <2>1, <2>2 DEF DatedPanel
  <2>3. CASE p \in ps
    <3>1. DatedPanel(v, u, p)
      BY <1>2, <1>b, <2>1, <2>3 DEF DatedPanel
    <3>2. QED BY <1>2, <2>3, <3>1
  <2>4. QED BY <2>2, <2>3
<1>4. Marked(v, t, u)
  BY <1>1, <1>3 DEF Marked
<1>5. ASSUME NEW p \in Loads(v), p \in ps, Live(v, u, p) PROVE IF Void(v, u, p) THEN Emptied(v, u, p) ELSE Settles(v, u, p)
  <2>1. ~lost(p) /\ u.panels[p].excuse = t.panels[p].excuse
    BY <1>2, <1>5 DEF Live
  <2>2. \A d \in t.calls : ~(d.kind = "load" /\ d.for = p)
    BY <2>1 DEF lost, InFlight
  <2>3. Covered(v, t, p) => Covered(v, u, p)
    BY <1>1, <1>3 DEF Covered, Follows
  <2>4. Live(v, t, p)
    BY <1>2, <1>5, <2>1, <2>3 DEF Live
  <2>5. IF Void(v, t, p) THEN Emptied(v, t, p) ELSE Settles(v, t, p)
    BY <1>r, <2>4 DEF Good
  <2>6. (Void(v, t, p) <=> Void(v, u, p)) /\ (Stale(v, t, p) <=> Stale(v, u, p))
    BY <1>2, <1>5, <1>b DEF Void, Stale
  <2>7. ASSUME Emptied(v, t, p) PROVE Emptied(v, u, p)
    BY <1>2, <1>5, <2>6, <2>7 DEF Emptied
  <2>8. ASSUME Settles(v, t, p) PROVE Settles(v, u, p)
    <3>1. Shows(v, t, p)
      BY <2>8 DEF Settles
    <3>2. Shows(v, u, p)
      BY <1>2, <1>5, <2>2, <2>6, <3>1 DEF Shows
    <3>3. \A d \in u.calls : ~Heeded(v, u, p, d)
      BY <1>1, <2>2 DEF Heeded
    <3>4. QED BY <1>2, <1>5, <1>b, <2>8, <3>2, <3>3 DEF Settles
  <2>9. QED BY <2>5, <2>6, <2>7, <2>8
<1>6. \A p \in Loads(v) \ {} : Good(v, u, p) \/ (u.panels[p] = t.panels[p] /\ p \notin {})
  BY <1>1, <1>5 DEF Good
<1>7. CurrentBut(v, u, {})
  BY <1>4, <1>6, MarkedCurrent
<1>8. QED BY <1>u, <1>7

\* Loads that are about to be asked are dropped, and what was typed in a list that is one of them.
LEMMA DroppedCurrent ==
  ASSUME OkView(Here), NEW t, NEW ps, CurrentBut(Here, t, With(ps)), NEW u, TabFields \subseteq DOMAIN u,
         u.calls = t.calls \ InFlight(t, ps), u.panels = t.panels, u.asked = t.asked,
         u.subject = t.subject, u.url = t.url, u.world = t.world, u.told = t.told, u.heard = t.heard,
         u.gate = t.gate, u.kept = t.kept,
         \/ u.query = t.query /\ u.written = t.written /\ u.waiting = t.waiting
         \/ Here.list \in ps /\ u.query = t.url /\ u.written = t.url /\ u.waiting = FALSE
  PROVE  CurrentBut(Here, u, With(ps))
<1> DEFINE v == Here
<1>r. Recorded(v, t) /\ Dated(v, t) /\ Numbered(v, t) /\ Addressed(t) /\ \A s \in Loads(v) \ With(ps) : Good(v, t, s)
  BY DEF CurrentBut
<1>1. \A c \in u.calls : c \in t.calls
  OBVIOUS
<1>2. Recorded(v, u)
  BY <1>r, <1>1 DEF Recorded
<1>3. Dated(v, u)
  <2>1. \A c \in u.calls : DatedCall(u, c)
    BY <1>r, <1>1 DEF Dated, DatedCall
  <2>2. \A k \in u.kept : DatedAnswer(u, k)
    BY <1>r DEF Dated, DatedAnswer
  <2>3. \A s \in Loads(v) : DatedPanel(v, u, s)
    BY <1>r DEF Dated, DatedPanel
  <2>4. QED BY <1>r, <2>1, <2>2, <2>3 DEF Dated
<1>4. Numbered(v, u)
  BY <1>r, <1>1 DEF Numbered, NumberedPanel, NumberedCall
<1>5. Addressed(u)
  BY <1>r DEF Addressed
<1>6. \A s \in Loads(v) : s \notin ps => Same(v, t, u, s)
  BY DEF Same, InFlight
<1>7. ASSUME NEW s \in Loads(v), s \notin With(ps) PROVE Good(v, u, s)
  <2>1. s \notin ps
    BY <1>7 DEF With
  <2>2. ASSUME NEW x \in Follows(v, s) PROVE Same(v, t, u, x)
    <3>1. x \in Loads(v) /\ x \notin ps
      BY <1>7 DEF Follows, With, LoadOf
    <3>2. QED BY <1>6, <3>1
  <2>3. Covered(v, t, s) => Covered(v, u, s)
    BY <2>2 DEF Covered, Same
  <2>4. v.loads[s].about = "query" => u.query = t.query /\ u.waiting = t.waiting
    <3>1. v.loads[s].about = "query" => s = v.list
      BY SettleFacts
    <3>2. QED BY <2>1, <3>1
  <2>5. Good(v, t, s) /\ Same(v, t, u, s)
    BY <1>r, <1>6, <1>7, <2>1
  <2>6. QED BY <2>3, <2>4, <2>5, StillGood
<1>8. QED BY <1>2, <1>3, <1>4, <1>5, <1>7 DEF CurrentBut

LEMMA ReloadCurrent ==
  ASSUME OkView(Here), NEW t, NEW f \in Forms(Here), CurrentBut(Here, t, Asked(FormOf(f)))
  PROVE  CurrentBut(Here, Reload(t, FormOf(f)), {})
<1> DEFINE form == FormOf(f)
<1>1. form.asks \subseteq Loads(Here) /\ IsFiniteSet(form.asks)
  BY FS_Subset DEF OkView, Refers, Loads, Forms, FormOf
<1>2. Asked(form) = With(form.asks)
  BY DEF Asked, With
<1>3. TabFields \subseteq DOMAIN t
  BY DEF CurrentBut, Recorded
<1>u. PICK u : u = IF ~form.anew THEN t
                   ELSE IF Here.list \in form.asks
                        THEN [[t EXCEPT !.calls = @ \ InFlight(t, form.asks)] EXCEPT !.query = t.url, !.written = t.url, !.waiting = FALSE]
                        ELSE [t EXCEPT !.calls = @ \ InFlight(t, form.asks)]
  OBVIOUS
<1>4. Reload(t, form) = AskAll(u, form.asks)
  BY <1>u DEF Reload
<1>5. CurrentBut(Here, u, With(form.asks))
  <2>1. CASE ~form.anew
    BY <1>u, <1>2, <2>1
  <2>2. CASE form.anew
    <3>1. /\ TabFields \subseteq DOMAIN u /\ u.calls = t.calls \ InFlight(t, form.asks) /\ u.panels = t.panels /\ u.asked = t.asked
          /\ u.subject = t.subject /\ u.url = t.url /\ u.world = t.world /\ u.told = t.told /\ u.heard = t.heard
          /\ u.gate = t.gate /\ u.kept = t.kept
          /\ \/ u.query = t.query /\ u.written = t.written /\ u.waiting = t.waiting
             \/ Here.list \in form.asks /\ u.query = t.url /\ u.written = t.url /\ u.waiting = FALSE
      BY <1>u, <1>3, <2>2 DEF TabFields
    <3>2. CurrentBut(Here, t, With(form.asks))
      BY <1>2
    <3>3. QED BY <3>1, <3>2, DroppedCurrent
  <2>3. QED BY <2>1, <2>2
<1>6. CurrentBut(Here, AskAll(u, form.asks), With(form.asks) \ With(form.asks))
  BY <1>1, <1>5, AskAllCurrent
<1>7. With(form.asks) \ With(form.asks) = {}
  OBVIOUS
<1>8. QED BY <1>4, <1>6, <1>7

----------------------------------------------------------------------------
(* Writes that are answered *)

\* Once the tab is told of a write, nothing asked before it is good any more.
LEMMA ToldCurrent ==
  ASSUME NEW v, NEW t, CurrentBut(v, t, {}), NEW c \in t.calls, c.kind = "write", c.result = "ok",
         NEW u, TabFields \subseteq DOMAIN u, u.calls = t.calls \ {c}, u.panels = t.panels, u.asked = t.asked,
         u.subject = t.subject, u.query = t.query, u.url = t.url, u.written = t.written, u.waiting = t.waiting,
         u.world = t.world, u.told = t.told + 1, u.heard \in {t.heard, t.heard \cup {c.seen}},
         u.gate = t.gate, u.kept = t.kept
  PROVE  CurrentBut(v, u, {})
<1>r. Recorded(v, t) /\ Dated(v, t) /\ Numbered(v, t) /\ Addressed(t) /\ \A s \in Loads(v) : Good(v, t, s)
  BY DEF CurrentBut
<1>1. PICK n \in Nat : n = t.told
  BY <1>r DEF Recorded
<1>2. u.told \in Nat /\ \A i \in Nat : i <= t.told => i <= u.told /\ i # u.told
  BY <1>1
<1>3. t.heard \subseteq u.heard
  OBVIOUS
<1>4. Recorded(v, u)
  BY <1>r, <1>2 DEF Recorded
<1>5. Dated(v, u)
  <2>1. ASSUME NEW d \in u.calls PROVE DatedCall(u, d)
    <3>1. DatedCall(t, d)
      BY <1>r DEF Dated
    <3>2. QED BY <1>2, <1>3, <3>1 DEF DatedCall
  <2>2. ASSUME NEW k \in u.kept PROVE DatedAnswer(u, k)
    <3>1. DatedAnswer(t, k)
      BY <1>r DEF Dated
    <3>2. QED BY <1>2, <3>1 DEF DatedAnswer
  <2>3. ASSUME NEW s \in Loads(v) PROVE DatedPanel(v, u, s)
    <3>1. DatedPanel(v, t, s)
      BY <1>r DEF Dated
    <3>2. QED BY <1>3, <3>1 DEF DatedPanel
  <2>4. u.heard \subseteq 1..u.world
    <3>1. c.seen \in 1..t.world
      BY <1>r DEF Dated, DatedCall
    <3>2. QED BY <1>r, <3>1 DEF Dated
  <2>5. u.gate # None => u.gate.done \subseteq u.heard
    BY <1>r, <1>3 DEF Dated
  <2>6. QED BY <2>1, <2>2, <2>3, <2>4, <2>5 DEF Dated
<1>6. Numbered(v, u)
  BY <1>r DEF Numbered, NumberedPanel, NumberedCall
<1>7. Addressed(u)
  BY <1>r DEF Addressed
<1>8. \A s : Same(v, t, u, s)
  BY DEF Same
<1>9. \A s \in Loads(v) : Good(v, u, s)
  BY <1>r, <1>8, SameGood
<1>10. QED BY <1>4, <1>5, <1>6, <1>7, <1>9 DEF CurrentBut

LEMMA FinishedCurrent ==
  ASSUME OkView(Here), NEW t, CurrentBut(Here, t, {}), NEW c, c.for \in Forms(Here), c.done \subseteq t.heard
  PROVE  CurrentBut(Here, Finished(t, FormOf(c.for), c), {})
<1> DEFINE form == FormOf(c.for)
<1>1. PICK low : low = Lower(t, form, c.of)
  OBVIOUS
<1>2. PICK owed : owed = Owe(low, form, c.done)
  OBVIOUS
<1>3. PICK closed : closed = ShutAll(owed, form.closes \cup (IF form.leaves \in {"saved", "answered"} /\ form.opens # "always"
                                                            THEN {c.for} ELSE {}))
  OBVIOUS
<1>4. PICK forgot : forgot = [closed EXCEPT !.forms = [f \in DOMAIN @ |-> IF f \in form.forgets THEN [@[f] EXCEPT !.row = None] ELSE @[f]]]
  OBVIOUS
<1>5. Finished(t, form, c) = Lead(Reload(forgot, form), form, c.of)
  BY <1>1, <1>2, <1>3, <1>4 DEF Finished
<1>6. TabFields \subseteq DOMAIN t
  BY DEF CurrentBut, Recorded
<1>7. CurrentBut(Here, low, {}) /\ low.heard = t.heard
  BY <1>1, <1>6, LowerCurrent DEF Lower, TabFields
<1>8. CurrentBut(Here, owed, Asked(form))
  BY <1>2, <1>7, OweCurrent
<1>9. CurrentBut(Here, closed, Asked(form))
  BY <1>3, <1>8, ShutCurrent
<1>10. CurrentBut(Here, forgot, Asked(form))
  BY <1>4, <1>9, FormsCurrent
<1>11. CurrentBut(Here, Reload(forgot, form), {})
  BY <1>10, ReloadCurrent
<1>12. QED BY <1>5, <1>11, LeadCurrent

LEMMA FailedCurrent ==
  ASSUME OkView(Here), NEW t, CurrentBut(Here, t, {}), NEW c, c.for \in Forms(Here), c.done \subseteq t.heard
  PROVE  CurrentBut(Here, Failed(t, FormOf(c.for), c), {})
<1> DEFINE form == FormOf(c.for)
<1>1. PICK low : low = Lower(t, form, c.of)
  OBVIOUS
<1>2. PICK closed : closed = IF form.leaves = "answered" THEN ShutAll(low, {c.for}) ELSE low
  OBVIOUS
<1>3. PICK forgot : forgot = [closed EXCEPT !.forms = [f \in DOMAIN @ |-> IF f \in form.forgets THEN [@[f] EXCEPT !.row = None] ELSE @[f]]]
  OBVIOUS
<1>4. \/ Failed(t, form, c) = Reload(Owe(forgot, form, c.done), form)
      \/ Failed(t, form, c) = Owe(forgot, form, c.done) /\ ~form.repairs /\ Partial(form)
      \/ Failed(t, form, c) = forgot
  BY <1>1, <1>2, <1>3 DEF Failed, Shut
<1>5. TabFields \subseteq DOMAIN t
  BY DEF CurrentBut, Recorded
<1>6. CurrentBut(Here, low, {}) /\ TabFields \subseteq DOMAIN low /\ low.heard = t.heard
  BY <1>1, <1>5, LowerCurrent DEF Lower, TabFields
<1>7. CurrentBut(Here, ShutAll(low, {c.for}), {}) /\ TabFields \subseteq DOMAIN ShutAll(low, {c.for})
      /\ ShutAll(low, {c.for}).heard = t.heard
  BY <1>6, ShutCurrent DEF ShutAll, TabFields
<1>8. CurrentBut(Here, closed, {}) /\ TabFields \subseteq DOMAIN closed /\ closed.heard = t.heard
  BY <1>2, <1>6, <1>7
<1>9. CurrentBut(Here, forgot, {}) /\ forgot.heard = t.heard
  BY <1>3, <1>8, FormsCurrent DEF TabFields
<1>10. CurrentBut(Here, Owe(forgot, form, c.done), Asked(form))
  BY <1>9, OweCurrent
<1>11. CurrentBut(Here, Reload(Owe(forgot, form, c.done), form), {})
  BY <1>10, ReloadCurrent
<1>12. ASSUME ~form.repairs, Partial(form) PROVE CurrentBut(Here, Owe(forgot, form, c.done), {})
  BY <1>9, <1>12, OweNothing
<1>13. QED BY <1>4, <1>9, <1>11, <1>12

LEMMA TakenCurrent ==
  ASSUME CurrentBut(Here, tab, {}), NEW c, c.kind # "load"
  PROVE  /\ CurrentBut(Here, Taken(c), {}) /\ TabFields \subseteq DOMAIN Taken(c)
         /\ Taken(c).calls = tab.calls \ {c} /\ Taken(c).panels = tab.panels /\ Taken(c).asked = tab.asked
         /\ Beside(tab, Taken(c))
<1>u. PICK u : u = Taken(c)
  OBVIOUS
<1>1. TabFields \subseteq DOMAIN tab /\ (tab.gate # None => tab.gate.done \subseteq tab.heard)
  BY DEF CurrentBut, Recorded, Dated
<1>2. TabFields \subseteq DOMAIN u /\ u.calls = tab.calls \ {c} /\ u.asked = tab.asked /\ u.panels = tab.panels /\ Beside(tab, u)
  BY <1>u, <1>1 DEF Taken, TabFields, Beside
<1>3. Apart(Here, tab, u)
  BY <1>1, <1>2 DEF Apart, Beside
<1>4. CurrentBut(Here, u, {})
  BY <1>3, ApartCurrent
<1>5. QED BY <1>u, <1>2, <1>4

\* What waits to be confirmed.
LEMMA GatedCurrent ==
  ASSUME NEW t, CurrentBut(Here, t, {}), NEW c, c = None \/ c.done \subseteq t.heard
  PROVE  CurrentBut(Here, [t EXCEPT !.gate = c], {})
<1>u. PICK u : u = [t EXCEPT !.gate = c]
  OBVIOUS
<1>1. TabFields \subseteq DOMAIN t
  BY DEF CurrentBut, Recorded
<1>2. /\ TabFields \subseteq DOMAIN u /\ u.calls = t.calls /\ u.panels = t.panels /\ u.asked = t.asked
      /\ u.subject = t.subject /\ u.query = t.query /\ u.url = t.url /\ u.written = t.written /\ u.waiting = t.waiting
      /\ u.world = t.world /\ u.told = t.told /\ u.heard = t.heard /\ u.gate = c /\ u.kept = t.kept
  BY <1>u, <1>1 DEF TabFields
<1>3. Apart(Here, t, u)
  BY <1>2 DEF Apart
<1>4. QED BY <1>u, <1>3, ApartCurrent

\* The panels that must come to show what was written are asked for it, or excused, or show it.
LEMMA WrittenCurrent ==
  ASSUME OkView(Here), CurrentBut(Here, tab, {}), NEW c \in tab.calls, Written(c)
  PROVE  CurrentBut(Here, tab', {})
<1> DEFINE v == Here
           form == FormOf(c.for)
           write == form.steps[c.step] = "write"
<1> HIDE DEF write
<1>s. PICK said : said = [c EXCEPT !.done = IF write THEN @ \cup {c.seen} ELSE @]
  OBVIOUS
<1>t. PICK taken : taken = Taken(c)
  OBVIOUS
<1>h. PICK heard : heard = [taken EXCEPT !.told = @ + 1, !.heard = IF write THEN @ \cup {c.seen} ELSE @]
  OBVIOUS
<1>d. PICK drawn : drawn = IF write THEN Patch(heard, form, c) ELSE heard
  OBVIOUS
<1>n. PICK next : next = [said EXCEPT !.step = @ + 1, !.result = ""]
  OBVIOUS
<1>a. PICK again : again = [c EXCEPT !.step = @ + 1, !.result = ""]
  OBVIOUS
<1>1. Recorded(v, tab) /\ Dated(v, tab)
  BY DEF CurrentBut
<1>2. c.kind = "write" /\ c.for \in Forms(v) /\ CallFields \subseteq DOMAIN c /\ DatedCall(tab, c)
  BY <1>1 DEF Written, Arrives, Recorded, Dated
<1>3. \/ c.result = "ok" /\ tab' = [drawn EXCEPT !.calls = @ \cup {next}]
      \/ c.result = "ok" /\ tab' = Unheard(drawn, form, said)
      \/ c.result = "ok" /\ tab' = Finished(drawn, form, said)
      \/ tab' = taken
      \/ tab' = [taken EXCEPT !.calls = @ \cup {again}]
      \/ tab' = Failed(taken, form, c)
      \/ tab' = [Lower(taken, form, c.of) EXCEPT !.gate = c]
  BY <1>s, <1>t, <1>h, <1>d, <1>n, <1>a DEF Written, write
<1>4. /\ CurrentBut(v, taken, {}) /\ TabFields \subseteq DOMAIN taken
      /\ taken.calls = tab.calls \ {c} /\ taken.panels = tab.panels /\ taken.asked = tab.asked /\ Beside(tab, taken)
  BY <1>2, <1>t, TakenCurrent
<1>5. c.done \subseteq taken.heard
  BY <1>2, <1>4 DEF DatedCall, Beside
<1>6. /\ CallFields \subseteq DOMAIN said /\ said.kind = c.kind /\ said.for = c.for /\ said.of = c.of
      /\ said.done = IF write THEN c.done \cup {c.seen} ELSE c.done
  BY <1>2, <1>s DEF CallFields
<1>7. /\ CallFields \subseteq DOMAIN next /\ next.kind = c.kind /\ next.for = c.for /\ next.done = said.done /\ next.result = ""
  BY <1>6, <1>n DEF CallFields
<1>8. ASSUME c.result = "ok"
      PROVE  CurrentBut(v, drawn, {}) /\ said.done \subseteq drawn.heard
  <2>1. /\ TabFields \subseteq DOMAIN heard /\ heard.calls = tab.calls \ {c} /\ heard.panels = tab.panels /\ heard.asked = tab.asked
        /\ heard.subject = tab.subject /\ heard.query = tab.query /\ heard.url = tab.url /\ heard.written = tab.written
        /\ heard.waiting = tab.waiting /\ heard.world = tab.world /\ heard.told = tab.told + 1
        /\ heard.heard = (IF write THEN tab.heard \cup {c.seen} ELSE tab.heard) /\ heard.gate = tab.gate /\ heard.kept = tab.kept
    BY <1>4, <1>h DEF TabFields, Beside
  <2>2. CurrentBut(v, heard, {})
    BY <1>2, <1>8, <2>1, ToldCurrent
  <2>3. said.done \subseteq heard.heard
    BY <1>2, <1>6, <2>1 DEF DatedCall
  <2>4. CASE write
    <3>1. c.seen \in heard.heard
      BY <2>1, <2>4
    <3>2. CurrentBut(v, Patch(heard, form, c), {})
      BY <1>2, <2>2, <3>1, PatchCurrent
    <3>3. Patch(heard, form, c).heard = heard.heard
      BY <2>1 DEF Patch, TabFields
    <3>4. QED BY <1>d, <2>3, <2>4, <3>2, <3>3
  <2>5. CASE ~write
    BY <1>d, <2>2, <2>3, <2>5
  <2>6. QED BY <2>4, <2>5
<1>9. CASE c.result = "ok" /\ tab' = [drawn EXCEPT !.calls = @ \cup {next}]
  <2>1. CurrentBut(v, drawn, {}) /\ said.done \subseteq drawn.heard /\ TabFields \subseteq DOMAIN drawn
        /\ (drawn.gate # None => drawn.gate.done \subseteq drawn.heard)
    BY <1>8, <1>9 DEF CurrentBut, Recorded, Dated
  <2>2. /\ TabFields \subseteq DOMAIN tab' /\ tab'.calls = drawn.calls \cup {next} /\ tab'.panels = drawn.panels
        /\ tab'.asked = drawn.asked /\ Beside(drawn, tab')
    BY <1>9, <2>1 DEF TabFields, Beside
  <2>3. NoLoad(v, drawn, next)
    BY <1>2, <1>7, <2>1 DEF NoLoad
  <2>4. Apart(v, drawn, tab')
    BY <2>1, <2>2, <2>3 DEF Apart, Beside
  <2>5. QED BY <2>1, <2>4, ApartCurrent
<1>10. CASE c.result = "ok" /\ tab' = Unheard(drawn, form, said)
  BY <1>2, <1>8, <1>10, UnheardCurrent
<1>11. CASE c.result = "ok" /\ tab' = Finished(drawn, form, said)
  <2>1. CurrentBut(v, Finished(drawn, FormOf(said.for), said), {})
    BY <1>2, <1>6, <1>8, <1>11, FinishedCurrent
  <2>2. QED BY <1>6, <1>11, <2>1
<1>12. CASE tab' = taken
  BY <1>4, <1>12
<1>13. CASE tab' = Failed(taken, form, c)
  BY <1>2, <1>4, <1>5, <1>13, FailedCurrent
<1>14. CASE tab' = [Lower(taken, form, c.of) EXCEPT !.gate = c]
  <2>1. CurrentBut(v, Lower(taken, form, c.of), {})
    BY <1>4, LowerCurrent
  <2>2. Lower(taken, form, c.of).heard = taken.heard
    BY <1>4 DEF Lower, TabFields
  <2>3. QED BY <1>5, <1>14, <2>1, <2>2, GatedCurrent
<1>15. CASE tab' = [taken EXCEPT !.calls = @ \cup {again}]
  <2>1. again.kind = c.kind /\ again.done = c.done
    BY <1>2, <1>a DEF CallFields
  <2>2. taken.gate # None => taken.gate.done \subseteq taken.heard
    BY <1>4 DEF CurrentBut, Dated
  <2>3. /\ TabFields \subseteq DOMAIN tab' /\ tab'.calls = taken.calls \cup {again} /\ tab'.panels = taken.panels
        /\ tab'.asked = taken.asked /\ Beside(taken, tab')
    BY <1>4, <1>15 DEF TabFields, Beside
  <2>4. NoLoad(v, taken, again)
    BY <1>2, <1>5, <1>a, <2>1 DEF NoLoad, CallFields
  <2>5. Apart(v, taken, tab')
    BY <2>2, <2>3, <2>4 DEF Apart, Beside
  <2>6. QED BY <1>4, <2>5, ApartCurrent
<1>16. QED BY <1>3, <1>9, <1>10, <1>11, <1>12, <1>13, <1>14, <1>15

----------------------------------------------------------------------------
(* Loads that are served and answered *)

\* An answer that is served now reflects every write the tab was told of.
LEMMA ServeCurrent ==
  ASSUME CurrentBut(Here, tab, {}), NEW c \in tab.calls, Serve(c)
  PROVE  CurrentBut(Here, tab', {})
<1> DEFINE v == Here
           t == tab
<1>r. Recorded(v, t) /\ Dated(v, t) /\ Numbered(v, t) /\ Addressed(t) /\ \A s \in Loads(v) : Good(v, t, s)
  BY DEF CurrentBut
<1>1. PICK r, world :
        /\ r \in Results(c)
        /\ world = IF c.kind = "write" /\ r = "ok" THEN t.world + 1 ELSE t.world
        /\ tab' = [tab EXCEPT !.world = world, !.calls = (@ \ {c}) \cup {[c EXCEPT !.result = r, !.seen = world]}]
  BY DEF Serve
<1>d. PICK d : d = [c EXCEPT !.result = r, !.seen = world]
  OBVIOUS
<1>u. PICK u : u = tab'
  OBVIOUS
<1>2. /\ CallFields \subseteq DOMAIN d /\ d.kind = c.kind /\ d.for = c.for /\ d.of = c.of /\ d.no = c.no /\ d.gen = c.gen
      /\ d.done = c.done /\ d.result = r /\ d.seen = world
  BY <1>r, <1>d DEF Recorded, CallFields
<1>3. /\ TabFields \subseteq DOMAIN u /\ u.calls = (t.calls \ {c}) \cup {d} /\ u.asked = t.asked /\ u.panels = t.panels
      /\ u.subject = t.subject /\ u.query = t.query /\ u.url = t.url /\ u.written = t.written /\ u.waiting = t.waiting
      /\ u.world = world /\ u.told = t.told /\ u.heard = t.heard /\ u.gate = t.gate /\ u.kept = t.kept
  BY <1>r, <1>1, <1>d, <1>u DEF Recorded, TabFields
<1>4. PICK n \in Nat : n = t.world
  BY <1>r DEF Recorded
<1>5. world \in Nat /\ (1..t.world) \subseteq (1..world) /\ (c.kind = "write" /\ r = "ok" => world \in 1..world)
  <2>1. CASE c.kind = "write" /\ r = "ok"
    <3>1. world = n + 1
      BY <1>1, <1>4, <2>1
    <3>2. (1..n) \subseteq (1..(n + 1)) /\ n + 1 \in 1..(n + 1)
      OBVIOUS
    <3>3. QED BY <1>4, <3>1, <3>2
  <2>2. CASE ~(c.kind = "write" /\ r = "ok")
    BY <1>1, <1>4, <2>2
  <2>3. QED BY <2>1, <2>2
<1>6. c.kind = "load" => r \in {"ok", "failed"}
  BY <1>1 DEF Results
<1>7. t.heard \subseteq 1..world
  BY <1>r, <1>5 DEF Dated
<1>8. Recorded(v, u)
  <2>1. \A e \in u.calls : CallFields \subseteq DOMAIN e /\ IF e.kind = "load" THEN e.for \in Loads(v) ELSE e.for \in Forms(v)
    BY <1>r, <1>2, <1>3 DEF Recorded
  <2>2. QED BY <1>r, <1>3, <1>5, <2>1 DEF Recorded
<1>9. Dated(v, u)
  <2>1. ASSUME NEW e \in u.calls PROVE DatedCall(u, e)
    <3>1. CASE e \in t.calls
      <4>1. DatedCall(t, e)
        BY <1>r, <3>1 DEF Dated
      <4>2. e.kind = "write" /\ e.result = "ok" => e.seen \in 1..world
        BY <1>5, <4>1 DEF DatedCall
      <4>3. QED BY <1>3, <4>1, <4>2 DEF DatedCall
    <3>2. CASE e = d
      <4>1. DatedCall(t, c)
        BY <1>r DEF Dated
      <4>2. QED BY <1>2, <1>3, <1>5, <1>6, <1>7, <3>2, <4>1 DEF DatedCall
    <3>3. QED BY <1>3, <3>1, <3>2
  <2>2. \A k \in u.kept : DatedAnswer(u, k)
    BY <1>r, <1>3 DEF Dated, DatedAnswer
  <2>3. \A s \in Loads(v) : DatedPanel(v, u, s)
    BY <1>r, <1>3 DEF Dated, DatedPanel
  <2>4. QED BY <1>r, <1>3, <1>7, <2>1, <2>2, <2>3 DEF Dated
<1>10. Numbered(v, u)
  <2>1. \A s \in Loads(v) : NumberedPanel(u, s)
    BY <1>r, <1>3 DEF Numbered, NumberedPanel
  <2>2. ASSUME NEW e \in u.calls PROVE NumberedCall(v, u, e)
    <3>1. CASE e \in t.calls
      BY <1>r, <1>3, <3>1 DEF Numbered, NumberedCall
    <3>2. CASE e = d
      BY <1>r, <1>2, <1>3, <3>2 DEF Numbered, NumberedCall
    <3>3. QED BY <1>3, <3>1, <3>2
  <2>3. QED BY <2>1, <2>2 DEF Numbered
<1>11. Addressed(u)
  BY <1>r, <1>3 DEF Addressed
<1>12. ASSUME NEW s \in Loads(v), Live(v, u, s) PROVE IF Void(v, u, s) THEN Emptied(v, u, s) ELSE Settles(v, u, s)
  <2>1. Covered(v, t, s) => Covered(v, u, s)
    BY <1>2, <1>3 DEF Covered
  <2>2. Live(v, t, s)
    BY <1>3, <1>12, <2>1 DEF Live
  <2>3. IF Void(v, t, s) THEN Emptied(v, t, s) ELSE Settles(v, t, s)
    BY <1>r, <2>2 DEF Good
  <2>4. (Void(v, t, s) <=> Void(v, u, s)) /\ (Stale(v, t, s) <=> Stale(v, u, s)) /\ (Emptied(v, t, s) => Emptied(v, u, s))
    BY <1>3 DEF Void, Stale, Emptied
  <2>5. ASSUME Settles(v, t, s) PROVE Settles(v, u, s)
    <3>1. Shows(v, t, s)
      BY <2>5 DEF Settles
    <3>2. Shows(v, u, s)
      BY <1>2, <1>3, <2>4, <3>1 DEF Shows
    <3>3. ASSUME v.loads[s].guard # "untouched", NEW e \in u.calls, Heeded(v, u, s, e), e.result # ""
          PROVE  u.panels[s].due \subseteq 1..e.seen
      <4>1. CASE e \in t.calls
        <5>1. Heeded(v, t, s, e)
          BY <1>3, <3>3 DEF Heeded
        <5>2. QED BY <1>3, <2>5, <3>3, <4>1, <5>1 DEF Settles
      <4>2. CASE e = d
        <5>1. u.panels[s].due \subseteq t.heard
          BY <1>r, <1>3 DEF Dated, DatedPanel
        <5>2. QED BY <1>2, <1>7, <4>2, <5>1
      <4>3. QED BY <1>3, <4>1, <4>2
    <3>4. QED BY <1>3, <2>5, <3>2, <3>3 DEF Settles
  <2>6. QED BY <2>3, <2>4, <2>5
<1>13. CurrentBut(v, u, {})
  BY <1>8, <1>9, <1>10, <1>11, <1>12 DEF CurrentBut, Good
<1>14. QED BY <1>u, <1>13

\* What an answer does to its panel.
FilledAs(p, c, l, u) ==
  /\ PanelFields \subseteq DOMAIN u /\ u.no = p.no /\ u.of = p.of /\ u.due = p.due /\ u.excuse = p.excuse /\ u.last = c.no
  /\ \/ c.result = "failed" /\ u.failed = TRUE /\ u.at = p.at
     \/ c.result = "ok" /\ l.guard = "untouched" /\ u.shown = c.of /\ u.at = p.at
     \/ /\ c.result = "ok" /\ u.shown = c.of /\ u.at = 1..c.seen
        /\ l.guard = "untouched" => p.due = {}

LEMMA FilledFields ==
  ASSUME NEW p, PanelFields \subseteq DOMAIN p, NEW c, NEW l, c.result \in {"ok", "failed"}
  PROVE  FilledAs(p, c, l, Filled(p, c, l))
<1>1. CASE c.result = "failed"
  BY <1>1 DEF Filled, FilledAs, PanelFields
<1>2. CASE c.result = "ok" /\ l.guard = "untouched" /\ p.due # {}
  BY <1>2 DEF Filled, FilledAs, PanelFields
<1>3. CASE c.result = "ok" /\ ~(l.guard = "untouched" /\ p.due # {})
  <2>1. Filled(p, c, l) = Fill(p, c.of, c.seen, c.no)
    BY <1>3 DEF Filled
  <2>2. QED BY <1>3, <2>1 DEF Fill, FilledAs, PanelFields
<1>4. QED BY <1>1, <1>2, <1>3

\* Taken from the calls in flight, and kept if it may be shown again.
LEMMA KeptFields ==
  ASSUME CurrentBut(Here, tab, {}), NEW c \in tab.calls, c.kind = "load", c.result # ""
  PROVE  LET u == Keep(Taken(c), c)
         IN /\ TabFields \subseteq DOMAIN u /\ u.calls = tab.calls \ {c} /\ u.asked = tab.asked /\ u.panels = tab.panels
            /\ u.subject = tab.subject /\ u.query = tab.query /\ u.url = tab.url /\ u.written = tab.written
            /\ u.waiting = tab.waiting /\ u.world = tab.world /\ u.told = tab.told /\ u.heard = tab.heard /\ u.gate = tab.gate
            /\ \A k \in u.kept : DatedAnswer(tab, k)
<1>1. Recorded(Here, tab) /\ Dated(Here, tab)
  BY DEF CurrentBut
<1>2. DatedCall(tab, c)
  BY <1>1 DEF Dated
<1>w. PICK w : w = Taken(c)
  OBVIOUS
<1>3. /\ TabFields \subseteq DOMAIN w /\ w.calls = tab.calls \ {c} /\ w.asked = tab.asked /\ w.panels = tab.panels
      /\ Beside(tab, w)
  BY <1>1, <1>w DEF Recorded, Taken, TabFields, Beside
<1>k. PICK k : k = [for |-> c.for, of |-> c.of, gen |-> c.gen, seen |-> c.seen]
  OBVIOUS
<1>4. DatedAnswer(tab, k)
  BY <1>2, <1>k DEF DatedCall, DatedAnswer
<1>u. PICK u : u = Keep(w, c)
  OBVIOUS
<1>5. /\ TabFields \subseteq DOMAIN u /\ u.calls = w.calls /\ u.asked = w.asked /\ u.panels = w.panels
      /\ u.subject = w.subject /\ u.query = w.query /\ u.url = w.url /\ u.written = w.written
      /\ u.waiting = w.waiting /\ u.world = w.world /\ u.told = w.told /\ u.heard = w.heard /\ u.gate = w.gate
      /\ \A j \in u.kept : j \in w.kept \/ j = k
  BY <1>3, <1>u, <1>k DEF Keep, TabFields
<1>6. \A j \in u.kept : DatedAnswer(tab, j)
  BY <1>1, <1>3, <1>4, <1>5 DEF Dated, Beside
<1>7. QED BY <1>w, <1>u, <1>3, <1>5, <1>6 DEF Beside

LEMMA LoadAnsweredCurrent ==
  ASSUME OkView(Here), CurrentBut(Here, tab, {}), NEW c \in tab.calls, LoadAnswered(c)
  PROVE  CurrentBut(Here, tab', {})
<1> DEFINE v == Here
           t == tab
           p == c.for
           l == v.loads[p]
<1> HIDE DEF l
<1>r. Recorded(v, t) /\ Dated(v, t) /\ Numbered(v, t) /\ Addressed(t) /\ \A s \in Loads(v) : Good(v, t, s)
  BY DEF CurrentBut
<1>l. l = LoadOf(p)
  BY DEF l, LoadOf
<1>k. PICK w : w = Keep(Taken(c), c)
  OBVIOUS
<1>f. PICK u : u = [w EXCEPT !.panels[p] = Filled(@, c, l), !.up = Without(@, l.flag)]
  OBVIOUS
<1>1. c.kind = "load" /\ p \in Loads(v) /\ c.result \in {"ok", "failed"} /\ c.result # ""
  BY <1>r DEF LoadAnswered, Arrives, Recorded, Dated, DatedCall
<1>2. tab' = IF c.no = 0 \/ TooLate(c) THEN w ELSE IF c.result = "ok" THEN AskAll(u, l.then) ELSE u
  BY <1>k, <1>f, <1>l DEF LoadAnswered
<1>3. /\ TabFields \subseteq DOMAIN w /\ w.calls = t.calls \ {c} /\ w.asked = t.asked /\ w.panels = t.panels
      /\ w.subject = t.subject /\ w.query = t.query /\ w.url = t.url /\ w.written = t.written
      /\ w.waiting = t.waiting /\ w.world = t.world /\ w.told = t.told /\ w.heard = t.heard /\ w.gate = t.gate
      /\ \A k \in w.kept : DatedAnswer(t, k)
  BY <1>1, <1>k, KeptFields
<1>s. /\ l.guard \in {"none", "latest", "abort", "question", "untouched"} /\ l.then \subseteq Loads(v)
      /\ l.then # {} => l.guard = "abort" /\ Follows(v, p) = {}
      /\ l.guard = "question" => l.about \in {"subject", "filter"} /\ p \in v.mounts
      /\ l.guard = "untouched" => l.about = "nothing"
  <2>1. \A q \in Loads(v) :
          /\ v.loads[q].guard \in {"none", "latest", "abort", "question", "untouched"}
          /\ v.loads[q].then \subseteq Loads(v)
          /\ v.loads[q].then # {} => v.loads[q].guard = "abort" /\ Follows(v, q) = {}
          /\ v.loads[q].guard = "question" => v.loads[q].about \in {"subject", "filter"} /\ q \in v.mounts
          /\ v.loads[q].guard = "untouched" => v.loads[q].about = "nothing"
    BY SettleFacts
  <2>2. QED BY <1>1, <2>1 DEF l
<1>4. NumberedCall(v, t, c) /\ DatedPanel(v, t, p)
  BY <1>1, <1>r DEF Numbered, Dated
<1>5. /\ c.no \in Nat /\ c.no <= t.asked
      /\ c.no # 0 /\ c.no = t.panels[p].no => c.of = t.panels[p].of
      /\ l.then # {} => c.no # 0 /\ c.no = t.panels[p].no
      /\ l.guard = "untouched" => c.of = t.panels[p].of
  BY <1>1, <1>4 DEF NumberedCall, l
<1>6. Recorded(v, w)
  BY <1>r, <1>3 DEF Recorded
<1>7. /\ \A e \in w.calls : DatedCall(w, e)
      /\ \A k \in w.kept : DatedAnswer(w, k)
      /\ w.heard \subseteq 1..w.world /\ (w.gate # None => w.gate.done \subseteq w.heard)
  BY <1>r, <1>3 DEF Dated, DatedCall, DatedAnswer
<1>8. Dated(v, w)
  <2>1. \A s \in Loads(v) : DatedPanel(v, w, s)
    BY <1>r, <1>3 DEF Dated, DatedPanel
  <2>2. QED BY <1>7, <2>1 DEF Dated
<1>9. \A s \in Loads(v) : s # p => Same(v, t, w, s)
  BY <1>3 DEF Same
<1>10. CASE c.no = 0 \/ TooLate(c)
  <2>0. IF c.no = 0 THEN TRUE ELSE IF l.guard = "question" THEN c.of # t.subject ELSE c.no # t.panels[p].no
    BY <1>10, <1>l DEF TooLate
  <2>t. l.then = {}
    BY <1>5, <1>s, <2>0
  <2>1. Numbered(v, w)
    BY <1>r, <1>3 DEF Numbered, NumberedPanel, NumberedCall
  <2>2. Addressed(w)
    BY <1>r, <1>3 DEF Addressed
  <2>3. ASSUME NEW s \in Loads(v), s # p PROVE Good(v, w, s)
    <3>1. \A x \in Follows(v, s) : Same(v, t, w, x)
      BY <1>9, <2>t DEF Follows, l
    <3>2. QED BY <1>r, <1>3, <1>9, <2>3, <3>1, SameGood
  <2>4. ASSUME Live(v, w, p) PROVE IF Void(v, w, p) THEN Emptied(v, w, p) ELSE Settles(v, w, p)
    <3>1. Covered(v, t, p) => Covered(v, w, p)
      BY <1>3, <2>t DEF Covered, Follows, l
    <3>2. Live(v, t, p)
      BY <1>3, <2>4, <3>1 DEF Live
    <3>3. IF Void(v, t, p) THEN Emptied(v, t, p) ELSE Settles(v, t, p)
      BY <1>1, <1>r, <3>2 DEF Good
    <3>4. (Void(v, t, p) <=> Void(v, w, p)) /\ (Stale(v, t, p) <=> Stale(v, w, p)) /\ (Emptied(v, t, p) => Emptied(v, w, p))
      BY <1>3 DEF Void, Stale, Emptied
    <3>5. ASSUME Settles(v, t, p) PROVE Settles(v, w, p)
      <4>1. Shows(v, t, p) /\ (l.about \in {"subject", "filter"} /\ p \in v.mounts => t.panels[p].of = t.subject)
        BY <3>5 DEF Settles, l
      <4>2. t.panels[p].no # 0
        BY <3>2 DEF Live
      <4>3. c.no # t.panels[p].no
        BY <1>5, <1>s, <2>0, <4>1, <4>2
      <4>4. Shows(v, w, p)
        BY <1>3, <3>4, <4>1, <4>3 DEF Shows
      <4>5. \A e \in w.calls : Heeded(v, w, p, e) => e \in t.calls /\ Heeded(v, t, p, e)
        BY <1>3 DEF Heeded
      <4>6. QED BY <1>3, <3>5, <4>4, <4>5 DEF Settles
    <3>6. QED BY <3>3, <3>4, <3>5
  <2>5. CurrentBut(v, w, {})
    BY <1>6, <1>8, <2>1, <2>2, <2>3, <2>4 DEF CurrentBut, Good
  <2>6. QED BY <1>2, <1>10, <2>5
<1>11. CASE ~(c.no = 0 \/ TooLate(c))
  <2>0. /\ c.no # 0
        /\ l.guard \in {"latest", "abort"} => c.no = t.panels[p].no
        /\ l.guard = "question" => c.of = t.subject
    BY <1>11, <1>l DEF TooLate
  <2>p. PanelFields \subseteq DOMAIN t.panels[p]
    BY <1>1, <1>r DEF Recorded
  <2>q. PICK panel : panel = Filled(t.panels[p], c, l)
    OBVIOUS
  <2>1. /\ TabFields \subseteq DOMAIN u /\ u.calls = t.calls \ {c} /\ u.asked = t.asked
        /\ DOMAIN u.panels = Loads(v) /\ u.panels[p] = panel /\ \A s \in Loads(v) \ {p} : u.panels[s] = t.panels[s]
        /\ u.subject = t.subject /\ u.query = t.query /\ u.url = t.url /\ u.written = t.written
        /\ u.waiting = t.waiting /\ u.world = t.world /\ u.told = t.told /\ u.heard = t.heard /\ u.gate = t.gate
        /\ u.kept = w.kept
    BY <1>1, <1>3, <1>6, <1>f, <2>q DEF TabFields, Recorded
  <2>2. /\ PanelFields \subseteq DOMAIN panel /\ panel.no = t.panels[p].no /\ panel.of = t.panels[p].of
        /\ panel.due = t.panels[p].due /\ panel.excuse = t.panels[p].excuse /\ panel.last = c.no
        /\ \/ c.result = "failed" /\ panel.failed = TRUE /\ panel.at = t.panels[p].at
           \/ c.result = "ok" /\ l.guard = "untouched" /\ panel.shown = c.of /\ panel.at = t.panels[p].at
           \/ /\ c.result = "ok" /\ panel.shown = c.of /\ panel.at = 1..c.seen
              /\ l.guard = "untouched" => t.panels[p].due = {}
    <3>1. c.result \in {"ok", "failed"}
      BY <1>1
    <3>2. FilledAs(t.panels[p], c, l, panel)
      BY <2>p, <2>q, <3>1, FilledFields
    <3>3. QED BY <3>2 DEF FilledAs
  <2>3. Recorded(v, u)
    <3>1. \A s \in Loads(v) : PanelFields \subseteq DOMAIN u.panels[s]
      BY <1>r, <2>1, <2>2 DEF Recorded
    <3>2. QED BY <1>r, <2>1, <3>1 DEF Recorded
  <2>4. Dated(v, u)
    <3>1. ASSUME NEW s \in Loads(v) PROVE DatedPanel(v, u, s)
      <4>1. CASE s # p
        BY <1>r, <2>1, <4>1 DEF Dated, DatedPanel
      <4>2. CASE s = p
        <5>1. panel.due \subseteq u.heard /\ (l.guard = "untouched" => panel.due \subseteq panel.at)
          BY <1>4, <2>1, <2>2 DEF DatedPanel, l
        <5>2. QED BY <2>1, <4>2, <5>1 DEF DatedPanel, l
      <4>3. QED BY <4>1, <4>2
    <3>2. /\ \A e \in u.calls : DatedCall(u, e)
          /\ \A k \in u.kept : DatedAnswer(u, k)
      BY <1>3, <1>7, <2>1 DEF DatedCall, DatedAnswer
    <3>3. QED BY <1>3, <1>7, <2>1, <3>1, <3>2 DEF Dated
  <2>5. Numbered(v, u)
    <3>1. ASSUME NEW s \in Loads(v) PROVE NumberedPanel(u, s)
      <4>1. CASE s # p
        BY <1>r, <2>1, <4>1 DEF Numbered, NumberedPanel
      <4>2. CASE s = p
        BY <1>r, <1>5, <2>1, <2>2, <4>2 DEF Numbered, NumberedPanel
      <4>3. QED BY <4>1, <4>2
    <3>2. \A s \in Loads(v) : u.panels[s].no = t.panels[s].no /\ u.panels[s].of = t.panels[s].of
      BY <2>1, <2>2
    <3>3. ASSUME NEW e \in u.calls PROVE NumberedCall(v, u, e)
      <4>1. NumberedCall(v, t, e) /\ (e.kind = "load" => e.for \in Loads(v))
        BY <1>r, <2>1 DEF Numbered, Recorded
      <4>2. QED BY <2>1, <3>2, <4>1 DEF NumberedCall
    <3>4. QED BY <3>1, <3>3 DEF Numbered
  <2>6. Addressed(u)
    BY <1>r, <2>1 DEF Addressed
  <2>7. ASSUME NEW s \in Loads(v), s # p, s \notin l.then PROVE Good(v, u, s)
    <3>1. \A x \in Loads(v) : x # p => Same(v, t, u, x)
      BY <2>1 DEF Same
    <3>2. \A x \in Follows(v, s) : Same(v, t, u, x)
      BY <2>7, <3>1 DEF Follows, l
    <3>3. QED BY <1>r, <2>1, <2>7, <3>1, <3>2, SameGood
  <2>8. ASSUME NEW s \in l.then, c.result = "failed" PROVE Good(v, u, s)
    <3>1. p \in Follows(v, s) /\ u.panels[p].failed
      BY <1>1, <2>1, <2>2, <2>8 DEF Follows, l
    <3>2. QED BY <3>1 DEF Good, Live, Covered
  <2>9. ASSUME Live(v, u, p) PROVE IF Void(v, u, p) THEN Emptied(v, u, p) ELSE Settles(v, u, p)
    <3>1. \A x \in Follows(v, p) : x # p
      BY <1>s DEF Follows, l
    <3>2. Covered(v, t, p) => Covered(v, u, p)
      BY <2>1, <3>1 DEF Covered, Follows
    <3>3. Live(v, t, p)
      BY <2>1, <2>2, <2>9, <3>2 DEF Live
    <3>4. IF Void(v, t, p) THEN Emptied(v, t, p) ELSE Settles(v, t, p)
      BY <1>1, <1>r, <3>3 DEF Good
    <3>5. Void(v, t, p) <=> Void(v, u, p)
      BY <2>1 DEF Void
    <3>6. c.no # t.panels[p].no => l.guard \in {"none", "question", "untouched"}
      BY <1>s, <2>0
    <3>7. c.no # t.panels[p].no /\ l.guard = "none" => Stale(v, u, p)
      BY <2>1, <2>2 DEF Stale, l
    <3>8. ASSUME Void(v, t, p), Emptied(v, t, p) PROVE Emptied(v, u, p)
      <4>1. l.about = "subject" /\ t.subject = None
        BY <3>8 DEF Void, l
      <4>2. l.guard = "latest" \/ t.panels[p].of = None
        BY <3>8 DEF Emptied, l
      <4>3. l.guard # "untouched"
        BY <1>s, <4>1
      <4>4. CASE l.guard = "latest"
        BY <4>4 DEF Emptied, l
      <4>5. CASE l.guard # "latest" /\ c.result = "failed"
        BY <2>1, <2>2, <4>2, <4>5 DEF Emptied
      <4>6. CASE l.guard # "latest" /\ c.result = "ok"
        <5>1. panel.shown = c.of
          BY <2>2, <4>6
        <5>2. c.of = None \/ Stale(v, u, p)
          BY <1>5, <2>0, <3>6, <3>7, <4>1, <4>2, <4>3, <4>6
        <5>3. QED BY <2>1, <2>2, <4>2, <4>6, <5>1, <5>2 DEF Emptied
      <4>7. QED BY <1>1, <4>4, <4>5, <4>6
    <3>9. ASSUME Settles(v, t, p) PROVE Settles(v, u, p)
      <4>1. l.guard = "question" => t.panels[p].of = t.subject
        BY <1>s, <3>9 DEF Settles, l
      <4>2. Shows(v, u, p)
        <5>1. CASE c.result = "failed"
          BY <2>1, <2>2, <5>1 DEF Shows
        <5>2. CASE c.result = "ok" /\ l.guard = "untouched"
          <6>1. panel.shown = panel.of
            BY <1>5, <2>2, <5>2
          <6>2. panel.due \subseteq panel.at
            BY <1>4, <2>2, <5>2 DEF DatedPanel, l
          <6>3. QED BY <2>1, <6>1, <6>2 DEF Shows
        <5>3. CASE c.result = "ok" /\ l.guard # "untouched"
          <6>1. panel.shown = c.of /\ panel.at = 1..c.seen
            BY <2>2, <5>3
          <6>2. CASE l.guard = "none" /\ c.no # t.panels[p].no
            BY <3>7, <6>2 DEF Shows
          <6>3. CASE ~(l.guard = "none" /\ c.no # t.panels[p].no)
            <7>1. IF l.guard = "question" THEN c.of = t.subject ELSE c.no = t.panels[p].no
              BY <2>0, <3>6, <5>3, <6>3
            <7>2. Heeded(v, t, p, c)
              BY <1>1, <2>0, <7>1 DEF Heeded, l
            <7>3. t.panels[p].due \subseteq 1..c.seen
              BY <1>1, <3>9, <5>3, <7>2 DEF Settles, l
            <7>4. c.of = t.panels[p].of
              BY <1>5, <2>0, <4>1, <7>1
            <7>5. QED BY <2>1, <2>2, <6>1, <7>3, <7>4 DEF Shows
          <6>4. QED BY <6>2, <6>3
        <5>4. QED BY <1>1, <5>1, <5>2, <5>3
      <4>3. \A e \in u.calls : Heeded(v, u, p, e) => e \in t.calls /\ Heeded(v, t, p, e)
        BY <2>1, <2>2 DEF Heeded
      <4>4. QED BY <2>1, <2>2, <3>9, <4>2, <4>3 DEF Settles
    <3>10. QED BY <3>4, <3>5, <3>8, <3>9
  <2>10. Good(v, u, p)
    BY <2>9 DEF Good
  <2>11. CASE c.result = "failed"
    <3>1. \A s \in Loads(v) : Good(v, u, s)
      BY <2>7, <2>8, <2>10, <2>11
    <3>2. CurrentBut(v, u, {})
      BY <2>3, <2>4, <2>5, <2>6, <3>1 DEF CurrentBut
    <3>3. QED BY <1>2, <1>11, <2>11, <3>2
  <2>12. CASE c.result = "ok"
    <3>1. CurrentBut(v, u, l.then)
      BY <2>3, <2>4, <2>5, <2>6, <2>7, <2>10 DEF CurrentBut
    <3>2. IsFiniteSet(l.then)
      BY <1>s, FS_Subset DEF OkView, Refers, Loads
    <3>3. CurrentBut(v, AskAll(u, l.then), l.then \ With(l.then))
      BY <1>s, <3>1, <3>2, AskAllCurrent
    <3>4. l.then \ With(l.then) = {}
      BY DEF With
    <3>5. QED BY <1>2, <1>11, <2>12, <3>3, <3>4
  <2>13. QED BY <1>1, <2>11, <2>12
<1>12. QED BY <1>10, <1>11

----------------------------------------------------------------------------
(* What the user does *)

LEMMA OpenCurrent ==
  ASSUME OkView(Here), CurrentBut(Here, tab, {}), NEW f \in Forms(Here), Open(f) \/ Close(f)
  PROVE  CurrentBut(Here, tab', {})
<1>1. CASE Open(f)
  <2>1. PICK row : tab' = Show(tab, f, row)
    BY <1>1 DEF Open
  <2>2. QED BY <2>1, ShowCurrent
<1>2. CASE Close(f)
  <2>1. tab' = ShutAll(tab, {f})
    BY <1>2 DEF Close, Shut
  <2>2. QED BY <2>1, ShutCurrent
<1>3. QED BY <1>1, <1>2

LEMMA SubmitCurrent ==
  ASSUME OkView(Here), CurrentBut(Here, tab, {}), NEW f \in Forms(Here), Submit(f)
  PROVE  CurrentBut(Here, tab', {})
<1> DEFINE form == FormOf(f)
<1>1. PICK row :
        tab' = IF form.steps = <<>> THEN Lead(ShutAll(Reload(tab, form), {f} \cap Up(tab, form.layer)), form, row)
               ELSE IF form.gate
               THEN [tab EXCEPT !.asked = @ + 1,
                                !.calls = @ \cup {[CallOf(f, row) EXCEPT !.kind = "preview", !.no = tab.asked + 1]}]
               ELSE Send(tab, f, CallOf(f, row))
  BY DEF Submit, CallOf
<1>2. TabFields \subseteq DOMAIN tab /\ (tab.gate # None => tab.gate.done \subseteq tab.heard)
  BY DEF CurrentBut, Recorded, Dated
<1>3. CallFields \subseteq DOMAIN CallOf(f, row) /\ CallOf(f, row).for = f /\ CallOf(f, row).done = {}
  BY DEF CallOf, Request, CallFields
<1>4. CASE form.steps = <<>>
  <2>1. CurrentBut(Here, tab, Asked(form))
    BY CurrentMore
  <2>2. CurrentBut(Here, Reload(tab, form), {})
    BY <2>1, ReloadCurrent
  <2>3. CurrentBut(Here, ShutAll(Reload(tab, form), {f} \cap Up(tab, form.layer)), {})
    BY <2>2, ShutCurrent
  <2>4. QED BY <1>1, <1>4, <2>3, LeadCurrent
<1>5. CASE form.steps # <<>> /\ form.gate
  <2>c. PICK c : c = [CallOf(f, row) EXCEPT !.kind = "preview", !.no = tab.asked + 1]
    OBVIOUS
  <2>1. CallFields \subseteq DOMAIN c /\ c.kind = "preview" /\ c.for = f /\ c.done = {}
    BY <1>3, <2>c DEF CallFields
  <2>2. tab' = [tab EXCEPT !.asked = @ + 1, !.calls = @ \cup {c}]
    BY <1>1, <1>5, <2>c
  <2>3. /\ TabFields \subseteq DOMAIN tab' /\ tab'.calls = tab.calls \cup {c} /\ tab'.asked = tab.asked + 1
        /\ tab'.panels = tab.panels /\ Beside(tab, tab')
    BY <1>2, <2>2 DEF TabFields, Beside
  <2>4. NoLoad(Here, tab, c)
    BY <2>1 DEF NoLoad
  <2>5. Apart(Here, tab, tab')
    BY <1>2, <2>3, <2>4 DEF Apart, Beside
  <2>6. QED BY <2>5, ApartCurrent
<1>6. CASE form.steps # <<>> /\ ~form.gate
  BY <1>1, <1>3, <1>6, SendCurrent
<1>7. QED BY <1>4, <1>5, <1>6

LEMMA GateCurrent ==
  ASSUME OkView(Here), IsTab(Here, tab), CurrentBut(Here, tab, {}), Confirm \/ Cancel
  PROVE  CurrentBut(Here, tab', {})
<1>t. PICK t : t = [tab EXCEPT !.gate = None]
  OBVIOUS
<1>1. TabFields \subseteq DOMAIN tab /\ (tab.gate # None => tab.gate.done \subseteq tab.heard)
  BY DEF CurrentBut, Recorded, Dated
<1>2. CurrentBut(Here, t, {}) /\ t.heard = tab.heard
  BY <1>1, <1>t, GatedCurrent DEF TabFields
<1>3. CASE Confirm
  <2>c. PICK over, call : call = [tab.gate EXCEPT !.over = over, !.told = IF over THEN tab.gate.of ELSE None]
                          /\ tab' = Send(t, tab.gate.for, call)
    BY <1>3, <1>t DEF Confirm
  <2>1. CallFields \subseteq DOMAIN tab.gate /\ tab.gate.for \in Forms(Here) /\ tab.gate # None
    BY <1>3 DEF Confirm, IsTab, IsCall
  <2>2. CallFields \subseteq DOMAIN call /\ call.for = tab.gate.for /\ call.done = tab.gate.done
    BY <2>c, <2>1 DEF CallFields
  <2>3. call.done \subseteq t.heard
    BY <1>1, <1>2, <2>1, <2>2
  <2>4. QED BY <1>2, <2>c, <2>1, <2>2, <2>3, SendCurrent
<1>4. CASE Cancel
  BY <1>2, <1>4, <1>t DEF Cancel
<1>5. QED BY <1>3, <1>4

LEMMA PreviewedCurrent ==
  ASSUME OkView(Here), CurrentBut(Here, tab, {}), NEW c \in tab.calls, Previewed(c)
  PROVE  CurrentBut(Here, tab', {})
<1>w. PICK w : w = Taken(c)
  OBVIOUS
<1>1. Recorded(Here, tab) /\ DatedCall(tab, c) /\ c.kind = "preview"
  BY DEF CurrentBut, Dated, Previewed, Arrives
<1>2. CallFields \subseteq DOMAIN c /\ c.for \in Forms(Here) /\ c.done \subseteq tab.heard
  BY <1>1 DEF Recorded, DatedCall
<1>3. tab' = IF c.result = "ok" THEN Send(w, c.for, c) ELSE IF Gone(tab, c) THEN w ELSE [w EXCEPT !.gate = c]
  BY <1>w DEF Previewed
<1>4. CurrentBut(Here, w, {}) /\ w.heard = tab.heard
  BY <1>1, <1>w, TakenCurrent DEF Beside
<1>5. CASE c.result = "ok"
  <2>1. CurrentBut(Here, Send(w, c.for, c), {})
    BY <1>2, <1>4, SendCurrent
  <2>2. QED BY <1>3, <1>5, <2>1
<1>6. CurrentBut(Here, [w EXCEPT !.gate = c], {})
  BY <1>2, <1>4, GatedCurrent
<1>7. QED BY <1>3, <1>4, <1>5, <1>6

----------------------------------------------------------------------------
(* Questions that change *)

\* The panels are of what they were, and what is asked about is another thing now.
Aimed(v, t, u, but) ==
  /\ TabFields \subseteq DOMAIN u /\ u.calls = t.calls /\ u.panels = t.panels /\ u.asked = t.asked
  /\ u.world = t.world /\ u.told = t.told /\ u.heard = t.heard /\ u.gate = t.gate /\ u.kept = t.kept
  /\ Addressed(u)
  /\ \A p \in Loads(v) \ but :
       /\ v.loads[p].guard = "question" => u.subject = t.subject
       /\ v.loads[p].about \in {"subject", "filter"} /\ (p \in v.mounts \/ Follows(v, p) # {}) => u.subject = t.subject
       /\ v.loads[p].about = "query" /\ ~u.waiting => u.query = t.query /\ ~t.waiting

LEMMA AimedCurrent ==
  ASSUME NEW v, NEW t, CurrentBut(v, t, {}), NEW u, NEW but, Aimed(v, t, u, but)
  PROVE  CurrentBut(v, u, but)
<1>r. Recorded(v, t) /\ Dated(v, t) /\ Numbered(v, t) /\ \A s \in Loads(v) : Good(v, t, s)
  BY DEF CurrentBut
<1>1. /\ TabFields \subseteq DOMAIN u /\ u.calls = t.calls /\ u.panels = t.panels /\ u.asked = t.asked
      /\ u.world = t.world /\ u.told = t.told /\ u.heard = t.heard /\ u.gate = t.gate /\ u.kept = t.kept /\ Addressed(u)
  BY DEF Aimed
<1>2. Recorded(v, u)
  BY <1>r, <1>1 DEF Recorded
<1>3. Dated(v, u)
  BY <1>r, <1>1 DEF Dated, DatedCall, DatedAnswer, DatedPanel
<1>4. Numbered(v, u)
  BY <1>r, <1>1 DEF Numbered, NumberedPanel, NumberedCall
<1>5. ASSUME NEW s \in Loads(v) \ but PROVE Good(v, u, s)
  <2>1. /\ v.loads[s].guard = "question" => u.subject = t.subject
        /\ v.loads[s].about \in {"subject", "filter"} /\ (s \in v.mounts \/ Follows(v, s) # {}) => u.subject = t.subject
        /\ v.loads[s].about = "query" /\ ~u.waiting => u.query = t.query /\ ~t.waiting
    BY <1>5 DEF Aimed
  <2>2. Live(v, u, s) => Live(v, t, s)
    BY <1>1 DEF Live, Covered
  <2>3. Void(v, u, s) <=> Void(v, t, s)
    BY <2>1 DEF Void
  <2>4. Emptied(v, t, s) => Emptied(v, u, s)
    BY <1>1 DEF Emptied, Stale
  <2>5. Shows(v, t, s) => Shows(v, u, s)
    BY <1>1 DEF Shows, Stale
  <2>6. \A c : Heeded(v, u, s, c) => Heeded(v, t, s, c)
    BY <1>1, <2>1 DEF Heeded
  <2>7. Settles(v, t, s) => Settles(v, u, s)
    BY <1>1, <2>1, <2>5, <2>6 DEF Settles
  <2>8. Good(v, t, s)
    BY <1>r
  <2>9. QED BY <2>2, <2>3, <2>4, <2>7, <2>8 DEF Good
<1>6. QED BY <1>1, <1>2, <1>3, <1>4, <1>5 DEF CurrentBut

\* The panels of the section are asked about the next one, and what follows them by their answers.
LEMMA SwitchCurrent ==
  ASSUME OkView(Here), CurrentBut(Here, tab, {}), NEW s, Switch(s)
  PROVE  CurrentBut(Here, tab', {})
<1> DEFINE v == Here
           ps == {p \in Here.mounts: LoadOf(p).about \in {"subject", "filter"}}
<1>w. PICK w : w = [tab EXCEPT !.subject = s]
  OBVIOUS
<1>1. tab' = AskAll(w, ps)
  BY <1>w DEF Switch
<1>2. ps \subseteq Loads(v) /\ IsFiniteSet(ps)
  <2>1. ps \subseteq Here.mounts /\ Here.mounts \subseteq Loads(v) /\ IsFiniteSet(Loads(v))
    BY DEF OkView, Refers, Loads
  <2> HIDE DEF ps
  <2>2. QED BY <2>1, FS_Subset
<1>3. TabFields \subseteq DOMAIN tab /\ Addressed(tab)
  BY DEF CurrentBut, Recorded
<1>4. /\ TabFields \subseteq DOMAIN w /\ w.calls = tab.calls /\ w.panels = tab.panels /\ w.asked = tab.asked
      /\ w.world = tab.world /\ w.told = tab.told /\ w.heard = tab.heard /\ w.gate = tab.gate /\ w.kept = tab.kept
      /\ w.query = tab.query /\ w.url = tab.url /\ w.written = tab.written /\ w.waiting = tab.waiting
  BY <1>3, <1>w DEF TabFields
<1>5. Addressed(w)
  BY <1>3, <1>4 DEF Addressed
<1>6. ASSUME NEW p \in Loads(v) \ With(ps)
      PROVE  v.loads[p].guard # "question"
             /\ ~(v.loads[p].about \in {"subject", "filter"} /\ (p \in v.mounts \/ Follows(v, p) # {}))
  <2>1. p \notin ps
    BY DEF With
  <2>2. v.loads[p].about \in {"subject", "filter"} => p \notin v.mounts
    BY <2>1 DEF LoadOf
  <2>3. ASSUME NEW x \in Follows(v, p) PROVE FALSE
    <3>1. x \in Loads(v) /\ p \in v.loads[x].then
      BY DEF Follows
    <3>2. v.loads[x].about = "filter" /\ x \in v.mounts
      BY <3>1, SettleFacts
    <3>3. x \in ps
      BY <3>2 DEF LoadOf
    <3> HIDE DEF ps
    <3>4. QED BY <1>6, <3>1, <3>3 DEF With, LoadOf
  <2>4. v.loads[p].guard = "question" => v.loads[p].about \in {"subject", "filter"} /\ p \in v.mounts
    BY SettleFacts
  <2>5. QED BY <2>2, <2>3, <2>4
<1> HIDE DEF ps
<1>7. Aimed(v, tab, w, With(ps))
  BY <1>4, <1>5, <1>6 DEF Aimed
<1>8. CurrentBut(v, w, With(ps))
  BY <1>7, AimedCurrent
<1>9. CurrentBut(v, AskAll(w, ps), With(ps) \ With(ps))
  BY <1>2, <1>8, AskAllCurrent
<1>10. With(ps) \ With(ps) = {}
  OBVIOUS
<1>11. QED BY <1>1, <1>9, <1>10

\* The list asks for what its address says.
LEMMA ListCurrent ==
  ASSUME OkView(Here), CurrentBut(Here, tab, {}), Here.list \in Loads(Here),
         NEW w, TabFields \subseteq DOMAIN w, w.calls = tab.calls, w.panels = tab.panels, w.asked = tab.asked,
         w.world = tab.world, w.told = tab.told, w.heard = tab.heard, w.gate = tab.gate, w.kept = tab.kept,
         w.subject = tab.subject, Addressed(w)
  PROVE  CurrentBut(Here, AskOne(w, Here.list), {})
<1>1. \A p \in Loads(Here) : Here.loads[p].about = "query" => p = Here.list
  BY SettleFacts
<1>2. Aimed(Here, tab, w, {Here.list})
  BY <1>1 DEF Aimed
<1>3. CurrentBut(Here, w, {Here.list})
  BY <1>2, AimedCurrent
<1>4. CurrentBut(Here, AskOne(w, Here.list), {Here.list} \ ({Here.list} \cup LoadOf(Here.list).then))
  BY <1>3, AskOneCurrent
<1>5. {Here.list} \ ({Here.list} \cup LoadOf(Here.list).then) = {}
  OBVIOUS
<1>6. QED BY <1>4, <1>5

LEMMA CommitCurrent ==
  ASSUME OkView(Here), CurrentBut(Here, tab, {}), Here.list \in Loads(Here), NEW q
  PROVE  CurrentBut(Here, Commit(tab, q), {})
<1>w. PICK w : w = [tab EXCEPT !.query = q, !.url = q, !.waiting = FALSE, !.written = IF q = tab.url THEN @ ELSE q]
  OBVIOUS
<1>1. TabFields \subseteq DOMAIN tab /\ Addressed(tab)
  BY DEF CurrentBut, Recorded
<1>2. /\ TabFields \subseteq DOMAIN w /\ w.calls = tab.calls /\ w.panels = tab.panels /\ w.asked = tab.asked
      /\ w.world = tab.world /\ w.told = tab.told /\ w.heard = tab.heard /\ w.gate = tab.gate /\ w.kept = tab.kept
      /\ w.subject = tab.subject /\ w.query = q /\ w.url = q /\ w.waiting = FALSE
      /\ w.written = IF q = tab.url THEN tab.written ELSE q
  BY <1>1, <1>w DEF TabFields
<1>3. Addressed(w)
  BY <1>1, <1>2 DEF Addressed
<1>4. Commit(tab, q) = AskOne(w, Here.list)
  BY <1>w DEF Commit
<1>5. QED BY <1>2, <1>3, <1>4, ListCurrent

LEMMA TravelCurrent ==
  ASSUME OkView(Here), CurrentBut(Here, tab, {}), NEW u, Travel(u)
  PROVE  CurrentBut(Here, tab', {})
<1>w. PICK w : w = [tab EXCEPT !.url = u, !.query = u, !.written = u]
  OBVIOUS
<1>1. TabFields \subseteq DOMAIN tab /\ Addressed(tab)
  BY DEF CurrentBut, Recorded
<1>2. Here.list \in Loads(Here)
  BY DEF Travel, OkView, Refers, Loads
<1>3. u # tab.written
  BY <1>1 DEF Travel, Addressed
<1>4. tab' = AskOne(w, Here.list)
  BY <1>w, <1>3 DEF Travel
<1>5. /\ TabFields \subseteq DOMAIN w /\ w.calls = tab.calls /\ w.panels = tab.panels /\ w.asked = tab.asked
      /\ w.world = tab.world /\ w.told = tab.told /\ w.heard = tab.heard /\ w.gate = tab.gate /\ w.kept = tab.kept
      /\ w.subject = tab.subject /\ w.query = u /\ w.url = u /\ w.written = u
  BY <1>1, <1>w DEF TabFields
<1>6. Addressed(w)
  BY <1>5 DEF Addressed
<1>7. QED BY <1>2, <1>4, <1>5, <1>6, ListCurrent

\* What is typed is not asked for yet.
LEMMA TypedCurrent ==
  ASSUME CurrentBut(Here, tab, {}), NEW term, Typed(term)
  PROVE  CurrentBut(Here, tab', {})
<1>1. TabFields \subseteq DOMAIN tab /\ Addressed(tab)
  BY DEF CurrentBut, Recorded
<1>2. tab' = [tab EXCEPT !.query = <<term, 1>>, !.waiting = TRUE]
  BY DEF Typed
<1>3. /\ TabFields \subseteq DOMAIN tab' /\ tab'.calls = tab.calls /\ tab'.panels = tab.panels /\ tab'.asked = tab.asked
      /\ tab'.world = tab.world /\ tab'.told = tab.told /\ tab'.heard = tab.heard /\ tab'.gate = tab.gate /\ tab'.kept = tab.kept
      /\ tab'.subject = tab.subject /\ tab'.url = tab.url /\ tab'.written = tab.written /\ tab'.waiting = TRUE
  BY <1>1, <1>2 DEF TabFields
<1>4. Addressed(tab')
  BY <1>1, <1>3 DEF Addressed
<1>5. Aimed(Here, tab, tab', {})
  BY <1>3, <1>4 DEF Aimed
<1>6. QED BY <1>5, AimedCurrent

\* What is loaded ahead fills no panel.
LEMMA PrefetchCurrent ==
  ASSUME OkView(Here), CurrentBut(Here, tab, {}), NEW p \in Loads(Here), NEW row, Prefetch(p, row)
  PROVE  CurrentBut(Here, tab', {})
<1> DEFINE v == Here
           t == tab
<1>r. Recorded(v, t) /\ Dated(v, t) /\ Numbered(v, t) /\ Addressed(t) /\ \A s \in Loads(v) : Good(v, t, s)
  BY DEF CurrentBut
<1>c. PICK c : c = [Request EXCEPT !.for = p, !.of = row, !.gen = t.told]
  OBVIOUS
<1>w. PICK u : u = tab'
  OBVIOUS
<1>1. u = [t EXCEPT !.calls = @ \cup {c}]
  BY <1>c, <1>w DEF Prefetch
<1>2. /\ CallFields \subseteq DOMAIN c /\ c.kind = "load" /\ c.for = p /\ c.no = 0 /\ c.gen = t.told
      /\ c.result = "" /\ c.done = {}
  BY <1>c DEF Request, CallFields
<1>3. v.loads[p].kept
  BY DEF Prefetch, LoadOf
<1>4. v.loads[p].then = {} /\ v.loads[p].guard # "untouched"
  BY <1>3, SettleFacts
<1>5. /\ TabFields \subseteq DOMAIN u /\ u.calls = t.calls \cup {c} /\ u.panels = t.panels /\ u.asked = t.asked /\ Beside(t, u)
  BY <1>r, <1>1 DEF Recorded, TabFields, Beside
<1>6. Recorded(v, u)
  BY <1>r, <1>2, <1>5 DEF Recorded, Beside
<1>7. Dated(v, u)
  <2>1. DatedCall(u, c)
    <3>1. PICK n \in Nat : n = t.told
      BY <1>r DEF Recorded
    <3>2. \A i \in Nat : i <= i
      OBVIOUS
    <3>3. c.gen = n /\ u.told = n
      BY <1>2, <1>5, <3>1 DEF Beside
    <3>4. c.gen \in Nat /\ c.gen <= u.told
      BY <3>2, <3>3
    <3>5. QED BY <1>2, <3>4 DEF DatedCall
  <2>2. ASSUME NEW d \in u.calls PROVE DatedCall(u, d)
    BY <1>r, <1>5, <2>1 DEF Dated, DatedCall, Beside
  <2>3. QED BY <1>r, <1>5, <2>2 DEF Dated, DatedAnswer, DatedPanel, Beside
<1>8. Numbered(v, u)
  <2>1. NumberedCall(v, u, c)
    <3>1. PICK n \in Nat : n = t.asked
      BY <1>r DEF Recorded
    <3>2. 0 \in Nat /\ 0 <= u.asked
      BY <1>5, <3>1
    <3>3. QED BY <1>2, <1>4, <3>2 DEF NumberedCall
  <2>2. QED BY <1>r, <1>5, <2>1 DEF Numbered, NumberedPanel, NumberedCall
<1>9. Addressed(u)
  BY <1>r, <1>5 DEF Addressed, Beside
<1>10. ASSUME NEW s \in Loads(v) PROVE Good(v, u, s)
  <2>1. Live(v, u, s) => Live(v, t, s)
    BY <1>5 DEF Live, Covered
  <2>2. (Void(v, u, s) <=> Void(v, t, s)) /\ (Emptied(v, t, s) => Emptied(v, u, s))
    BY <1>5 DEF Void, Emptied, Stale, Beside
  <2>3. Shows(v, t, s) => Shows(v, u, s)
    BY <1>5 DEF Shows, Stale
  <2>4. \A d \in u.calls : Heeded(v, u, s, d) => d \in t.calls /\ Heeded(v, t, s, d)
    BY <1>2, <1>5 DEF Heeded, Beside
  <2>5. Settles(v, t, s) => Settles(v, u, s)
    BY <1>5, <2>3, <2>4 DEF Settles, Beside
  <2>6. Good(v, t, s)
    BY <1>r
  <2>7. QED BY <2>1, <2>2, <2>5, <2>6 DEF Good
<1>11. CurrentBut(v, u, {})
  BY <1>6, <1>7, <1>8, <1>9, <1>10 DEF CurrentBut
<1>12. QED BY <1>w, <1>11

LEMMA AskingCurrent ==
  ASSUME OkView(Here), CurrentBut(Here, tab, {}), IsTab(Here, tab),
         \/ \E p \in Loads(Here) : Tick(p) \/ \E row : Prefetch(p, row)
         \/ \E term : Typed(term)
         \/ \E page : Turn(page)
         \/ DebounceFires
         \/ \E u : Travel(u)
         \/ \E k : Forget(k)
  PROVE  CurrentBut(Here, tab', {})
<1>1. ASSUME NEW p \in Loads(Here), Tick(p) PROVE CurrentBut(Here, tab', {})
  <2>1. CurrentBut(Here, AskOne(tab, p), {} \ ({p} \cup LoadOf(p).then))
    BY AskOneCurrent
  <2>2. {} \ ({p} \cup LoadOf(p).then) = {} /\ tab' = AskOne(tab, p)
    BY <1>1 DEF Tick
  <2>3. QED BY <2>1, <2>2
<1>2. ASSUME NEW p \in Loads(Here), NEW row, Prefetch(p, row) PROVE CurrentBut(Here, tab', {})
  BY <1>2, PrefetchCurrent
<1>3. ASSUME NEW term, Typed(term) PROVE CurrentBut(Here, tab', {})
  BY <1>3, TypedCurrent
<1>4. ASSUME NEW page, Turn(page) PROVE CurrentBut(Here, tab', {})
  <2>1. Here.list \in Loads(Here)
    BY <1>4 DEF Turn, OkView, Refers, Loads
  <2>2. QED BY <1>4, <2>1, CommitCurrent DEF Turn
<1>5. ASSUME DebounceFires PROVE CurrentBut(Here, tab', {})
  BY <1>5, CommitCurrent DEF DebounceFires, IsTab
<1>6. ASSUME NEW u, Travel(u) PROVE CurrentBut(Here, tab', {})
  BY <1>6, TravelCurrent
<1>7. ASSUME NEW k, Forget(k) PROVE CurrentBut(Here, tab', {})
  <2>1. TabFields \subseteq DOMAIN tab /\ (tab.gate # None => tab.gate.done \subseteq tab.heard)
    BY DEF CurrentBut, Recorded, Dated
  <2>2. tab' = [tab EXCEPT !.kept = @ \ {k}]
    BY <1>7 DEF Forget
  <2>3. /\ TabFields \subseteq DOMAIN tab' /\ tab'.calls = tab.calls /\ tab'.panels = tab.panels /\ tab'.asked = tab.asked
        /\ tab'.subject = tab.subject /\ tab'.query = tab.query /\ tab'.url = tab.url /\ tab'.written = tab.written
        /\ tab'.waiting = tab.waiting /\ tab'.world = tab.world /\ tab'.told = tab.told /\ tab'.heard = tab.heard
        /\ tab'.gate = tab.gate /\ tab'.kept \subseteq tab.kept
    BY <2>1, <2>2 DEF TabFields
  <2>4. Apart(Here, tab, tab')
    BY <2>1, <2>3 DEF Apart
  <2>5. QED BY <2>4, ApartCurrent
<1>8. QED BY <1>1, <1>2, <1>3, <1>4, <1>5, <1>6, <1>7

----------------------------------------------------------------------------
(* Panels stay current *)

\* The inductive invariant.
PanelInv == FlagInv /\ CurrentBut(Here, tab, {})

LEMMA FreshIsCurrent ==
  ASSUME OkView(Here), NEW s, NEW q
  PROVE  CurrentBut(Here, Fresh(s, q), {})
<1>t. PICK t : t = [calls |-> {}, up |-> {}, gate |-> None, subject |-> s, query |-> q, url |-> q, written |-> q,
                    waiting |-> FALSE, world |-> 0, told |-> 0, heard |-> {}, kept |-> {}, asked |-> 0,
                    panels |-> [p \in DOMAIN Here.loads |-> Panel],
                    forms |-> [f \in DOMAIN Here.forms |->
                                 [up |-> FormOf(f).opens \in {"always", "keyed"}, row |-> None, opening |-> 0]]]
  OBVIOUS
<1>1. /\ TabFields \subseteq DOMAIN t /\ t.calls = {} /\ t.gate = None /\ t.kept = {} /\ t.heard = {}
      /\ t.world = 0 /\ t.told = 0 /\ t.asked = 0 /\ t.query = q /\ t.url = q /\ t.written = q
      /\ t.panels = [p \in Loads(Here) |-> Panel]
  BY <1>t DEF TabFields, Loads
<1>2. PanelFields \subseteq DOMAIN Panel /\ Panel.no = 0 /\ Panel.last = 0 /\ Panel.due = {}
  BY DEF Panel, PanelFields
<1>3. DOMAIN t.panels = Loads(Here) /\ \A p \in Loads(Here) : t.panels[p] = Panel
  BY <1>1
<1>4. 0 \in Nat /\ 0 <= 0
  OBVIOUS
<1>5. Recorded(Here, t)
  BY <1>1, <1>2, <1>3, <1>4 DEF Recorded
<1>6. Dated(Here, t)
  BY <1>1, <1>2, <1>3 DEF Dated, DatedPanel
<1>7. Numbered(Here, t)
  BY <1>1, <1>2, <1>3, <1>4 DEF Numbered, NumberedPanel
<1>8. Addressed(t)
  BY <1>1 DEF Addressed
<1>9. \A p \in Loads(Here) : Good(Here, t, p)
  BY <1>2, <1>3 DEF Good, Live
<1>10. CurrentBut(Here, t, {})
  BY <1>5, <1>6, <1>7, <1>8, <1>9 DEF CurrentBut
<1>11. Here.mounts \subseteq Loads(Here) /\ IsFiniteSet(Here.mounts)
  BY FS_Subset DEF OkView, Refers, Loads
<1>12. CurrentBut(Here, AskAll(t, Here.mounts), {} \ With(Here.mounts))
  BY <1>10, <1>11, AskAllCurrent
<1>13. Fresh(s, q) = AskAll(t, Here.mounts) /\ {} \ With(Here.mounts) = {}
  BY <1>t DEF Fresh
<1>14. QED BY <1>12, <1>13

LEMMA PanelInvInit == TabInit => PanelInv
<1> SUFFICES ASSUME TabInit PROVE PanelInv
  OBVIOUS
<1>1. FlagInv
  BY FlagInvInit
<1>2. PICK s, q : tab = Fresh(s, q)
  BY DEF TabInit
<1>3. OkView(Here)
  BY <1>1, HereIsOk DEF FlagInv, TabInv
<1>4. QED BY <1>1, <1>2, <1>3, FreshIsCurrent DEF PanelInv

LEMMA PanelInvNext == PanelInv /\ [TabNext]_tabVars => PanelInv'
<1> SUFFICES ASSUME PanelInv, [TabNext]_tabVars PROVE PanelInv'
  OBVIOUS
<1>1. FlagInv /\ IsTab(Here, tab) /\ CurrentBut(Here, tab, {}) /\ OkView(Here)
  BY HereIsOk DEF PanelInv, FlagInv, TabInv, Meant, MeantBut
<1>2. FlagInv'
  BY <1>1, FlagInvNext
<1>3. DOMAIN tab.forms = Forms(Here)
  BY <1>1 DEF IsTab
<1>4. SUFFICES screen' = screen /\ CurrentBut(Here, tab', {})
  BY <1>2 DEF PanelInv, Here
<1>5. CASE UNCHANGED tabVars
  BY <1>1, <1>5 DEF tabVars
<1>6. ASSUME NEW f \in DOMAIN tab.forms, Open(f) \/ Close(f) PROVE screen' = screen /\ CurrentBut(Here, tab', {})
  BY <1>1, <1>3, <1>6, OpenCurrent DEF Open, Close, Does
<1>7. ASSUME NEW f \in DOMAIN tab.forms, Submit(f) PROVE screen' = screen /\ CurrentBut(Here, tab', {})
  BY <1>1, <1>3, <1>7, SubmitCurrent DEF Submit, Does
<1>8. CASE Confirm \/ Cancel
  BY <1>1, <1>8, GateCurrent DEF Confirm, Cancel
<1>9. ASSUME NEW s, Switch(s) PROVE screen' = screen /\ CurrentBut(Here, tab', {})
  BY <1>1, <1>9, SwitchCurrent DEF Switch, Does
<1>10. ASSUME NEW p \in Loads(Here), Tick(p) \/ \E row : Prefetch(p, row)
       PROVE  screen' = screen /\ CurrentBut(Here, tab', {})
  BY <1>1, <1>10, AskingCurrent DEF Tick, Prefetch, Does
<1>11. ASSUME NEW term, Typed(term) PROVE screen' = screen /\ CurrentBut(Here, tab', {})
  BY <1>1, <1>11, AskingCurrent DEF Typed, Does
<1>12. ASSUME NEW page, Turn(page) PROVE screen' = screen /\ CurrentBut(Here, tab', {})
  BY <1>1, <1>12, AskingCurrent DEF Turn, Does
<1>13. CASE DebounceFires
  BY <1>1, <1>13, AskingCurrent DEF DebounceFires
<1>14. ASSUME NEW u, Travel(u) PROVE screen' = screen /\ CurrentBut(Here, tab', {})
  BY <1>1, <1>14, AskingCurrent DEF Travel, Does
<1>15. ASSUME NEW c \in tab.calls, Serve(c) PROVE screen' = screen /\ CurrentBut(Here, tab', {})
  BY <1>1, <1>15, ServeCurrent DEF Serve
<1>16. ASSUME NEW c \in tab.calls, LoadAnswered(c) PROVE screen' = screen /\ CurrentBut(Here, tab', {})
  BY <1>1, <1>16, LoadAnsweredCurrent DEF LoadAnswered, Arrives
<1>17. ASSUME NEW c \in tab.calls, Previewed(c) PROVE screen' = screen /\ CurrentBut(Here, tab', {})
  BY <1>1, <1>17, PreviewedCurrent DEF Previewed, Arrives
<1>18. ASSUME NEW c \in tab.calls, Written(c) PROVE screen' = screen /\ CurrentBut(Here, tab', {})
  BY <1>1, <1>18, WrittenCurrent DEF Written, Arrives
<1>19. ASSUME NEW k, Forget(k) PROVE screen' = screen /\ CurrentBut(Here, tab', {})
  BY <1>1, <1>19, AskingCurrent DEF Forget
<1>20. QED
  BY <1>5, <1>6, <1>7, <1>8, <1>9, <1>10, <1>11, <1>12, <1>13, <1>14, <1>15, <1>16, <1>17, <1>18, <1>19 DEF TabNext, Loads

\* With nothing in flight for a panel nor for what it follows, what it was to come to is what it shows.
LEMMA CurrentSettles == PanelInv => SettledPanelsAreCurrent
<1> SUFFICES ASSUME PanelInv PROVE SettledPanelsAreCurrent
  OBVIOUS
<1> DEFINE v == Here
           t == tab
<1>r. Recorded(v, t) /\ Dated(v, t) /\ Numbered(v, t) /\ Addressed(t) /\ \A s \in Loads(v) : Good(v, t, s)
  BY DEF PanelInv, CurrentBut
<1>o. OkView(v)
  BY HereIsOk DEF PanelInv, FlagInv, TabInv
<1>1. DOMAIN t.panels = Loads(v)
  BY <1>r DEF Recorded
<1>2. \A p : Leaders(p) = Follows(v, p)
  BY <1>1 DEF Leaders, Follows, LoadOf
<1>3. \A k \in t.kept : k.gen = t.told => t.heard \subseteq 1..k.seen
  BY <1>r DEF Dated, DatedAnswer
<1>4. ASSUME NEW p \in Loads(v), t.panels[p].no > 0, InFlight(t, {p} \cup Leaders(p)) = {}, ~Excused(p)
      PROVE  IF v.loads[p].about = "subject" /\ t.subject = None /\ Followed(p)
             THEN v.loads[p].guard = "latest" \/ t.panels[p].shown = None
             ELSE /\ t.panels[p].shown = t.panels[p].of /\ t.panels[p].due \subseteq t.panels[p].at
                  /\ v.loads[p].about \in {"subject", "filter"} /\ Followed(p) => t.panels[p].of = t.subject
                  /\ v.loads[p].about = "query" /\ ~t.waiting => t.panels[p].of = t.query /\ t.query = t.url
  <2>1. t.panels[p].excuse = "" /\ ~Stale(v, t, p) /\ ~t.panels[p].failed /\ \A x \in Follows(v, p) : ~t.panels[x].failed
    BY <1>2, <1>4 DEF Excused, Overtaken, Missed, Stale, LoadOf
  <2>2. \A c \in t.calls : c.kind = "load" => c.for # p /\ c.for \notin Follows(v, p)
    BY <1>2, <1>4 DEF InFlight
  <2>3. t.panels[p].no # 0
    <3>1. t.panels[p].no \in Nat
      BY <1>r DEF Numbered, NumberedPanel
    <3>2. QED BY <1>4, <3>1
  <2>4. Live(v, t, p)
    BY <2>1, <2>2, <2>3 DEF Live, Covered
  <2>5. IF Void(v, t, p) THEN Emptied(v, t, p) ELSE Settles(v, t, p)
    BY <1>r, <2>4 DEF Good
  <2>6. Followed(p) <=> p \in v.mounts \/ Follows(v, p) # {}
    BY <1>2 DEF Followed
  <2>7. Void(v, t, p) <=> v.loads[p].about = "subject" /\ t.subject = None /\ Followed(p)
    BY <2>6 DEF Void
  <2>8. CASE Void(v, t, p)
    <3>1. v.loads[p].guard = "latest" \/ t.panels[p].shown = None
      BY <2>1, <2>5, <2>8 DEF Emptied
    <3>2. QED BY <2>7, <2>8, <3>1
  <2>9. CASE ~Void(v, t, p)
    <3>1. Settles(v, t, p)
      BY <2>5, <2>9
    <3>2. t.panels[p].shown = t.panels[p].of /\ t.panels[p].due \subseteq t.panels[p].at
      BY <2>1, <2>2, <3>1 DEF Settles, Shows
    <3>3. /\ v.loads[p].about \in {"subject", "filter"} /\ Followed(p) => t.panels[p].of = t.subject
          /\ v.loads[p].about = "query" /\ ~t.waiting => t.panels[p].of = t.query
      BY <2>6, <3>1 DEF Settles
    <3>4. ~t.waiting => t.query = t.url
      BY <1>r DEF Addressed
    <3>5. QED BY <2>7, <2>9, <3>2, <3>3, <3>4
  <2>10. QED BY <2>8, <2>9
<1>5. QED BY <1>1, <1>3, <1>4 DEF SettledPanelsAreCurrent, LoadOf

\* However answers overtake each other, and whatever is asked, aborted, kept, typed or saved meanwhile, for
\* every view that keeps to the conventions, a panel that nothing is in flight for shows the answer to its
\* last question and every write that changes it, whether the form that made the write loads it again or
\* not; excused are answers nothing guards, and panels a form is declared to miss.
THEOREM PanelsStayCurrent == TabSpec => []SettledPanelsAreCurrent
<1>1. PanelInv /\ [TabNext]_tabVars => PanelInv'
  BY PanelInvNext
<1>2. QED BY <1>1, PanelInvInit, CurrentSettles, PTL DEF TabSpec

----------------------------------------------------------------------------
(* Filters *)

LEMMA RequestFacts ==
  ASSUME NEW q \in ListRequests
  PROVE  /\ q.pages \subseteq Int \cup {Blank, Bad} /\ q.query.limit \in Int \cup {Blank, Bad}
         /\ IsFiniteSet(q.rows) /\ \A r, s \in q.rows: r.id \in Int /\ (r.id = s.id => r = s)
         /\ \A r \in q.rows, c \in Sortable(q.table): r[c] \in Int \cup {Null}
         /\ q.table = "audit_events" => \A r \in q.rows: r.created_at \in Int
  BY RequestsAssumption

\* A value, as it is and negated.
Negating(v, n) == [v EXCEPT !.negated = n]

LEMMA NegatingFields ==
  ASSUME NEW kind, NEW v, WellRead(kind, v), NEW n
  PROVE  Negating(v, n).negated = n /\ Negating(v, n).value = v.value
<1>1. PICK w : w = v.value
  OBVIOUS
<1>2. v = [negated |-> v.negated, value |-> w]
  BY <1>1 DEF WellRead
<1>3. QED BY <1>1, <1>2 DEF Negating

Split == {<<TRUE, FALSE>>, <<FALSE, TRUE>>}
Neither == <<FALSE, FALSE>>

\* A test and its negation, of a cell that may be missing.
LEMMA DiffersSplits ==
  ASSUME NEW b \in BOOLEAN
  PROVE  <<Differs(FALSE, b), Differs(TRUE, b)>> \in Split
  BY DEF Differs, Split

LEMMA IdentitySplits ==
  ASSUME NEW v, WellRead("identity", v), NEW cell
  PROVE  LET both == <<MatchesIdentity(Negating(v, FALSE), cell), MatchesIdentity(Negating(v, TRUE), cell)>>
         IN IF v.value = {} \/ ~(Cardinality(v.value) <= MaxSet) \/ cell = Null
            THEN both = Neither ELSE both \in Split
<1>1. \A n : Negating(v, n).negated = n /\ Negating(v, n).value = v.value
  BY NegatingFields
<1>2. QED BY <1>1 DEF MatchesIdentity, Differs, Split, Neither

LEMMA TextSplits ==
  ASSUME NEW v, WellRead("text", v), NEW cell
  PROVE  LET both == <<MatchesText(Negating(v, FALSE), cell), MatchesText(Negating(v, TRUE), cell)>>
         IN IF cell = Null THEN both = Neither ELSE both \in Split
<1>1. \A n : Negating(v, n).negated = n /\ Negating(v, n).value = v.value
  BY NegatingFields
<1>2. QED BY <1>1 DEF MatchesText, Differs, Split, Neither

LEMMA BooleanSplits ==
  ASSUME NEW v, WellRead("boolean", v), NEW cell
  PROVE  LET both == <<MatchesBoolean(Negating(v, FALSE), cell), MatchesBoolean(Negating(v, TRUE), cell)>>
         IN IF v.value \notin {0, 1} THEN both = Neither ELSE both \in Split
<1>1. \A n : Negating(v, n).negated = n /\ Negating(v, n).value = v.value
  BY NegatingFields
<1>2. QED BY <1>1 DEF MatchesBoolean, Differs, Split, Neither

\* The ends of a span as they are read.
Low(v) == v.value.low
DateHigh(v) == IF v.value.comma THEN v.value.high ELSE v.value.low
NumberHigh(v) == IF v.value.comma THEN v.value.high ELSE Blank

LEMMA DateSplits ==
  ASSUME NEW kind, NEW v, WellRead(kind, v), NEW cell
  PROVE  LET both == <<MatchesDate(Negating(v, FALSE), cell), MatchesDate(Negating(v, TRUE), cell)>>
         IN IF Low(v) = Blank /\ DateHigh(v) = Blank THEN both = <<TRUE, TRUE>>
            ELSE IF Bad \in {Low(v), DateHigh(v)} \/ cell = Null THEN both = Neither ELSE both \in Split
<1>1. \A n : Negating(v, n).negated = n /\ Negating(v, n).value = v.value
  BY NegatingFields
<1>2. PICK low, high : low = Low(v) /\ high = DateHigh(v)
  OBVIOUS
<1>3. PICK within \in BOOLEAN : within = ((low # Blank => FromBound(low, cell)) /\ (high # Blank => ToBound(high, cell)))
  OBVIOUS
<1>4. \A n \in BOOLEAN : MatchesDate(Negating(v, n), cell) =
        (\/ low = Blank /\ high = Blank
         \/ Bad \notin {low, high} /\ cell # Null /\ Differs(n, within))
  BY <1>1, <1>2, <1>3 DEF MatchesDate, Low, DateHigh
<1>5. QED BY <1>2, <1>4 DEF Differs, Split, Neither

LEMMA NumberSplits ==
  ASSUME NEW v, WellRead("number", v), NEW cell \in Int \cup {Null}
  PROVE  LET both == <<MatchesNumber(Negating(v, FALSE), cell), MatchesNumber(Negating(v, TRUE), cell)>>
         IN IF v.value.comma /\ Low(v) = Blank /\ NumberHigh(v) = Blank THEN both = <<TRUE, TRUE>>
            ELSE IF Bad \in {Low(v), NumberHigh(v)} \/ cell = Null \/ (~v.value.comma /\ Low(v) = Blank)
            THEN both = Neither ELSE both \in Split
<1>1. \A n : Negating(v, n).negated = n /\ Negating(v, n).value = v.value
  BY NegatingFields
<1>2. PICK low, high : low = Low(v) /\ high = NumberHigh(v)
  OBVIOUS
<1>3. low \in Int \cup {Blank, Bad} /\ high \in Int \cup {Blank, Bad}
  BY <1>2 DEF Low, NumberHigh, WellRead
<1>4. PICK within \in BOOLEAN : within = ((low # Blank => cell >= low) /\ (high # Blank => cell <= high))
  OBVIOUS
<1>5. PICK outside \in BOOLEAN : outside = ((low # Blank /\ cell < low) \/ (high # Blank /\ cell > high))
  OBVIOUS
<1>6. Bad \notin {low, high} /\ cell # Null => (outside = ~within)
  <2>1. SUFFICES ASSUME Bad \notin {low, high}, cell # Null PROVE outside = ~within
    OBVIOUS
  <2>2. cell \in Int /\ (low # Blank => low \in Int) /\ (high # Blank => high \in Int)
    BY <1>3, <2>1
  <2>3. low # Blank => (cell < low <=> ~(cell >= low))
    BY <2>2
  <2>4. high # Blank => (cell > high <=> ~(cell <= high))
    BY <2>2
  <2>5. QED BY <1>4, <1>5, <2>3, <2>4, Zenon
<1>7. \A n \in BOOLEAN : MatchesNumber(Negating(v, n), cell) =
        (\/ v.value.comma /\ low = Blank /\ high = Blank
         \/ /\ Bad \notin {low, high} /\ cell # Null
            /\ v.value.comma \/ low # Blank
            /\ IF n THEN outside ELSE within)
  BY <1>1, <1>2, <1>4, <1>5 DEF MatchesNumber, Low, NumberHigh
<1>8. QED BY <1>2, <1>6, <1>7 DEF Split, Neither

\* One field of the query: whichever way its values read, they split the rows.
LEMMA FieldSplits ==
  ASSUME request \in ListRequests, NEW f \in ParseFilters(request.query), Answered(request),
         FieldOf(f.field).read, NEW v \in f.values
  PROVE  LET Says(cell) == <<MatchesField(f.field, Negating(v, FALSE), cell),
                             MatchesField(f.field, Negating(v, TRUE), cell)>>
             kind == FieldOf(f.field).kind
         IN \/ \A r \in request.rows :
                 IF r[f.field] # Null \/ kind \in {"boolean", "audit"}
                 THEN Says(r[f.field]) \in Split ELSE Says(r[f.field]) = Neither
            \/ Unreadable(f.field, v) /\ \A r \in request.rows : Says(r[f.field]) = Neither
            \/ ~Unreadable(f.field, v) /\ \A r \in request.rows : Says(r[f.field]) = <<TRUE, TRUE>>
<1> DEFINE Says(cell) == <<MatchesField(f.field, Negating(v, FALSE), cell),
                           MatchesField(f.field, Negating(v, TRUE), cell)>>
           kind == FieldOf(f.field).kind
<1>1. CASE request.table = "audit_events"
  <2>1. kind = "audit" /\ f.field \in AuditFields
    BY <1>1 DEF FieldOf
  <2>2. WellRead("audit", v) /\ v.value # Blank
    BY <1>1, RequestsAssumption DEF ParseFilters
  <2>3. \A n : Negating(v, n).negated = n /\ Negating(v, n).value = v.value
    BY <2>2, NegatingFields
  <2>4. ~Unreadable(f.field, v)
    BY <2>1 DEF Unreadable
  <2>5. \A n, cell : MatchesField(f.field, Negating(v, n), cell) = AuditMatches(f.field, Negating(v, n), cell)
    BY <1>1 DEF MatchesField
  <2>6. CASE f.field = "created_at"
    <3>1. ~(v.value.low = Bad) /\ ~(v.value.comma /\ v.value.high = Bad)
      BY <1>1, <2>1, <2>6 DEF Answered, AuditRefused, AuditFilters
    <3>2. Bad \notin {Low(v), DateHigh(v)}
      BY <3>1 DEF Low, DateHigh
    <3>3. \A r \in request.rows : r[f.field] # Null
      BY <1>1, <2>6, RequestFacts, QueriesAssumption
    <3>4. \A n, cell : MatchesField(f.field, Negating(v, n), cell) = MatchesDate(Negating(v, n), cell)
      BY <2>5, <2>6 DEF AuditMatches
    <3>5. CASE Low(v) = Blank /\ DateHigh(v) = Blank
      <4>1. \A r \in request.rows : Says(r[f.field]) = <<TRUE, TRUE>>
        BY <2>2, <3>4, <3>5, DateSplits
      <4>2. QED BY <2>4, <4>1
    <3>6. CASE ~(Low(v) = Blank /\ DateHigh(v) = Blank)
      <4>1. \A r \in request.rows : Says(r[f.field]) \in Split
        BY <2>2, <3>2, <3>3, <3>4, <3>6, DateSplits
      <4>2. QED BY <2>1, <4>1
    <3>7. QED BY <3>5, <3>6
  <2>7. CASE f.field = "actor_user_id" /\ v.value = Bad
    <3>1. \A r \in request.rows : Says(r[f.field]) = <<TRUE, TRUE>>
      BY <2>3, <2>5, <2>7 DEF AuditMatches
    <3>2. QED BY <2>4, <3>1
  <2>8. CASE f.field # "created_at" /\ ~(f.field = "actor_user_id" /\ v.value = Bad)
    <3>1. \A cell : Says(cell) \in Split
      <4>1. SUFFICES ASSUME NEW cell PROVE Says(cell) \in Split
        OBVIOUS
      <4>2. PICK b \in BOOLEAN : b <=> cell \in v.value
        <5>1. CASE cell \in v.value
          BY <5>1
        <5>2. CASE cell \notin v.value
          BY <5>2
        <5>3. QED BY <5>1, <5>2
      <4>3. CASE f.field = "actor_username"
        <5>1. \A n : AuditMatches("actor_username", Negating(v, n), cell) = Differs(n, b)
          BY <2>3, <4>2 DEF AuditMatches, Differs
        <5>2. \A n : MatchesField(f.field, Negating(v, n), cell) = Differs(n, b)
          BY <2>5, <4>3, <5>1
        <5>3. QED BY <5>2, DiffersSplits
      <4>4. CASE f.field # "actor_username"
        <5>1. CASE f.field = "actor_user_id"
          <6>1. \A n : AuditMatches("actor_user_id", Negating(v, n), cell) = (v.value = Bad \/ Differs(n, cell = v.value))
            BY <2>3 DEF AuditMatches
          <6>2. \A n : MatchesField(f.field, Negating(v, n), cell) = (v.value = Bad \/ Differs(n, cell = v.value))
            BY <2>5, <5>1, <6>1, Zenon
          <6>3. QED BY <2>8, <5>1, <6>2 DEF Differs, Split
        <5>2. CASE f.field # "actor_user_id"
          <6>1. \A n : AuditMatches(f.field, Negating(v, n), cell) = Differs(n, cell = v.value)
            BY <2>3, <2>8, <4>4, <5>2 DEF AuditMatches
          <6>2. \A n : MatchesField(f.field, Negating(v, n), cell) = Differs(n, cell = v.value)
            BY <2>5, <6>1
          <6>3. Says(cell) = <<Differs(FALSE, cell = v.value), Differs(TRUE, cell = v.value)>>
            BY <6>2, Zenon
          <6>4. QED BY <6>3, Zenon DEF Differs, Split
        <5>3. QED BY <5>1, <5>2
      <4>5. QED BY <4>3, <4>4
    <3>2. QED BY <2>1, <3>1
  <2>9. QED BY <2>6, <2>7, <2>8
<1>2. CASE request.table # "audit_events"
  <2>1. PICK column : column = Columns[request.table][f.field]
    OBVIOUS
  <2>2. kind = FilterColumnKind(column) /\ f.field \in DOMAIN Columns[request.table]
    BY <1>2, <2>1 DEF FieldOf
  <2>3. \A n, cell : MatchesField(f.field, Negating(v, n), cell) = Matches(column, Negating(v, n), cell)
    BY <1>2, <2>1 DEF MatchesField
  <2>4. WellRead(kind, v) /\ (kind = "number" => \A r \in request.rows : r[f.field] \in Int \cup {Null})
    BY <1>2, <2>1, <2>2, RequestsAssumption
  <2>5. CASE kind = "identity"
    <3>0. WellRead("identity", v)
      BY <2>4, <2>5
    <3>1. \A n, cell : MatchesField(f.field, Negating(v, n), cell) = MatchesIdentity(Negating(v, n), cell)
      BY <2>2, <2>3, <2>5 DEF Matches
    <3>2. Unreadable(f.field, v) <=> v.value = {} \/ ~(Cardinality(v.value) <= MaxSet)
      <4>1. Cardinality(v.value) \in Nat /\ MaxSet \in Nat
        BY <3>0, FS_CardinalityType, QueriesAssumption DEF WellRead
      <4>2. QED BY <2>5, <4>1 DEF Unreadable
    <3>3. CASE v.value = {} \/ ~(Cardinality(v.value) <= MaxSet)
      <4>1. \A r \in request.rows : Says(r[f.field]) = Neither
        BY <3>0, <3>1, <3>3, IdentitySplits
      <4>2. QED BY <3>2, <3>3, <4>1
    <3>4. CASE ~(v.value = {} \/ ~(Cardinality(v.value) <= MaxSet))
      <4>1. \A r \in request.rows :
              IF r[f.field] # Null THEN Says(r[f.field]) \in Split ELSE Says(r[f.field]) = Neither
        BY <3>0, <3>1, <3>4, IdentitySplits
      <4>2. QED BY <2>5, <4>1
    <3>5. QED BY <3>3, <3>4
  <2>6. CASE kind = "text"
    <3>0. WellRead("text", v)
      BY <2>4, <2>6
    <3>1. \A n, cell : MatchesField(f.field, Negating(v, n), cell) = MatchesText(Negating(v, n), cell)
      BY <2>2, <2>3, <2>6 DEF Matches
    <3>2. \A r \in request.rows :
            IF r[f.field] # Null THEN Says(r[f.field]) \in Split ELSE Says(r[f.field]) = Neither
      BY <3>0, <3>1, TextSplits
    <3>3. QED BY <2>6, <3>2
  <2>7. CASE kind = "boolean"
    <3>0. WellRead("boolean", v)
      BY <2>4, <2>7
    <3>1. \A n, cell : MatchesField(f.field, Negating(v, n), cell) = MatchesBoolean(Negating(v, n), cell)
      BY <2>2, <2>3, <2>7 DEF Matches
    <3>2. Unreadable(f.field, v) <=> v.value \notin {0, 1}
      BY <2>7 DEF Unreadable
    <3>3. CASE v.value \notin {0, 1}
      <4>1. \A r \in request.rows : Says(r[f.field]) = Neither
        BY <3>0, <3>1, <3>3, BooleanSplits
      <4>2. QED BY <3>2, <3>3, <4>1
    <3>4. CASE v.value \in {0, 1}
      <4>1. \A r \in request.rows : Says(r[f.field]) \in Split
        BY <3>0, <3>1, <3>4, BooleanSplits
      <4>2. QED BY <2>7, <4>1
    <3>5. QED BY <3>3, <3>4
  <2>8. CASE kind = "date"
    <3>0. WellRead("date", v)
      BY <2>4, <2>8
    <3>1. \A n, cell : MatchesField(f.field, Negating(v, n), cell) = MatchesDate(Negating(v, n), cell)
      BY <2>2, <2>3, <2>8 DEF Matches
    <3>2. Unreadable(f.field, v) <=> Bad \in {Low(v), DateHigh(v)}
      BY <2>8 DEF Unreadable, Low, DateHigh
    <3>3. CASE Low(v) = Blank /\ DateHigh(v) = Blank
      <4>1. \A r \in request.rows : Says(r[f.field]) = <<TRUE, TRUE>>
        BY <3>0, <3>1, <3>3, DateSplits
      <4>2. QED BY <3>2, <3>3, <4>1, QueriesAssumption
    <3>4. CASE Bad \in {Low(v), DateHigh(v)} /\ ~(Low(v) = Blank /\ DateHigh(v) = Blank)
      <4>1. \A r \in request.rows : Says(r[f.field]) = Neither
        BY <3>0, <3>1, <3>4, DateSplits
      <4>2. QED BY <3>2, <3>4, <4>1
    <3>5. CASE Bad \notin {Low(v), DateHigh(v)} /\ ~(Low(v) = Blank /\ DateHigh(v) = Blank)
      <4>1. \A r \in request.rows :
              IF r[f.field] # Null THEN Says(r[f.field]) \in Split ELSE Says(r[f.field]) = Neither
        BY <3>0, <3>1, <3>5, DateSplits
      <4>2. QED BY <2>8, <4>1
    <3>6. QED BY <3>3, <3>4, <3>5
  <2>9. CASE kind = "number"
    <3>0. WellRead("number", v) /\ \A r \in request.rows : r[f.field] \in Int \cup {Null}
      BY <2>4, <2>9
    <3>1. \A n, cell : MatchesField(f.field, Negating(v, n), cell) = MatchesNumber(Negating(v, n), cell)
      BY <2>2, <2>3, <2>9 DEF Matches
    <3>2. Unreadable(f.field, v) <=> Bad \in {Low(v), NumberHigh(v)} \/ (~v.value.comma /\ Low(v) = Blank)
      BY <2>9, QueriesAssumption DEF Unreadable, Low, NumberHigh
    <3>3. CASE v.value.comma /\ Low(v) = Blank /\ NumberHigh(v) = Blank
      <4>1. \A r \in request.rows : Says(r[f.field]) = <<TRUE, TRUE>>
        BY <3>0, <3>1, <3>3, NumberSplits
      <4>2. QED BY <3>2, <3>3, <4>1, QueriesAssumption
    <3>4. CASE /\ ~(v.value.comma /\ Low(v) = Blank /\ NumberHigh(v) = Blank)
               /\ Bad \in {Low(v), NumberHigh(v)} \/ (~v.value.comma /\ Low(v) = Blank)
      <4>1. ASSUME NEW r \in request.rows PROVE Says(r[f.field]) = Neither
        <5>1. r[f.field] \in Int \cup {Null}
          BY <3>0
        <5>2. QED BY <3>0, <3>1, <3>4, <5>1, NumberSplits
      <4>2. QED BY <3>2, <3>4, <4>1
    <3>5. CASE /\ ~(v.value.comma /\ Low(v) = Blank /\ NumberHigh(v) = Blank)
               /\ ~(Bad \in {Low(v), NumberHigh(v)} \/ (~v.value.comma /\ Low(v) = Blank))
      <4>1. ASSUME NEW r \in request.rows
            PROVE  IF r[f.field] # Null THEN Says(r[f.field]) \in Split ELSE Says(r[f.field]) = Neither
        <5>1. PICK cell \in Int \cup {Null} : cell = r[f.field]
          BY <3>0
        <5>2. cell # Null => <<MatchesNumber(Negating(v, FALSE), cell), MatchesNumber(Negating(v, TRUE), cell)>> \in Split
          BY <3>0, <3>5, NumberSplits, Zenon
        <5>3. cell = Null => <<MatchesNumber(Negating(v, FALSE), cell), MatchesNumber(Negating(v, TRUE), cell)>> = Neither
          BY <3>0, <3>5, NumberSplits, Zenon
        <5>4. QED BY <3>1, <5>1, <5>2, <5>3
      <4>2. QED BY <2>9, <4>1
    <3>6. QED BY <3>3, <3>4, <3>5
  <2>10. kind \in {"identity", "text", "boolean", "date", "number"}
    BY <2>2 DEF FilterColumnKind
  <2>11. QED BY <2>5, <2>6, <2>7, <2>8, <2>9, <2>10
<1>3. QED BY <1>1, <1>2

LEMMA FiltersSplit == request \in ListRequests => FilterAndNegationSplit
<1> SUFFICES ASSUME request \in ListRequests, NEW f \in ParseFilters(request.query), Answered(request),
                    FieldOf(f.field).read, NEW v \in f.values
             PROVE  LET Both(cell) == <<MatchesField(f.field, Negating(v, FALSE), cell),
                                        MatchesField(f.field, Negating(v, TRUE), cell)>>
                        held == {Both(r[f.field]): r \in {s \in request.rows: s[f.field] # Null}}
                        empty == {Both(r[f.field]): r \in {s \in request.rows: s[f.field] = Null}}
                    IN \/ /\ held \subseteq Split
                          /\ empty \subseteq IF FieldOf(f.field).kind \in {"boolean", "audit"} THEN Split
                                             ELSE {Neither}
                       \/ (Unreadable(f.field, v) /\ held \cup empty \subseteq {Neither})
                       \/ (~Unreadable(f.field, v) /\ held \cup empty \subseteq {<<TRUE, TRUE>>})
  BY Zenon DEF FilterAndNegationSplit, Negating, Split, Neither
<1> DEFINE Both(cell) == <<MatchesField(f.field, Negating(v, FALSE), cell),
                           MatchesField(f.field, Negating(v, TRUE), cell)>>
           held == {Both(r[f.field]): r \in {s \in request.rows: s[f.field] # Null}}
           empty == {Both(r[f.field]): r \in {s \in request.rows: s[f.field] = Null}}
<1> SUFFICES \/ /\ held \subseteq Split
                /\ empty \subseteq IF FieldOf(f.field).kind \in {"boolean", "audit"} THEN Split
                                   ELSE {Neither}
             \/ (Unreadable(f.field, v) /\ held \cup empty \subseteq {Neither})
             \/ (~Unreadable(f.field, v) /\ held \cup empty \subseteq {<<TRUE, TRUE>>})
  OBVIOUS
<1>1. \/ \A r \in request.rows :
           IF r[f.field] # Null \/ FieldOf(f.field).kind \in {"boolean", "audit"}
           THEN Both(r[f.field]) \in Split ELSE Both(r[f.field]) = Neither
      \/ Unreadable(f.field, v) /\ \A r \in request.rows : Both(r[f.field]) = Neither
      \/ ~Unreadable(f.field, v) /\ \A r \in request.rows : Both(r[f.field]) = <<TRUE, TRUE>>
  BY FieldSplits
<1> HIDE DEF Both
<1>2. CASE \A r \in request.rows :
             IF r[f.field] # Null \/ FieldOf(f.field).kind \in {"boolean", "audit"}
             THEN Both(r[f.field]) \in Split ELSE Both(r[f.field]) = Neither
  <2>1. held \subseteq Split
    BY <1>2
  <2>2. empty \subseteq IF FieldOf(f.field).kind \in {"boolean", "audit"} THEN Split ELSE {Neither}
    BY <1>2
  <2>3. QED BY <2>1, <2>2
<1>3. ASSUME NEW one, \A r \in request.rows : Both(r[f.field]) = one PROVE held \cup empty \subseteq {one}
  BY <1>3
<1>4. QED BY <1>1, <1>2, <1>3

----------------------------------------------------------------------------
(* Pages *)

LEMMA OrderOfKey ==
  ASSUME NEW dir, NEW r, NEW s, r.id \in Int, s.id \in Int, r.id # s.id
  PROVE  Before(<<"id">>, dir, r, s) \/ Before(<<"id">>, dir, s, r)
<1>1. Less(r.id, s.id) \/ Less(s.id, r.id)
  BY QueriesAssumption DEF Less
<1>2. r["id"] = r.id /\ s["id"] = s.id
  OBVIOUS
<1>3. QED BY <1>1, <1>2 DEF Before

LEMMA OrderOfColumn ==
  ASSUME NEW c, NEW dir, NEW r, NEW s, r.id \in Int, s.id \in Int, r.id # s.id,
         r[c] \in Int \cup {Null}, s[c] \in Int \cup {Null}
  PROVE  Before(<<c, "id">>, dir, r, s) \/ Before(<<c, "id">>, dir, s, r)
<1> DEFINE columns == <<c, "id">>
<1>1. DOMAIN columns = 1..2 /\ columns[1] = c /\ columns[2] = "id"
  OBVIOUS
<1>2. CASE r[c] # s[c]
  <2>1. Less(r[c], s[c]) \/ Less(s[c], r[c])
    BY <1>2, QueriesAssumption DEF Less
  <2>2. 1 \in DOMAIN columns /\ \A j \in 1..(1 - 1): r[columns[j]] = s[columns[j]] /\ s[columns[j]] = r[columns[j]]
    OBVIOUS
  <2> HIDE DEF columns
  <2>3. Before(columns, dir, r, s) \/ Before(columns, dir, s, r)
    BY <1>1, <2>1, <2>2 DEF Before
  <2>4. QED BY <2>3 DEF columns
<1>3. CASE r[c] = s[c]
  <2>1. Less(r["id"], s["id"]) \/ Less(s["id"], r["id"])
    BY QueriesAssumption DEF Less
  <2>2. 2 \in DOMAIN columns
    OBVIOUS
  <2>3. \A j \in 1..(2 - 1): r[columns[j]] = s[columns[j]] /\ s[columns[j]] = r[columns[j]]
    BY <1>3
  <2> HIDE DEF columns
  <2>4. Before(columns, dir, r, s) \/ Before(columns, dir, s, r)
    BY <1>1, <2>1, <2>2, <2>3 DEF Before
  <2>5. QED BY <2>4 DEF columns
<1>4. QED BY <1>2, <1>3

\* What is listed are rows of the table, finitely many.
LEMMA ListedRows ==
  ASSUME NEW q \in ListRequests
  PROVE  /\ Listed(q) \subseteq q.rows /\ IsFiniteSet(Listed(q)) /\ Cardinality(Listed(q)) \in Nat
         /\ \A r, s \in Listed(q) : r.id \in Int /\ (r.id = s.id => r = s)
         /\ \A r \in Listed(q), c \in Sortable(q.table): r[c] \in Int \cup {Null}
         /\ q.table = "audit_events" => \A r \in Listed(q): r.created_at \in Int
<1>1. Listed(q) \subseteq q.rows
  BY DEF Listed, AuditListed
<1>2. QED BY <1>1, RequestFacts, FS_Subset, FS_CardinalityType

\* Of two rows of a list one comes before the other: the key closes the order.
LEMMA OrderIsTotal ==
  ASSUME NEW q \in ListRequests, NEW r \in Listed(q), NEW s \in Listed(q), r # s
  PROVE  LET columns == OrderColumns(q.table, q.query)
             dir == Direction(q.table, q.query)
         IN Before(columns, dir, r, s) \/ Before(columns, dir, s, r)
<1>1. r.id \in Int /\ s.id \in Int /\ r.id # s.id
  BY ListedRows
<1>2. CASE q.query.sort \in Sortable(q.table)
  <2>1. r[q.query.sort] \in Int \cup {Null} /\ s[q.query.sort] \in Int \cup {Null}
    BY <1>2, ListedRows
  <2>2. QED BY <1>1, <1>2, <2>1, OrderOfColumn DEF OrderColumns
<1>3. CASE q.query.sort \notin Sortable(q.table) /\ q.table = "audit_events"
  <2>1. r["created_at"] \in Int /\ s["created_at"] \in Int
    BY <1>3, ListedRows
  <2>2. QED BY <1>1, <1>3, <2>1, OrderOfColumn DEF OrderColumns
<1>4. CASE q.query.sort \notin Sortable(q.table) /\ q.table # "audit_events"
  BY <1>1, <1>4, OrderOfKey DEF OrderColumns
<1>5. QED BY <1>2, <1>3, <1>4

\* The beginning of a list: nothing outside it comes before any of it.
Closed(q, S) ==
  \A r \in S, s \in Listed(q) \ S: ~Before(OrderColumns(q.table, q.query), Direction(q.table, q.query), s, r)

\* Two beginnings of a list are one part of the other, by their lengths.
LEMMA BeginningsNest ==
  ASSUME NEW q \in ListRequests, NEW A \in SUBSET Listed(q), NEW B \in SUBSET Listed(q),
         Closed(q, A), Closed(q, B), Cardinality(A) <= Cardinality(B)
  PROVE  A \subseteq B
<1>1. A \subseteq B \/ B \subseteq A
  <2>1. SUFFICES ASSUME NEW a \in A \ B, NEW b \in B \ A PROVE FALSE
    OBVIOUS
  <2>2. a # b /\ a \in Listed(q) /\ b \in Listed(q)
    OBVIOUS
  <2>3. QED BY <2>2, OrderIsTotal DEF Closed
<1>2. IsFiniteSet(A) /\ IsFiniteSet(B) /\ Cardinality(A) \in Nat /\ Cardinality(B) \in Nat
  BY ListedRows, FS_Subset, FS_CardinalityType
<1>3. CASE B \subseteq A
  <2>1. Cardinality(B) <= Cardinality(A)
    BY <1>2, <1>3, FS_Subset
  <2>2. QED BY <1>2, <1>3, <2>1, FS_Subset
<1>4. QED BY <1>1, <1>3

Fewest(n, m) == IF n < m THEN n ELSE m

\* The rows of a page, and what comes before them.
IsPage(q, page, limit, S, L) ==
  /\ S \subseteq Listed(q) /\ L \subseteq Listed(q) \ S
  /\ Cardinality(L) = Fewest((page - 1) * limit, Cardinality(Listed(q)))
  /\ Cardinality(L \cup S) = Fewest(page * limit, Cardinality(Listed(q)))
  /\ Closed(q, L) /\ Closed(q, L \cup S)

LEMMA PageIs ==
  ASSUME NEW q \in ListRequests, NEW page \in Nat \ {0}, NEW limit \in Nat \ {0},
         NEW S \in Pages(q, page, limit)
  PROVE  \E L : IsPage(q, page, limit, S, L)
<1> DEFINE listed == Listed(q)
           x == (page - 1) * limit
           skipped == Fewest(x, Cardinality(listed))
<1>1. /\ S \in SUBSET listed /\ Cardinality(S) = Fewest(limit, Cardinality(listed) - skipped)
      /\ \E L \in SUBSET (listed \ S) : Cardinality(L) = skipped /\ Closed(q, L) /\ Closed(q, L \cup S)
  BY DEF Pages, kSubset, Closed, Fewest
<1>2. PICK L \in SUBSET (listed \ S) : Cardinality(L) = skipped /\ Closed(q, L) /\ Closed(q, L \cup S)
  BY <1>1
<1>3. IsFiniteSet(listed) /\ Cardinality(listed) \in Nat
  BY ListedRows
<1>4. x \in Nat /\ page * limit = x + limit
  OBVIOUS
<1>5. IsFiniteSet(S) /\ IsFiniteSet(L) /\ L \cap S = {}
  BY <1>1, <1>2, <1>3, FS_Subset
<1>6. Cardinality(L \cup S) = Cardinality(L) + Cardinality(S)
  <2>1. Cardinality(L \cup S) = Cardinality(L) + Cardinality(S) - Cardinality(L \cap S)
    BY <1>5, FS_Union
  <2>2. Cardinality(L \cap S) = 0 /\ Cardinality(L) \in Nat /\ Cardinality(S) \in Nat
    BY <1>5, FS_EmptySet, FS_CardinalityType
  <2>3. QED BY <2>1, <2>2
<1>7. Cardinality(L \cup S) = Fewest(page * limit, Cardinality(listed))
  <2> HIDE DEF x, listed
  <2>1. QED BY <1>1, <1>2, <1>3, <1>4, <1>6 DEF Fewest
<1>8. QED BY <1>1, <1>2, <1>7 DEF IsPage

\* Pages do not overlap: an earlier page with what comes before it comes before a later one.
LEMMA PagesApart ==
  ASSUME NEW q \in ListRequests, NEW limit \in Nat \ {0}, NEW p \in Nat \ {0}, NEW o \in Nat \ {0}, p < o,
         NEW S, NEW L, IsPage(q, p, limit, S, L), NEW T, NEW M, IsPage(q, o, limit, T, M)
  PROVE  S \cap T = {}
<1>1. PICK x \in Nat, y \in Nat : x = p * limit /\ y = (o - 1) * limit
  OBVIOUS
<1>2. x <= y
  <2>1. PICK d \in Nat : o - 1 = p + d
    OBVIOUS
  <2>2. y = x + d * limit /\ d * limit \in Nat
    BY <1>1, <2>1
  <2>3. QED BY <2>2
<1>3. Cardinality(L \cup S) <= Cardinality(M)
  BY <1>1, <1>2, ListedRows DEF IsPage, Fewest
<1>4. L \cup S \subseteq M
  BY <1>3, BeginningsNest DEF IsPage
<1>5. QED BY <1>4 DEF IsPage

\* A page begins where the one before it ends.
LEMMA PagesMeet ==
  ASSUME NEW q \in ListRequests, NEW limit \in Nat \ {0}, NEW p \in Nat \ {0, 1},
         NEW S, NEW L, IsPage(q, p - 1, limit, S, L), NEW T, NEW M, IsPage(q, p, limit, T, M)
  PROVE  M \subseteq L \cup S
<1>1. Cardinality(M) = Cardinality(L \cup S)
  BY DEF IsPage
<1>2. Cardinality(M) <= Cardinality(L \cup S)
  BY <1>1, ListedRows, FS_Subset, FS_CardinalityType DEF IsPage
<1>3. QED BY <1>2, BeginningsNest DEF IsPage

LEMMA FirstPage ==
  ASSUME NEW q \in ListRequests, NEW limit \in Nat \ {0}, NEW S, NEW L, IsPage(q, 1, limit, S, L)
  PROVE  L = {}
<1>1. (1 - 1) * limit = 0
  OBVIOUS
<1>2. Cardinality(L) = 0
  BY <1>1, ListedRows DEF IsPage, Fewest
<1>3. IsFiniteSet(L)
  BY ListedRows, FS_Subset DEF IsPage
<1>4. QED BY <1>2, <1>3, FS_EmptySet

\* An empty page comes after the whole list.
LEMMA EmptyPage ==
  ASSUME NEW q \in ListRequests, NEW limit \in Nat \ {0}, NEW p \in Nat \ {0}, NEW L,
         IsPage(q, p, limit, {}, L)
  PROVE  L = Listed(q)
<1>1. PICK x \in Nat, n \in Nat : x = (p - 1) * limit /\ n = Cardinality(Listed(q))
  <2>1. (p - 1) * limit \in Nat
    OBVIOUS
  <2>2. QED BY <2>1, ListedRows
<1>2. p * limit = x + limit
  BY <1>1
<1>3. Cardinality(L) = n
  <2>1. Cardinality(L) = Fewest(x, n) /\ Cardinality(L \cup {}) = Fewest(x + limit, n)
    BY <1>1, <1>2 DEF IsPage
  <2>2. L \cup {} = L
    OBVIOUS
  <2>3. Fewest(x, n) = Fewest(x + limit, n)
    BY <2>1, <2>2
  <2>4. QED BY <2>1, <2>3 DEF Fewest
<1>4. QED BY <1>1, <1>3, ListedRows, FS_Subset DEF IsPage

----------------------------------------------------------------------------
(* The answers *)

LimitIs(q) == ClampListBound(q.query.limit, DefaultLimit, MaxLimit)

LEMMA Clamped ==
  ASSUME NEW raw \in Int \cup {Blank, Bad}, NEW fallback \in Nat \ {0}, NEW max \in Nat \ {0}
  PROVE  ClampListBound(raw, fallback, max) \in Nat \ {0}
  BY DEF ClampListBound

LEMMA LimitPositive == \A q \in ListRequests : LimitIs(q) \in Nat \ {0}
  BY RequestFacts, Clamped, QueriesAssumption DEF LimitIs

\* An answer is its page, and announces how many rows there are.
ListInv ==
  /\ request \in ListRequests
  /\ answers = [p \in DOMAIN answers |-> answers[p]] /\ DOMAIN answers \subseteq Nat \ {0}
  /\ \A p \in DOMAIN answers:
       /\ answers[p].total = Cardinality(Listed(request))
       /\ \E L : IsPage(request, p, LimitIs(request), answers[p].rows, L)
  /\ reading = Null \/ (reading \in Nat \ {0} /\ \E L : IsPage(request, reading, LimitIs(request), {}, L))

LEMMA ListInitInv == QueriesInit => ListInv
<1> SUFFICES ASSUME QueriesInit PROVE ListInv
  OBVIOUS
<1>1. DOMAIN answers = {} /\ answers = [p \in {} |-> answers[p]]
  BY DEF QueriesInit
<1>2. QED BY <1>1 DEF QueriesInit, ListInv

LEMMA AnswerStep ==
  ASSUME ListInv, UNCHANGED request, NEW page \in Nat \ {0}, NEW S, NEW L,
         IsPage(request, page, LimitIs(request), S, L),
         answers' = [p \in DOMAIN answers \cup {page} |->
                       IF p = page THEN [rows |-> S, total |-> Cardinality(Listed(request))]
                       ELSE answers[p]],
         reading' = Null \/ reading' = reading
  PROVE  ListInv'
<1>1. DOMAIN answers' = DOMAIN answers \cup {page} /\ answers' = [p \in DOMAIN answers' |-> answers'[p]]
  OBVIOUS
<1>2. ASSUME NEW p \in DOMAIN answers'
      PROVE  /\ answers'[p].total = Cardinality(Listed(request))
             /\ \E M : IsPage(request, p, LimitIs(request), answers'[p].rows, M)
  <2>1. CASE p = page
    BY <2>1
  <2>2. CASE p # page
    <3>1. p \in DOMAIN answers /\ answers'[p] = answers[p]
      BY <1>1, <2>2
    <3>2. QED BY <3>1 DEF ListInv
  <2>3. QED BY <2>1, <2>2
<1>3. QED BY <1>1, <1>2 DEF ListInv

LEMMA ListStepInv == ListInv /\ [QueriesNext]_listVars => ListInv'
<1> SUFFICES ASSUME ListInv, [QueriesNext]_listVars PROVE ListInv'
  OBVIOUS
<1>1. CASE GetList
  <2>1. PICK raw \in request.pages :
          LET page == ClampListBound(raw, 1, MaxPage)
          IN \E S \in Pages(request, page, Limit):
               IF S = {}
               THEN reading' = page /\ UNCHANGED answers
               ELSE /\ answers' = [p \in DOMAIN answers \cup {page} |->
                                     IF p = page
                                     THEN [rows |-> S, total |-> Cardinality(Listed(request))]
                                     ELSE answers[p]]
                    /\ UNCHANGED reading
    BY <1>1 DEF GetList
  <2>2. PICK page \in Nat \ {0} : page = ClampListBound(raw, 1, MaxPage)
    <3>1. raw \in Int \cup {Blank, Bad}
      BY RequestFacts DEF ListInv
    <3>2. ClampListBound(raw, 1, MaxPage) \in Nat \ {0}
      BY <3>1, Clamped, QueriesAssumption
    <3>3. QED BY <3>2
  <2>3. PICK S \in Pages(request, page, Limit) :
          IF S = {}
          THEN reading' = page /\ UNCHANGED answers
          ELSE /\ answers' = [p \in DOMAIN answers \cup {page} |->
                                IF p = page
                                THEN [rows |-> S, total |-> Cardinality(Listed(request))]
                                ELSE answers[p]]
               /\ UNCHANGED reading
    BY <2>1, <2>2
  <2>4. Limit = LimitIs(request) /\ Limit \in Nat \ {0} /\ request' = request /\ request \in ListRequests
    BY <1>1, LimitPositive DEF Limit, LimitIs, GetList, ListInv
  <2>5. PICK L : IsPage(request, page, LimitIs(request), S, L)
    BY <2>4, PageIs
  <2>6. CASE S = {}
    <3>1. reading' = page /\ answers' = answers
      BY <2>3, <2>6
    <3>2. QED BY <2>4, <2>5, <2>6, <3>1 DEF ListInv
  <2>7. CASE S # {}
    BY <2>3, <2>4, <2>5, <2>7, AnswerStep
  <2>8. QED BY <2>6, <2>7
<1>2. CASE CountList
  <2>1. reading \in Nat \ {0} /\ request' = request /\ reading' = Null
    BY <1>2 DEF CountList, ListInv
  <2>2. PICK L : IsPage(request, reading, LimitIs(request), {}, L)
    BY <1>2 DEF CountList, ListInv
  <2>3. answers' = [p \in DOMAIN answers \cup {reading} |->
                      IF p = reading THEN [rows |-> {}, total |-> Cardinality(Listed(request))]
                      ELSE answers[p]]
    BY <1>2 DEF CountList
  <2>4. QED BY <2>1, <2>2, <2>3, AnswerStep
<1>3. CASE UNCHANGED listVars
  <2>1. request' = request /\ answers' = answers /\ reading' = reading
    BY <1>3 DEF listVars
  <2>2. QED BY <2>1 DEF ListInv
<1>4. QED BY <1>1, <1>2, <1>3 DEF QueriesNext

\* What the viewer may open, that matches and is relevant, is what is listed.
Wanted ==
  {r \in request.rows:
     IF request.table = "audit_events" THEN r \in AuditListed(request)
     ELSE /\ Reachable(request.viewer, request.table, r)
          /\ Filtered(request.table, request.query, r)
          /\ \/ request.query.includeUnrelated
             \/ request.table # "clients"
             \/ request.viewer.role \in {"Admin", "Client"}
             \/ r.id \in request.viewer.related}

LEMMA WantedIsListed == Wanted = Listed(request)
<1>1. CASE request.table = "audit_events"
  BY <1>1 DEF Wanted, Listed, AuditListed
<1>2. CASE request.table # "audit_events"
  <2>1. ASSUME NEW r \in request.rows, Reachable(request.viewer, request.table, r)
        PROVE  Relevant(request.viewer, request.table, request.query, r) <=>
                 \/ request.query.includeUnrelated
                 \/ request.table # "clients"
                 \/ request.viewer.role \in {"Admin", "Client"}
                 \/ r.id \in request.viewer.related
    <3>1. request.table = "clients" =>
            request.viewer.role \in {"Admin", "Professional", "Receptionist", "Client"}
      BY <2>1 DEF Reachable, Readers
    <3>2. request.viewer.business = Null => request.viewer.role = "Admin"
      BY <2>1 DEF Reachable, InTenant
    <3>3. QED BY <3>1, <3>2 DEF Relevant
  <2>2. QED BY <1>2, <2>1 DEF Wanted, Listed
<1>3. QED BY <1>1, <1>2

\* Up to an empty page, each row is on the first page that has it or comes after it.
LEMMA AllFetched ==
  ASSUME ListInv, NEW n \in DOMAIN answers, 1..n \subseteq DOMAIN answers, answers[n].rows = {},
         NEW r \in Listed(request)
  PROVE  \E p \in DOMAIN answers : r \in answers[p].rows
<1> DEFINE q == request
           limit == LimitIs(q)
           Seen(p, S) == \E L : IsPage(q, p, limit, S, L) /\ r \in L \cup S
           T == {p \in 1..n : Seen(p, answers[p].rows)}
<1>1. q \in ListRequests /\ limit \in Nat \ {0} /\ n \in Nat \ {0}
  BY LimitPositive DEF ListInv
<1>2. n \in T
  <2>1. PICK L : IsPage(q, n, limit, {}, L)
    BY DEF ListInv
  <2>2. r \in L
    BY <1>1, <2>1, EmptyPage
  <2>3. QED BY <1>1, <2>1, <2>2
<1>3. PICK m \in T : \A p \in T : m <= p
  <2>1. T \in SUBSET Nat /\ T # {}
    BY <1>2
  <2> HIDE DEF T
  <2>2. QED BY <2>1, LeastNat
<1>4. m \in 1..n /\ m \in DOMAIN answers
  BY <1>3
<1>5. PICK L : IsPage(q, m, limit, answers[m].rows, L) /\ r \in L \cup answers[m].rows
  BY <1>3
<1>6. r \notin L
  <2>1. SUFFICES ASSUME r \in L PROVE FALSE
    OBVIOUS
  <2>2. m # 1
    BY <1>1, <1>5, <2>1, FirstPage
  <2>3. m - 1 \in 1..n /\ m \in Nat \ {0, 1}
    BY <1>1, <1>4, <2>2
  <2>4. PICK K : IsPage(q, m - 1, limit, answers[m - 1].rows, K)
    BY <2>3 DEF ListInv
  <2>5. r \in K \cup answers[m - 1].rows
    BY <1>1, <1>5, <2>1, <2>3, <2>4, PagesMeet
  <2>6. m - 1 \in T
    BY <2>3, <2>4, <2>5
  <2>7. QED BY <1>3, <2>3, <2>6
<1>7. QED BY <1>4, <1>5, <1>6

LEMMA OnOnePage == ListInv => EveryReachableRowIsOnOnePage
<1> SUFFICES ASSUME ListInv
             PROVE  LET fetched == UNION {answers[p].rows: p \in DOMAIN answers}
                    IN /\ \A p \in DOMAIN answers: answers[p].rows \subseteq Wanted
                                                   /\ answers[p].total = Cardinality(Wanted)
                       /\ \A p, o \in DOMAIN answers: p # o => answers[p].rows \cap answers[o].rows = {}
                       /\ (\E n \in DOMAIN answers: 1..n \subseteq DOMAIN answers /\ answers[n].rows = {}) =>
                            Wanted = fetched
  BY Zenon DEF EveryReachableRowIsOnOnePage, Wanted
<1>1. Wanted = Listed(request) /\ request \in ListRequests /\ LimitIs(request) \in Nat \ {0}
  BY WantedIsListed, LimitPositive DEF ListInv
<1>2. ASSUME NEW p \in DOMAIN answers
      PROVE  answers[p].rows \subseteq Wanted /\ answers[p].total = Cardinality(Wanted)
  BY <1>1 DEF ListInv, IsPage
<1>3. ASSUME NEW p \in DOMAIN answers, NEW o \in DOMAIN answers, p # o
      PROVE  answers[p].rows \cap answers[o].rows = {}
  <2>1. p \in Nat \ {0} /\ o \in Nat \ {0} /\ (p < o \/ o < p)
    BY <1>3 DEF ListInv
  <2>2. PICK L : IsPage(request, p, LimitIs(request), answers[p].rows, L)
    BY DEF ListInv
  <2>3. PICK M : IsPage(request, o, LimitIs(request), answers[o].rows, M)
    BY DEF ListInv
  <2>4. QED BY <1>1, <2>1, <2>2, <2>3, PagesApart
<1>4. ASSUME NEW n \in DOMAIN answers, 1..n \subseteq DOMAIN answers, answers[n].rows = {}
      PROVE  Wanted = UNION {answers[p].rows: p \in DOMAIN answers}
  <2>1. \A r \in Wanted : \E p \in DOMAIN answers : r \in answers[p].rows
    BY <1>1, <1>4, AllFetched
  <2>2. QED BY <1>2, <2>1
<1>5. QED BY <1>2, <1>3, <1>4

\* However a request for a list filters, a value and its negation split the rows that hold something in
\* the column, unless it cannot be read or bounds nothing (list-filters.ts and the audit log).
THEOREM FiltersSplitAlways == QueriesSpec => []FilterAndNegationSplit
<1>1. ListInv => FilterAndNegationSplit
  BY FiltersSplit DEF ListInv
<1>2. QED BY <1>1, ListInitInv, ListStepInv, PTL DEF QueriesSpec

\* For any table, viewer, order and length of a page, every row the viewer may open and asked for is on
\* exactly one of the pages, in whatever order they are fetched (the generic list and the audit log).
THEOREM PagesSplitTheList == QueriesSpec => []EveryReachableRowIsOnOnePage
<1>1. QED BY OnOnePage, ListInitInv, ListStepInv, PTL DEF QueriesSpec
=============================================================================
