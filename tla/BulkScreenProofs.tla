-------------------------- MODULE BulkScreenProofs --------------------------
(***************************************************************************)
(* Proofs about BulkScreen, for any people, forms, and number of previews  *)
(* and runs on their way at once.                                          *)
(***************************************************************************)
EXTENDS BulkScreen, TLAPS

\* Everybody the conditions select now is somebody the admin expects.
Covers(k) == k.expected # {} /\ Selected(k.form) \subseteq k.expected

PreviewsOK == \A q \in Previews :
                preview[q].pc = "answered" /\ preview[q].expected # {} => Covers(preview[q])
ListOK     == \A list \in previewed : Covers(list)
RunsOK     == \A r \in Runs : run[r].pc = "sent" => Covers(run[r])

IInv == TypeOK /\ PreviewsOK /\ ListOK /\ RunsOK /\ NoSurprise
-----------------------------------------------------------------------------
LEMMA Empty == NoPreview \in PreviewRecs /\ NoRun \in RunRecs
BY FormAssumption DEF NoPreview, NoRun, PreviewRecs, RunRecs

LEMMA InitIInv == Init => IInv
<1>. SUFFICES ASSUME Init PROVE IInv
  OBVIOUS
<1>1. entry \in [People -> Entries]
  BY DEF Init, Entries
<1>2. TypeOK
  BY <1>1, Empty, FormAssumption DEF Init, TypeOK
<1>3. PreviewsOK /\ ListOK /\ RunsOK /\ NoSurprise
  BY DEF Init, PreviewsOK, ListOK, RunsOK, NoSurprise, NoPreview, NoRun
<1>. QED
  BY <1>2, <1>3 DEF IInv

\* While nobody becomes an active member, what covered the selection still does.
LEMMA FewerSelected ==
  ASSUME \A f \in Forms : Selected(f)' \subseteq Selected(f), NEW k, k.form \in Forms, Covers(k)
  PROVE  Covers(k)'
BY DEF Covers

\* A step of the screen or of a request keeps the invariant when each record it
\* sets is as the invariant says.
LEMMA ScreenStep ==
  ASSUME IInv, entry' \in [People -> Entries], form' \in Forms,
         \A f \in Forms : Selected(f)' \subseteq Selected(f),
         previewed' \subseteq Lists, \A list \in previewed' : list \in previewed \/ Covers(list),
         preview' \in [Previews -> PreviewRecs],
         \A q \in Previews : \/ preview'[q] = preview[q]
                             \/ preview'[q].pc # "answered"
                             \/ preview'[q].expected = Selected(preview'[q].form),
         run' \in [Runs -> RunRecs],
         \A r \in Runs : /\ \/ run'[r] = run[r]
                            \/ run'[r].pc = "sent" /\ Covers(run'[r])
                            \/ run'[r].pc # "sent"
                         /\ run'[r].todo \subseteq run'[r].expected
  PROVE  IInv'
<1>1. TypeOK'
  BY DEF TypeOK
<1>2. ASSUME NEW list \in previewed' PROVE Covers(list)'
  <2>1. Covers(list) /\ list.form \in Forms
    BY DEF IInv, ListOK, Lists
  <2>. QED
    BY <2>1, FewerSelected
<1>3. ASSUME NEW q \in Previews, preview'[q].pc = "answered", preview'[q].expected # {}
      PROVE  Covers(preview[q])'
  <2>1. PICK k \in PreviewRecs : k = preview'[q]
    OBVIOUS
  <2>2. k.form \in Forms
    BY DEF PreviewRecs
  <2>3. Covers(k)
    BY <1>3, <2>1 DEF IInv, PreviewsOK, Covers
  <2>4. Covers(k)'
    BY <2>2, <2>3, FewerSelected
  <2>. QED
    BY <2>1, <2>4
<1>4. ASSUME NEW r \in Runs, run'[r].pc = "sent" PROVE Covers(run[r])'
  <2>1. PICK k \in RunRecs : k = run'[r]
    OBVIOUS
  <2>2. k.form \in Forms
    BY DEF RunRecs
  <2>3. Covers(k)
    BY <1>4, <2>1 DEF IInv, RunsOK
  <2>4. Covers(k)'
    BY <2>2, <2>3, FewerSelected
  <2>. QED
    BY <2>1, <2>4
<1>. QED
  BY <1>1, <1>2, <1>3, <1>4 DEF IInv, PreviewsOK, ListOK, RunsOK, NoSurprise

LEMMA SameSelected ==
  ASSUME UNCHANGED entry PROVE \A f \in Forms : Selected(f)' \subseteq Selected(f)
BY DEF Selected

LEMMA EditStep == ASSUME IInv, NEW f \in Forms, Edit(f) PROVE IInv'
BY ScreenStep, SameSelected DEF Edit, IInv, TypeOK, NoSurprise

LEMMA PreviewStep == ASSUME IInv, NEW q \in Previews, Preview(q) PROVE IInv'
<1>1. TypeOK /\ NoSurprise /\ UNCHANGED <<entry, form, previewed, run>>
  BY DEF IInv, Preview
<1>2. PICK k : k = [NoPreview EXCEPT !.pc = "sent", !.form = form]
  OBVIOUS
<1>3. k \in PreviewRecs /\ k.pc = "sent"
  BY <1>1, <1>2, Empty DEF TypeOK, NoPreview, PreviewRecs
<1>4. preview' = [preview EXCEPT ![q] = k]
  BY <1>2 DEF Preview
<1>. QED
  BY <1>1, <1>3, <1>4, ScreenStep, SameSelected DEF TypeOK, NoSurprise

LEMMA DryRunStep == ASSUME IInv, NEW q \in Previews, DryRun(q) PROVE IInv'
<1>1. TypeOK /\ NoSurprise /\ UNCHANGED <<entry, form, previewed, run>>
  BY DEF IInv, DryRun
<1>2. PICK matched \in SUBSET People : matched = Selected(preview[q].form)
  BY DEF Selected
<1>3. PICK k : k = [preview[q] EXCEPT !.pc = "answered", !.expected = matched]
  OBVIOUS
<1>4. k \in PreviewRecs /\ k.form = preview[q].form /\ k.expected = matched
  BY <1>1, <1>3 DEF TypeOK, PreviewRecs
<1>5. preview' = [preview EXCEPT ![q] = k]
  BY <1>1, <1>2, <1>3 DEF DryRun, TypeOK
<1>. QED
  BY <1>1, <1>2, <1>4, <1>5, ScreenStep, SameSelected DEF TypeOK, NoSurprise

LEMMA PreviewShownStep == ASSUME IInv, NEW q \in Previews, PreviewShown(q) PROVE IInv'
<1>1. TypeOK /\ NoSurprise /\ UNCHANGED <<entry, form, run>>
  BY DEF IInv, PreviewShown
<1>2. PICK k \in PreviewRecs : k = preview[q]
  BY <1>1 DEF TypeOK
<1>3. k.pc = "answered" /\ preview' = [preview EXCEPT ![q] = NoPreview]
  BY <1>2 DEF PreviewShown
<1>4. \A list \in previewed' :
        k.expected # {} /\ list = [form |-> k.form, expected |-> k.expected]
  BY <1>2 DEF PreviewShown
<1>5. \A list \in previewed' : list \in Lists /\ Covers(list)
  BY <1>2, <1>3, <1>4 DEF IInv, PreviewsOK, Covers, Lists, PreviewRecs
<1>6. /\ preview' \in [Previews -> PreviewRecs]
      /\ \A p \in Previews : preview'[p] = preview[p] \/ preview'[p].pc # "answered"
  BY <1>1, <1>3, Empty DEF TypeOK, NoPreview
<1>. QED
  BY <1>1, <1>5, <1>6, ScreenStep, SameSelected DEF TypeOK, NoSurprise

LEMMA PreviewFailsStep == ASSUME IInv, NEW q \in Previews, PreviewFails(q) PROVE IInv'
<1>1. TypeOK /\ NoSurprise /\ UNCHANGED <<entry, form, previewed, run>>
  BY DEF IInv, PreviewFails
<1>2. /\ preview' \in [Previews -> PreviewRecs]
      /\ \A p \in Previews : preview'[p] = preview[p] \/ preview'[p].pc # "answered"
  BY <1>1, Empty DEF PreviewFails, TypeOK, NoPreview
<1>. QED
  BY <1>1, <1>2, ScreenStep, SameSelected DEF TypeOK, NoSurprise

\* A step of run r that makes its record k.
LEMMA RunMoves ==
  ASSUME IInv, NEW r \in Runs, NEW k \in RunRecs, run' = [run EXCEPT ![r] = k],
         entry' \in [People -> Entries], \A f \in Forms : Selected(f)' \subseteq Selected(f),
         previewed' \subseteq previewed, UNCHANGED <<form, preview>>,
         k.pc = "sent" => Covers(k), k.todo \subseteq k.expected
  PROVE  IInv'
<1>1. TypeOK /\ NoSurprise
  BY DEF IInv
<1>. QED
  BY <1>1, ScreenStep DEF TypeOK, NoSurprise

LEMMA RunStep == ASSUME IInv, NEW r \in Runs, Run(r) PROVE IInv'
<1>1. TypeOK /\ UNCHANGED <<entry, form, previewed, preview>>
  BY DEF IInv, Run
<1>2. PICK list \in previewed :
        run' = [run EXCEPT ![r] = [NoRun EXCEPT !.pc = "sent", !.form = list.form,
                                                !.expected = list.expected]]
  BY DEF Run
<1>3. list \in Lists /\ Covers(list)
  BY <1>1 DEF IInv, TypeOK, ListOK
<1>4. PICK k : k = [NoRun EXCEPT !.pc = "sent", !.form = list.form, !.expected = list.expected]
  OBVIOUS
<1>5. k \in RunRecs /\ k.form = list.form /\ k.expected = list.expected /\ k.todo = {}
  BY <1>3, <1>4, Empty DEF NoRun, RunRecs, Lists
<1>6. Covers(k)
  BY <1>3, <1>5 DEF Covers
<1>. QED
  BY <1>1, <1>2, <1>4, <1>5, <1>6, RunMoves, SameSelected DEF TypeOK

\* The server selects again: those who are selected now are all expected.
LEMMA SelectStep == ASSUME IInv, NEW r \in Runs, Select(r) PROVE IInv'
<1>1. TypeOK /\ UNCHANGED <<entry, form, previewed, preview>>
  BY DEF IInv, Select
<1>2. PICK todo \in SUBSET People : todo = Selected(run[r].form)
  BY DEF Selected
<1>3. PICK k : k = [run[r] EXCEPT !.pc = "disabling", !.form = Blank, !.todo = todo]
  OBVIOUS
<1>4. k \in RunRecs /\ k.pc = "disabling" /\ k.expected = run[r].expected /\ k.todo = todo
  BY <1>1, <1>2, <1>3, FormAssumption DEF TypeOK, RunRecs
<1>5. run' = [run EXCEPT ![r] = k]
  BY <1>1, <1>2, <1>3 DEF Select, TypeOK
<1>6. todo \subseteq k.expected
  BY <1>2, <1>4 DEF IInv, RunsOK, Covers, Select
<1>. QED
  BY <1>1, <1>4, <1>5, <1>6, RunMoves, SameSelected DEF TypeOK

LEMMA DisableOneStep ==
  ASSUME IInv, NEW r \in Runs, NEW p \in People, DisableOne(r, p) PROVE IInv'
<1>1. TypeOK /\ NoSurprise /\ RunsOK /\ UNCHANGED <<form, previewed, preview>>
  BY DEF IInv, DisableOne
<1>2. /\ entry' \in [People -> Entries]
      /\ \A s \in People : entry'[s] = entry[s] \/ entry'[s].state = "disabled"
  BY <1>1 DEF DisableOne, TypeOK, Entries
<1>3. \A f \in Forms : Selected(f)' \subseteq Selected(f)
  BY <1>2 DEF Selected
<1>4. PICK todo \in SUBSET run[r].todo : todo = run[r].todo \ {p}
  OBVIOUS
<1>5. PICK k : k = [run[r] EXCEPT !.todo = todo]
  OBVIOUS
<1>6. k \in RunRecs /\ k.pc = "disabling" /\ k.expected = run[r].expected /\ k.todo = todo
  BY <1>1, <1>4, <1>5 DEF TypeOK, RunRecs, DisableOne
<1>7. run' = [run EXCEPT ![r] = k]
  BY <1>1, <1>4, <1>5 DEF DisableOne, TypeOK
<1>. QED
  BY <1>1, <1>2, <1>3, <1>4, <1>6, <1>7, RunMoves DEF NoSurprise

LEMMA RunEndsStep == ASSUME IInv, NEW r \in Runs, RunShown(r) \/ RunFails(r) PROVE IInv'
<1>1. NoRun \in RunRecs /\ NoRun.pc = "idle" /\ NoRun.todo = {}
  BY Empty DEF NoRun
<1>. QED
  BY <1>1, RunMoves, SameSelected DEF RunShown, RunFails, IInv, TypeOK
-----------------------------------------------------------------------------
\* Others change the whitelist: whoever becomes an active member is added to
\* what the admin expects.
LEMMA BecomesStep ==
  ASSUME IInv, NEW p \in People, NEW e \in Entries, Becomes(p, e) PROVE IInv'
<1>1. TypeOK /\ PreviewsOK /\ ListOK /\ RunsOK /\ NoSurprise
  BY DEF IInv
<1>. DEFINE member == e = [state |-> "active", role |-> "member"] /\ e # entry[p]
            more(x) == IF member /\ x.expected # {}
                       THEN [x EXCEPT !.expected = @ \cup {p}] ELSE x
<1>2. /\ entry' = [entry EXCEPT ![p] = e]
      /\ previewed' = {more(list) : list \in previewed}
      /\ preview' = [q \in Previews |-> more(preview[q])]
      /\ run' = [r \in Runs |-> IF run[r].pc = "sent" THEN more(run[r]) ELSE run[r]]
      /\ UNCHANGED form
  BY DEF Becomes
<1>3. ASSUME NEW f PROVE Selected(f)' \subseteq Selected(f) \cup (IF member THEN {p} ELSE {})
  BY <1>1, <1>2 DEF TypeOK, Selected
<1>4. ASSUME NEW x \in PreviewRecs \cup Lists \cup RunRecs
      PROVE  /\ more(x).form = x.form /\ more(x).expected \subseteq x.expected \cup {p}
             /\ x.expected \subseteq more(x).expected
             /\ x.expected # {} /\ member => p \in more(x).expected
  <2>1. CASE member /\ x.expected # {}
    BY <2>1 DEF PreviewRecs, Lists, RunRecs
  <2>2. CASE ~(member /\ x.expected # {})
    BY <2>2
  <2>. QED
    BY <2>1, <2>2
<1>5. \A x \in Lists : more(x) \in Lists
  BY DEF Lists
<1>6. \A x \in PreviewRecs : more(x) \in PreviewRecs /\ more(x).pc = x.pc
  BY DEF PreviewRecs
<1>7. \A x \in RunRecs : more(x) \in RunRecs /\ more(x).pc = x.pc /\ more(x).todo = x.todo
  BY DEF RunRecs
<1>. HIDE DEF more, member
<1>8. TypeOK'
  <2>1. entry' \in [People -> Entries]
    BY <1>1, <1>2 DEF TypeOK
  <2>. QED
    BY <1>1, <1>2, <1>5, <1>6, <1>7, <2>1 DEF TypeOK
<1>9. ASSUME NEW x \in PreviewRecs \cup Lists \cup RunRecs, Covers(x), NEW y, y = more(x)
      PROVE  Covers(y)'
  <2>1. Selected(x.form)' \subseteq Selected(x.form) \cup (IF member THEN {p} ELSE {})
    BY <1>3
  <2>2. y.form = x.form /\ x.expected \subseteq y.expected /\ (member => p \in y.expected)
    BY <1>4, <1>9 DEF Covers
  <2>3. Selected(x.form)' \subseteq y.expected
    BY <1>9, <2>1, <2>2 DEF Covers
  <2>. QED
    BY <1>9, <2>2, <2>3 DEF Covers
<1>10. ListOK'
  BY <1>1, <1>2, <1>9 DEF ListOK, TypeOK
<1>11. PreviewsOK'
  <2>1. ASSUME NEW q \in Previews, preview'[q].pc = "answered", preview'[q].expected # {}
        PROVE  Covers(preview[q])'
    <3>1. PICK x, y : x = preview[q] /\ y = preview'[q] /\ x \in PreviewRecs
      BY <1>1 DEF TypeOK
    <3>2. y = more(x) /\ x.pc = "answered"
      BY <1>2, <1>6, <2>1, <3>1
    <3>3. x.expected # {}
      BY <2>1, <3>1, <3>2 DEF more
    <3>4. Covers(y)'
      BY <1>1, <1>9, <3>1, <3>2, <3>3 DEF PreviewsOK
    <3>. QED
      BY <3>1, <3>4
  <2>. QED
    BY <2>1 DEF PreviewsOK
<1>12. RunsOK'
  <2>1. ASSUME NEW r \in Runs, run'[r].pc = "sent" PROVE Covers(run[r])'
    <3>1. PICK x, y : x = run[r] /\ y = run'[r] /\ x \in RunRecs
      BY <1>1 DEF TypeOK
    <3>2. y = more(x) /\ x.pc = "sent"
      BY <1>2, <1>7, <2>1, <3>1
    <3>3. Covers(y)'
      BY <1>1, <1>9, <3>1, <3>2 DEF RunsOK
    <3>. QED
      BY <3>1, <3>3
  <2>. QED
    BY <2>1 DEF RunsOK
<1>13. NoSurprise'
  <2>1. ASSUME NEW r \in Runs PROVE run'[r].todo \subseteq run'[r].expected
    <3>1. PICK x \in RunRecs : x = run[r]
      BY <1>1 DEF TypeOK
    <3>2. run'[r] = x \/ run'[r] = more(x)
      BY <1>2, <3>1
    <3>3. x.todo \subseteq x.expected
      BY <1>1, <3>1 DEF NoSurprise
    <3>. QED
      BY <1>4, <1>7, <3>2, <3>3
  <2>. QED
    BY <2>1 DEF NoSurprise
<1>. QED
  BY <1>8, <1>10, <1>11, <1>12, <1>13 DEF IInv

LEMMA OthersStep ==
  ASSUME IInv, NEW p \in People, Join(p) \/ Enable(p) \/ Disable(p) \/ SetRole(p) PROVE IInv'
<1>1. entry[p] \in Entries
  BY DEF IInv, TypeOK
<1>2. /\ [state |-> "active", role |-> "member"] \in Entries
      /\ [entry[p] EXCEPT !.state = "active"] \in Entries
      /\ [entry[p] EXCEPT !.state = "disabled"] \in Entries
      /\ \A role \in {"member", "admin"} : [entry[p] EXCEPT !.role = role] \in Entries
  BY <1>1 DEF Entries
<1>. QED
  BY <1>2, BecomesStep DEF Join, Enable, Disable, SetRole

LEMMA NextIInv == IInv /\ [Next]_vars => IInv'
<1>. SUFFICES ASSUME IInv, [Next]_vars PROVE IInv'
  OBVIOUS
<1>1. CASE UNCHANGED vars
  BY <1>1, ScreenStep, SameSelected DEF vars, IInv, TypeOK, NoSurprise
<1>. QED
  BY <1>1, EditStep, PreviewStep, DryRunStep, PreviewShownStep, PreviewFailsStep, RunStep,
     SelectStep, DisableOneStep, RunEndsStep, OthersStep DEF Next

LEMMA Inductive == Spec => []IInv
BY InitIInv, NextIInv, PTL DEF Spec

\* The whitelist, the screen and its requests have their types.
THEOREM TypeCorrect == Spec => []TypeOK
BY Inductive, PTL DEF IInv

\* A run only ever works on people the admin had reason to expect.
THEOREM NobodyIsSurprised == Spec => []NoSurprise
BY Inductive, PTL DEF IInv
-----------------------------------------------------------------------------
\* An instant is in a range of days in Japan exactly when the day it is there is.
LEMMA DayBounds ==
  ASSUME NEW t \in Int, NEW d \in Int
  PROVE  /\ t >= Midnight(d) <=> DayOf(t) >= d
         /\ t < Midnight(d + 1) <=> DayOf(t) <= d
BY DEF Midnight, DayOf, Zone, Day

\* The conditions computed from a form select whom the form means: entry years
\* by their number, days by midnight in Japan.
LEMMA MatchesIsMeant ==
  ASSUME NEW f \in Forms, NEW p \in People PROVE Matches(Bounds(f), p) <=> Meant(f, p)
<1>1. /\ f.yearFrom \subseteq Int /\ f.yearTo \subseteq Int
      /\ f.dayFrom \subseteq Int /\ f.dayTo \subseteq Int
  BY FormAssumption
<1>2. YearOf[p] \subseteq Int /\ CreatedAt[p] \in Int
  BY PeopleAssumption
<1>3. PICK b : b = Bounds(f)
  OBVIOUS
<1>4. /\ b.yearFrom = f.yearFrom /\ b.yearTo = f.yearTo
      /\ b.from = {Midnight(d) : d \in f.dayFrom}
      /\ b.before = {Midnight(d + 1) : d \in f.dayTo}
  BY <1>3 DEF Bounds
<1>5. (\A t \in b.from : CreatedAt[p] >= t) <=> (\A d \in f.dayFrom : DayOf(CreatedAt[p]) >= d)
  BY <1>1, <1>2, <1>4, DayBounds
<1>6. (\A t \in b.before : CreatedAt[p] < t) <=> (\A d \in f.dayTo : DayOf(CreatedAt[p]) <= d)
  BY <1>1, <1>2, <1>4, DayBounds
<1>7. /\ \A y \in f.yearFrom : \E z \in YearOf[p] : z >= y
      /\ \A y \in f.yearTo   : \E z \in YearOf[p] : z <= y
      <=>
      /\ f.yearFrom \cup f.yearTo # {} => YearOf[p] # {}
      /\ \A y \in YearOf[p] : /\ \A from \in f.yearFrom : y >= from
                              /\ \A to \in f.yearTo : y <= to
  <2>1. CASE YearOf[p] = {}
    BY <2>1
  <2>2. CASE YearOf[p] # {}
    <3>1. PICK z \in YearOf[p] : YearOf[p] = {z}
      BY <2>2, PeopleAssumption
    <3>. QED
      BY <3>1
  <2>. QED
    BY <2>1, <2>2
<1>. QED
  BY <1>3, <1>4, <1>5, <1>6, <1>7 DEF Matches, Meant

\* A preview lists exactly the active members whom the form means.
THEOREM PreviewsListWhoIsMeant == Spec => ListsWhoIsMeant
<1>1. ASSUME TypeOK, NEW q \in Previews, DryRun(q)
      PROVE  preview'[q].expected = {p \in People : /\ entry[p].state = "active"
                                                    /\ entry[p].role = "member"
                                                    /\ Meant(preview[q].form, p)}
  <2>1. preview[q] \in PreviewRecs /\ preview[q].form \in Forms
    BY <1>1 DEF TypeOK, PreviewRecs
  <2>2. preview'[q].expected = Selected(preview[q].form)
    BY <1>1, <2>1 DEF DryRun, TypeOK, PreviewRecs
  <2>3. ASSUME NEW p \in People
        PROVE  entry[p] = [state |-> "active", role |-> "member"]
                 <=> entry[p].state = "active" /\ entry[p].role = "member"
    BY <1>1 DEF TypeOK, Entries
  <2>. QED
    BY <2>1, <2>2, <2>3, MatchesIsMeant DEF Selected
<1>2. TypeOK => [\A q \in Previews : DryRun(q) =>
                   preview'[q].expected = {p \in People : /\ entry[p].state = "active"
                                                          /\ entry[p].role = "member"
                                                          /\ Meant(preview[q].form, p)}]_vars
  BY <1>1
<1>. QED
  BY <1>2, TypeCorrect, PTL DEF ListsWhoIsMeant, Spec
=============================================================================
