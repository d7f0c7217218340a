----------------------------- MODULE BulkScreen -----------------------------
(***************************************************************************)
(* Disabling many people at once: the form, preview and run of the admin   *)
(* screen (web/index.html), the conditions (bulkDisableRequest.criteria,   *)
(* BulkCriteria.matches) and handleBulkDisable with and without dry_run.   *)
(*                                                                         *)
(* The screen's requests are asynchronous: the form may be edited, and     *)
(* other administrators and logins may change the whitelist, while one is  *)
(* on its way.  Each handler, the click or arrival of an answer in the     *)
(* browser, and each Disable of a run is one action.                       *)
(***************************************************************************)
EXTENDS Integers

CONSTANTS People,
          YearOf,      \* the entry year an address starts with, if it does
          CreatedAt,   \* when the entry of a person is created, in hours, UTC
          Forms,       \* what the admin may enter
          Previews,    \* slots for dry runs
          Runs         \* slots for runs

\* A value that may be missing is a set with at most one element.
ASSUME PeopleAssumption == /\ YearOf \in [People -> SUBSET Int]
                           /\ \A p \in People : \A y, z \in YearOf[p] : y = z
                           /\ CreatedAt \in [People -> Int]

\* What a form says: entry years and days in Japan, both ends included.
Blank == [yearFrom |-> {}, yearTo |-> {}, dayFrom |-> {}, dayTo |-> {}]
ASSUME FormAssumption == Blank \in Forms /\ Forms \subseteq
  [yearFrom : SUBSET Int, yearTo : SUBSET Int, dayFrom : SUBSET Int, dayTo : SUBSET Int]

VARIABLES entry,      \* the whitelist
          form,       \* the four fields
          previewed,  \* previewedCriteria, if set (the run button is enabled), and
                      \* whom the list under the form makes the admin expect
          preview,    \* dry runs
          run         \* runs
vars == <<entry, form, previewed, preview, run>>
-----------------------------------------------------------------------------
(***************************************************************************)
(* Whom conditions select                                                  *)
(***************************************************************************)
Zone == 9
Day  == 24

\* Variants with a plausible mistake, named "Bad...", stand before the definition
\* they would replace; only the runs that show that a property can fail use them.
BadMidnight(d) == d * Day      \* the date is read as UTC

\* time.ParseInLocation(date, jst): the instant day d begins in Japan.
Midnight(d) == d * Day - Zone

\* criteria: from the start of one day to the start of the day after the other.
Bounds(f) == [yearFrom |-> f.yearFrom, yearTo |-> f.yearTo,
              from   |-> {Midnight(d) : d \in f.dayFrom},
              before |-> {Midnight(d + 1) : d \in f.dayTo}]

\* BulkCriteria.matches
Matches(b, p) ==
  /\ \A y \in b.yearFrom : \E z \in YearOf[p] : z >= y
  /\ \A y \in b.yearTo   : \E z \in YearOf[p] : z <= y
  /\ \A t \in b.from     : CreatedAt[p] >= t
  /\ \A t \in b.before   : CreatedAt[p] < t

Entries == [state : {"absent", "active", "disabled"}, role : {"member", "admin"}]

\* SelectForBulkDisable
Selected(f) == {p \in People : /\ entry[p] = [state |-> "active", role |-> "member"]
                               /\ Matches(Bounds(f), p)}
-----------------------------------------------------------------------------
\* A dry run, its list on the screen and a run carry whom to expect: the people
\* the dry run listed and (history) those who became active members after it.
Lists       == [form : Forms, expected : SUBSET People]
PreviewRecs == [pc : {"idle", "sent", "answered"}, form : Forms, expected : SUBSET People]
RunRecs     == [pc : {"idle", "sent", "disabling"}, form : Forms, expected : SUBSET People,
                todo : SUBSET People]

NoPreview == [pc |-> "idle", form |-> Blank, expected |-> {}]
NoRun     == [pc |-> "idle", form |-> Blank, expected |-> {}, todo |-> {}]

Init ==
  /\ entry \in [People -> [state : {"absent", "active"}, role : {"member"}]]
  /\ form = Blank
  /\ previewed = {}
  /\ preview = [q \in Previews |-> NoPreview]
  /\ run = [r \in Runs |-> NoRun]

\* oninput of any of the fields.
Edit(f) ==
  /\ f # form
  /\ form' = f
  /\ previewed' = {}
  /\ UNCHANGED <<entry, preview, run>>

\* The preview button: the conditions are taken from the form as it is now.
Preview(q) ==
  /\ preview[q].pc = "idle"
  /\ preview' = [preview EXCEPT ![q] = [NoPreview EXCEPT !.pc = "sent", !.form = form]]
  /\ UNCHANGED <<entry, form, previewed, run>>

\* handleBulkDisable with dry_run; no conditions are a 400.
DryRun(q) ==
  LET matched == Selected(preview[q].form) IN
  /\ preview[q].pc = "sent" /\ preview[q].form # Blank
  /\ preview' = [preview EXCEPT ![q].pc = "answered", ![q].expected = matched]
  /\ UNCHANGED <<entry, form, previewed, run>>

\* The answer arrives, possibly after the form was edited or a later preview.
PreviewShown(q) ==
  LET k == preview[q] IN
  /\ k.pc = "answered"
  /\ previewed' = IF k.expected = {} THEN {}
                  ELSE {[form |-> k.form, expected |-> k.expected]}
  /\ preview' = [preview EXCEPT ![q] = NoPreview]
  /\ UNCHANGED <<entry, form, run>>

\* An error, a refusal or a lost answer: an alert, nothing else.
PreviewFails(q) ==
  /\ preview[q].pc # "idle"
  /\ preview' = [preview EXCEPT ![q] = NoPreview]
  /\ UNCHANGED <<entry, form, previewed, run>>

BadRunForm(r) ==               \* the run sends the fields as they are now
  /\ run[r].pc = "idle"
  /\ \E list \in previewed :
       run' = [run EXCEPT ![r] = [NoRun EXCEPT !.pc = "sent", !.form = form,
                                              !.expected = list.expected]]
  /\ UNCHANGED <<entry, form, previewed, preview>>

\* The run button and its confirmation (which blocks the page): the conditions
\* are those of the preview.  The button stays until the run is answered.
Run(r) ==
  /\ run[r].pc = "idle"
  /\ \E list \in previewed :
       run' = [run EXCEPT ![r] = [NoRun EXCEPT !.pc = "sent", !.form = list.form,
                                              !.expected = list.expected]]
  /\ UNCHANGED <<entry, form, previewed, preview>>

\* handleBulkDisable selects again ...
Select(r) ==
  /\ run[r].pc = "sent"
  /\ run' = [run EXCEPT ![r].pc = "disabling", ![r].form = Blank,
                        ![r].todo = Selected(run[r].form)]
  /\ UNCHANGED <<entry, form, previewed, preview>>

BadDisableOne(r, p) ==         \* the entry is marked in a way nothing else knows
  /\ run[r].pc = "disabling" /\ p \in run[r].todo
  /\ entry' = [entry EXCEPT ![p].state = "removed"]
  /\ run' = [run EXCEPT ![r].todo = @ \ {p}]
  /\ UNCHANGED <<form, previewed, preview>>

\* ... and disables one after the other (their sessions: Revocation.tla), going on
\* when one fails or is the last administrator by now (Whitelist.tla).
DisableOne(r, p) ==
  /\ run[r].pc = "disabling" /\ p \in run[r].todo
  /\ entry' \in {entry, [entry EXCEPT ![p].state = "disabled"]}
  /\ run' = [run EXCEPT ![r].todo = @ \ {p}]
  /\ UNCHANGED <<form, previewed, preview>>

\* All are done and the answer arrives: the list makes way for the outcome.
RunShown(r) ==
  /\ run[r].pc = "disabling" /\ run[r].todo = {}
  /\ previewed' = {}
  /\ run' = [run EXCEPT ![r] = NoRun]
  /\ UNCHANGED <<entry, form, preview>>

\* An error or a lost answer: an alert, and the button may be used again.
RunFails(r) ==
  /\ run[r].pc # "idle"
  /\ run' = [run EXCEPT ![r] = NoRun]
  /\ UNCHANGED <<entry, form, previewed, preview>>

\* Other administrators and first logins.
Becomes(p, e) ==
  LET more(x) == IF /\ e = [state |-> "active", role |-> "member"] /\ e # entry[p]
                    /\ x.expected # {}
                 THEN [x EXCEPT !.expected = @ \cup {p}] ELSE x IN
  /\ entry' = [entry EXCEPT ![p] = e]
  /\ previewed' = {more(list) : list \in previewed}
  /\ preview' = [q \in Previews |-> more(preview[q])]
  /\ run' = [r \in Runs |-> IF run[r].pc = "sent" THEN more(run[r]) ELSE run[r]]
  /\ UNCHANGED form

Join(p)    == entry[p].state = "absent"   /\ Becomes(p, [state |-> "active", role |-> "member"])
Enable(p)  == entry[p].state = "disabled" /\ Becomes(p, [entry[p] EXCEPT !.state = "active"])
Disable(p) == entry[p].state = "active"   /\ Becomes(p, [entry[p] EXCEPT !.state = "disabled"])
SetRole(p) == /\ entry[p].state = "active"
              /\ \E role \in {"member", "admin"} : Becomes(p, [entry[p] EXCEPT !.role = role])

Next ==
  \/ \E f \in Forms : Edit(f)
  \/ \E q \in Previews : Preview(q) \/ DryRun(q) \/ PreviewShown(q) \/ PreviewFails(q)
  \/ \E r \in Runs : Run(r) \/ Select(r) \/ RunShown(r) \/ RunFails(r)
  \/ \E r \in Runs, p \in People : DisableOne(r, p)
  \/ \E p \in People : Join(p) \/ Enable(p) \/ Disable(p) \/ SetRole(p)

Spec == Init /\ [][Next]_vars
-----------------------------------------------------------------------------
(***************************************************************************)
(* Properties                                                              *)
(***************************************************************************)
TypeOK ==
  /\ entry \in [People -> Entries]
  /\ form \in Forms
  /\ previewed \subseteq Lists
  /\ preview \in [Previews -> PreviewRecs]
  /\ run \in [Runs -> RunRecs]

\* The day it is in Japan at an instant.
DayOf(t) == (t + Zone) \div Day

\* Whom the README says a form is about: "the first two digits of the address"
\* and the registration date, "both ends included", "2026-04-01 means that day in
\* Japan"; an address without a year is in no range of years.
Meant(f, p) ==
  /\ f.yearFrom \cup f.yearTo # {} => YearOf[p] # {}
  /\ \A y \in YearOf[p] : /\ \A from \in f.yearFrom : y \geq from
                          /\ \A to \in f.yearTo : y \leq to
  /\ \A d \in f.dayFrom : DayOf(CreatedAt[p]) \geq d
  /\ \A d \in f.dayTo   : DayOf(CreatedAt[p]) \leq d

\* A preview lists exactly the active members the form means, on both sides of
\* midnight in Japan and at both ends of the years.
ListsWhoIsMeant ==
  [][\A q \in Previews : DryRun(q) =>
       preview'[q].expected = {p \in People : /\ entry[p].state = "active"
                                              /\ entry[p].role = "member"
                                              /\ Meant(preview[q].form, p)}]_vars

\* Nobody is disabled by surprise: a run only works on people the admin saw in
\* the list when confirming, or who became active members after that list was
\* made, although the form and the whitelist change while requests are on their
\* way and the answers of two previews arrive in any order.
NoSurprise == \A r \in Runs : run[r].todo \subseteq run[r].expected
=============================================================================
