------------------------------ MODULE Whitelist ------------------------------
(***************************************************************************)
(* The whitelist (internal/whitelist) and everything that writes to it:    *)
(* the admin API, the automatic registration of a login (api.admit) and    *)
(* the seed-admin command.                                                 *)
(*                                                                         *)
(* All of them share one SQLite table.  store.Open keeps one connection,   *)
(* so ONE STATEMENT IS ATOMIC, but a handler executes several and other    *)
(* requests, or the command in another process, run between them.  Each    *)
(* action below is one statement with the Go code up to the next one.      *)
(*                                                                         *)
(* A request slot in Requests serves one call after another; an answered   *)
(* call stays in its slot, with its answer, until the slot is reused.      *)
(***************************************************************************)
EXTENDS FiniteSets, Naturals

CONSTANTS Emails, EligibleEmails, Requests

AdminOps == {"add", "setRole", "disable", "enable", "bulk"}
Ops      == AdminOps \cup {"login", "seed"}

ASSUME EligibleAssumption == EligibleEmails \subseteq Emails

VARIABLES table,   \* allowed_emails: the entry of each address
          req      \* the call in each request slot
vars == <<table, req>>

Roles   == {"member", "admin"}
NoEntry == [role |-> "none", active |-> FALSE]
Entries == [role : Roles, active : BOOLEAN] \cup {NoEntry}

\* The statement a call executes next.
Running  == {"authorise", "insert", "inserted", "update", "disable", "enable",
             "select", "explain", "reread"}

Answers  == {"ok", "allowed", "disabled", "email_unverified", "not_nutfes_email",
             "forbidden", "not_found", "not_eligible", "last_admin", "error"}
Refusals == Answers \ {"ok", "allowed", "error"}

\* A call.  The last two fields are history, read by properties only.
Calls == [op      : Ops,
          pc      : Running \cup {"idle", "done"},
          caller  : Emails,        \* whose ID token the admin request carries
          email   : Emails,        \* the address it is about
          role    : Roles,
          todo    : SUBSET Emails, \* bulk: selected and not yet handled
          barred  : SUBSET Emails, \* reported to the caller as disabled
          res     : Answers,
          changed : BOOLEAN,       \* has it changed a row?
          undone  : SUBSET Emails] \* rows that a call meant to has set against it
                                   \* since it arrived or last wrote them

Listed(e)    == table[e] # NoEntry
ActiveAdmin(e) == table[e].role = "admin" /\ table[e].active
ActiveAdmins == {e \in Emails : ActiveAdmin(e)}
ActiveMembers == {e \in Emails : table[e].role = "member" /\ table[e].active}

\* Variants with a plausible mistake, named "Bad...", stand before the definition
\* they would replace; only the runs that show that a property can fail use them.
BadGuardOffByOne(e)    == ActiveAdmin(e) /\ Cardinality(ActiveAdmins) < 1
BadGuardCountsDisabled(e) ==
  ActiveAdmin(e) /\ Cardinality({a \in Emails : table[a].role = "admin"}) <= 1

\* lastAdminGuard: the row is the only remaining active admin.
LastAdmin(e) == ActiveAdmin(e) /\ Cardinality(ActiveAdmins) <= 1
-----------------------------------------------------------------------------
At(r, pc)       == req[r].pc = pc
Live(r)         == req[r].pc \in Running
Become(r, call) == req' = [req EXCEPT ![r] = call]
Goto(r, pc)     == Become(r, [req[r] EXCEPT !.pc = pc])
Answer(r, res)  == Become(r, [req[r] EXCEPT !.pc = "done", !.res = res, !.caller = req[r].email])

\* Does this entry of e contradict what the call is doing about e?
Against(call, e, entry) ==
  \/ /\ call.op = "bulk" /\ e \in call.todo \cup call.barred
     /\ entry.active
  \/ call.op = "disable" /\ e = call.email /\ entry.active
  \/ call.op \in {"enable", "login"} /\ e = call.email /\ ~entry.active
  \/ call.op \in {"setRole", "seed"} /\ e = call.email /\ entry.role # call.role

\* The operations that are meant to undo what op does.
Undoing(op) == CASE op \in {"disable", "bulk"} -> {"enable"}
                 [] op \in {"enable", "login"} -> {"disable", "bulk"}
                 [] op \in {"setRole", "seed"} -> {"setRole", "seed"}
                 [] op = "add"                 -> {}

\* Statement of r that sets the row of e, after which r is at pc: every other
\* call learns (as history) whether that undoes it.
SetRow(r, e, entry, pc) ==
  /\ table' = [table EXCEPT ![e] = entry]
  /\ req' = [q \in Requests |->
       IF q = r THEN [req[r] EXCEPT !.pc = pc, !.email = e, !.changed = TRUE,
                                    !.undone = @ \ {e}]
       ELSE IF req[r].op \in Undoing(req[q].op) /\ Against(req[q], e, entry)
       THEN [req[q] EXCEPT !.undone = @ \cup {e}]
       ELSE req[q]]
-----------------------------------------------------------------------------
Call(op, pc, caller, email, role, res) ==
  [op |-> op, pc |-> pc, caller |-> caller, email |-> email, role |-> role,
   todo |-> {}, barred |-> {}, res |-> res,
   changed |-> FALSE, undone |-> {}]

Init == /\ table = [e \in Emails |-> NoEntry]
        /\ \E e \in Emails :
             req = [r \in Requests |-> Call("login", "idle", e, e, "member", "error")]

Free(r) == ~Live(r)

\* An admin request reaches requireAdmin with a verified token of its caller.
\* Enable, Disable and bulk ignore the role, which is fixed to keep one call
\* from having two representations; so is the address of a bulk run.
AdminCall(r) ==
  /\ Free(r)
  /\ \E op \in AdminOps, caller, email \in Emails, role \in Roles :
       /\ op \in {"disable", "enable", "bulk"} => role = "member"
       /\ op = "bulk" => email = caller
       /\ Become(r, Call(op, "authorise", caller, email, role, "error"))
  /\ UNCHANGED table

\* A login whose ID token has been verified reaches admit.
SignIn(r) ==
  /\ Free(r)
  /\ \E email \in Emails, emailVerified \in BOOLEAN :
       LET Start(pc, res) == Become(r, Call("login", pc, email, email, "member", res))
       IN  \/ ~emailVerified /\ Start("done", "email_unverified")
           \/ emailVerified /\ email \notin EligibleEmails /\ Start("done", "not_nutfes_email")
           \/ emailVerified /\ email \in EligibleEmails /\ Start("insert", "error")
  /\ UNCHANGED table

\* seed-admin is started on the server.
SeedAdmin(r) ==
  /\ Free(r)
  /\ \E email \in Emails :
       Become(r, Call("seed", "insert", email, email, "admin", "error"))
  /\ UNCHANGED table

FirstStatement(op) == CASE op = "add"     -> "insert"
                        [] op = "setRole" -> "update"
                        [] op = "disable" -> "disable"
                        [] op = "enable"  -> "enable"
                        [] op = "bulk"    -> "select"

\* The handler runs.  It never asks who the caller was, so the call forgets it
\* (here and when it is answered).
Admitted(r) ==
  Become(r, [req[r] EXCEPT !.pc = FirstStatement(req[r].op), !.caller = req[r].email])

\* requireAdmin looks the caller up and only then runs the handler.
Authorise(r) ==
  /\ At(r, "authorise")
  /\ IF ActiveAdmin(req[r].caller) THEN Admitted(r) ELSE Answer(r, "forbidden")
  /\ UNCHANGED table

BadInsertRevives(r) ==    \* ON CONFLICT DO UPDATE SET disabled_at = NULL
  LET e == req[r].email IN
  /\ At(r, "insert")
  /\ e \in EligibleEmails
  /\ SetRow(r, e, [role |-> IF Listed(e) THEN table[e].role ELSE req[r].role,
                   active |-> TRUE], "inserted")

BadInsertNoRole(r) ==     \* the role of the request is not passed on
  LET e == req[r].email IN
  /\ At(r, "insert")
  /\ IF Listed(e) THEN Goto(r, "inserted") /\ UNCHANGED table
     ELSE SetRow(r, e, [role |-> "none", active |-> TRUE], "inserted")

\* Add: INSERT ... ON CONFLICT DO NOTHING.
Insert(r) ==
  LET e == req[r].email IN
  /\ At(r, "insert")
  /\ \/ e \notin EligibleEmails /\ Answer(r, "not_eligible") /\ UNCHANGED table
     \/ e \in EligibleEmails /\ Listed(e) /\ Goto(r, "inserted") /\ UNCHANGED table
     \/ /\ e \in EligibleEmails /\ ~Listed(e)
        /\ SetRow(r, e, [role |-> req[r].role, active |-> TRUE], "inserted")

\* Add: the Lookup that follows, and what its three callers do with the entry.
Inserted(r) ==
  LET call  == req[r]
      entry == table[call.email]
      res   == CASE entry = NoEntry                       -> "not_found"
                 [] call.op = "login" /\ ~entry.active    -> "disabled"
                 [] call.op = "login" /\ entry.active     -> "allowed"
                 [] OTHER                                 -> "ok"
  IN
  /\ At(r, "inserted")
  /\ IF call.op = "seed" /\ entry # NoEntry THEN Goto(r, "update")
                                           ELSE Answer(r, res)
  /\ UNCHANGED table

BadUpdateExplained(r) ==  \* explainNoop ignores RowsAffected
  LET e == req[r].email  role == req[r].role IN
  /\ At(r, "update")
  /\ IF Listed(e) /\ ~(role = "member" /\ LastAdmin(e))
     THEN SetRow(r, e, [table[e] EXCEPT !.role = role], "explain")
     ELSE Goto(r, "explain") /\ UNCHANGED table

\* SetRole: UPDATE ... WHERE email = ? AND NOT (demotion of the last admin).
UpdateRole(r) ==
  LET e == req[r].email  role == req[r].role IN
  /\ At(r, "update")
  /\ IF Listed(e) /\ ~(role = "member" /\ LastAdmin(e))
     THEN SetRow(r, e, [table[e] EXCEPT !.role = role], "reread")
     ELSE Goto(r, "explain") /\ UNCHANGED table

\* SelectForBulkDisable: the active members that match the criteria.
BulkSelect(r) ==
  /\ At(r, "select")
  /\ \E matched \in SUBSET ActiveMembers :
       Become(r, [req[r] EXCEPT !.todo = matched,
                                !.pc   = IF matched = {} THEN "done" ELSE "disable",
                                !.res  = IF matched = {} THEN "ok" ELSE @])
  /\ UNCHANGED table

\* Disable: UPDATE ... WHERE disabled_at IS NULL AND NOT (last admin), of the
\* address in the request or of the next one of a bulk run.
DisableTargets(r) == IF req[r].op = "bulk" THEN req[r].todo ELSE {req[r].email}

DisableRow(r) ==
  /\ At(r, "disable")
  /\ \E e \in DisableTargets(r) :
       IF Listed(e) /\ table[e].active /\ ~LastAdmin(e)
       THEN SetRow(r, e, [table[e] EXCEPT !.active = FALSE], "reread")
       ELSE /\ Become(r, [req[r] EXCEPT !.pc = "explain", !.email = e])
            /\ UNCHANGED table

\* The rest of the entry e of a bulk run: report it and go on with the others.
BulkNext(r, e, barred) ==
  LET rest == req[r].todo \ {e} IN
  Become(r, [req[r] EXCEPT !.email = e, !.todo = rest, !.barred = barred,
                           !.pc   = IF rest = {} THEN "done" ELSE "disable",
                           !.res  = IF rest = {} THEN "ok" ELSE @])

\* explainNoop: no row changed, so look again and guess why.
Explain(r) ==
  LET entry == table[req[r].email]
      Refuse(res) == IF req[r].op = "bulk" THEN BulkNext(r, req[r].email, req[r].barred)
                                           ELSE Answer(r, res)
  IN
  /\ At(r, "explain")
  /\ \/ entry = NoEntry /\ Refuse("not_found")
     \/ entry # NoEntry /\ ~entry.active /\ Goto(r, "reread")
     \/ entry # NoEntry /\ entry.active /\ Refuse("last_admin")
  /\ UNCHANGED table

\* Enable: UPDATE ... SET disabled_at = NULL WHERE email = ?.
EnableRow(r) ==
  LET e == req[r].email IN
  /\ At(r, "enable")
  /\ IF Listed(e)
     THEN SetRow(r, e, [table[e] EXCEPT !.active = TRUE], "reread")
     ELSE Answer(r, "not_found") /\ UNCHANGED table

\* The Lookup of the entry that SetRole, Disable and Enable return.
Reread(r) ==
  LET call   == req[r]
      barred == IF call.op \in {"disable", "bulk"} /\ Listed(call.email)
                THEN call.barred \cup {call.email} ELSE call.barred
  IN
  /\ At(r, "reread")
  /\ IF call.op = "bulk"
     THEN BulkNext(r, call.email, barred)
     ELSE Become(r, [call EXCEPT !.pc = "done", !.barred = barred,
                                 !.res = IF Listed(call.email) THEN "ok" ELSE "not_found"])
  /\ UNCHANGED table

\* A statement of one entry of a bulk run fails: it is reported and skipped.
BulkEntryFails(r) ==
  /\ req[r].op = "bulk"
  /\ \/ At(r, "disable") /\ \E e \in req[r].todo : BulkNext(r, e, req[r].barred)
     \/ (At(r, "explain") \/ At(r, "reread")) /\ BulkNext(r, req[r].email, req[r].barred)
  /\ UNCHANGED table

\* A statement fails, the client hangs up (which cancels the request's
\* context) or the process dies: the call ends where it is.
Fail(r) == Live(r) /\ Answer(r, "error") /\ UNCHANGED table

Statement(r) == \/ Authorise(r) \/ Insert(r) \/ Inserted(r) \/ UpdateRole(r)
                \/ BulkSelect(r) \/ DisableRow(r) \/ Explain(r) \/ EnableRow(r)
                \/ Reread(r)

Next == \E r \in Requests : \/ AdminCall(r) \/ SignIn(r) \/ SeedAdmin(r)
                            \/ Statement(r)
                            \/ BulkEntryFails(r) \/ Fail(r)

Spec == Init /\ [][Next]_vars
-----------------------------------------------------------------------------
(***************************************************************************)
(* Properties                                                              *)
(***************************************************************************)
\* The columns and the calls have their types.
TypeOK == /\ table \in [Emails -> Entries]
          /\ req \in [Requests -> Calls]

\* A call that passed requireAdmin and is still executing, whoever made it and
\* whatever became of its caller, runs on a platform that has an active
\* administrator: requireAdmin is not repeated, lastAdminGuard must hold the
\* line between two statements of any interleaving.
UnderAuthority ==
  \A r \in Requests :
    (req[r].op \in AdminOps /\ req[r].pc \in Running \ {"authorise"}) => ActiveAdmins # {}

\* Whether an administrator exists and whose entry is disabled or demoted is
\* decided in one statement, so the table implements the roster: every change
\* but self-registration and the command line is overseen by somebody else.
R == INSTANCE Roster WITH roster <- table
ImplementsRoster == R!Spec

\* Once there is an active administrator there always is one ("the last active
\* administrator cannot be disabled or demoted"), also when two of them act on
\* each other at the same time.
KeepsAnAdmin == R!AlwaysAdministered

\* What a call reported stays true until a call that is meant to undo it does:
\* somebody reported as disabled is revived by Enable alone, not by logging in
\* again, by being added, promoted or seeded; an enabled or allowed person is
\* active; a role that was set stays.  (SetRole also answers 200 when it changed
\* nothing because the entry is disabled by the time explainNoop looks.)
Reported(call) ==
  CASE call.op \in {"disable", "bulk"} -> call.barred
    [] call.op \in {"setRole", "seed"} -> IF call.res = "ok" /\ call.changed THEN {call.email} ELSE {}
    [] OTHER                           -> IF call.res \in {"ok", "allowed"} THEN {call.email} ELSE {}

AcknowledgedHolds ==
  \A r \in Requests : At(r, "done") =>
    \A e \in Reported(req[r]) \ req[r].undone : ~Against(req[r], e, table[e])

\* A call that is answered with a refusal has changed no row: in particular
\* explainNoop only ever explains a statement that did nothing.
RefusalChangedNothing ==
  \A r \in Requests :
    At(r, "done") /\ req[r].res \in Refusals /\ req[r].op # "login" => ~req[r].changed
=============================================================================
