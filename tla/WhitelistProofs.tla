-------------------------- MODULE WhitelistProofs --------------------------
(***************************************************************************)
(* Proofs about Whitelist, for any set of addresses and any number of      *)
(* calls in flight.                                                        *)
(***************************************************************************)
EXTENDS Whitelist, FiniteSetTheorems, TLAPS

\* The shape of a call: which operations reach which statement, with which role.
WellFormed(call) ==
  /\ call.pc \in {"insert", "inserted"} => call.op \in {"add", "login", "seed"}
  /\ call.pc = "update"    => call.op \in {"setRole", "seed"}
  /\ call.pc = "disable"   => call.op \in {"disable", "bulk"}
  /\ call.pc = "enable"    => call.op = "enable"
  /\ call.pc = "select"    => call.op = "bulk"
  /\ call.pc = "authorise" => call.op \in AdminOps
  /\ call.pc \in {"explain", "reread"} => call.op \notin {"add", "login"}
  /\ call.op = "seed"      => call.role = "admin"
  /\ call.op = "login"     => call.role = "member"
CallOK == \A r \in Requests : WellFormed(req[r])

\* Only eligible addresses have a row.
EligibleRows == \A e \in Emails : Listed(e) => e \in EligibleEmails

IInv == TypeOK /\ CallOK /\ EligibleRows /\ UnderAuthority

-----------------------------------------------------------------------------
\* The UPDATEs' guard: if an active admin is not the last one, another one is
\* in charge as well.
LEMMA NotLast ==
  ASSUME NEW e \in Emails, ActiveAdmin(e), ~LastAdmin(e)
  PROVE  \E a \in Emails \ {e} : ActiveAdmin(a)
<1>1. SUFFICES ASSUME \A a \in Emails \ {e} : ~ActiveAdmin(a)
               PROVE  FALSE
  OBVIOUS
<1>2. ActiveAdmins = {e}
  BY <1>1 DEF ActiveAdmins
<1>3. Cardinality({e}) = 1
  BY FS_Singleton
<1>. QED
  BY <1>2, <1>3 DEF LastAdmin

\* A call that becomes another well-typed one keeps the types ...
LEMMA BecomeType ==
  ASSUME TypeOK, NEW r \in Requests, NEW call \in Calls, Become(r, call), UNCHANGED table
  PROVE  TypeOK'
BY DEF TypeOK, Become

\* ... and so does one that moves to another statement or is answered.
LEMMA GotoType ==
  ASSUME TypeOK, NEW r \in Requests, NEW pc \in Running, Goto(r, pc), UNCHANGED table
  PROVE  TypeOK'
<1>1. [req[r] EXCEPT !.pc = pc] \in Calls
  BY DEF TypeOK, Calls
<1>. QED
  BY <1>1, BecomeType DEF Goto

LEMMA AnswerType ==
  ASSUME TypeOK, NEW r \in Requests, NEW res \in Answers, UNCHANGED table, Answer(r, res)
  PROVE  TypeOK'
<1>1. [req[r] EXCEPT !.pc = "done", !.res = res, !.caller = req[r].email] \in Calls
  BY DEF TypeOK, Calls
<1>. QED
  BY <1>1, BecomeType DEF Answer

LEMMA BulkNextType ==
  ASSUME TypeOK, NEW r \in Requests, NEW e \in Emails, NEW barred \in SUBSET Emails,
         BulkNext(r, e, barred), UNCHANGED table
  PROVE  TypeOK'
<1>. DEFINE rest == req[r].todo \ {e}
            next == [req[r] EXCEPT !.email = e, !.todo = rest, !.barred = barred,
                           !.pc   = IF rest = {} THEN "done" ELSE "disable",
                           !.res  = IF rest = {} THEN "ok" ELSE @]
<1>1. next \in Calls
  <2>1. rest \in SUBSET Emails /\ req[r] \in Calls
    BY DEF TypeOK, Calls
  <2>. HIDE DEF rest
  <2>2. CASE rest = {}
    BY <2>1, <2>2 DEF Calls, Answers
  <2>3. CASE rest # {}
    BY <2>1, <2>3 DEF Calls, Running
  <2>. QED
    BY <2>2, <2>3
<1>2. Become(r, next)
  BY DEF BulkNext
<1>. QED
  BY <1>1, <1>2, BecomeType

\* A new call is well typed.
LEMMA CallType ==
  ASSUME NEW op \in Ops, NEW pc \in Running \cup {"idle", "done"}, NEW caller \in Emails,
         NEW email \in Emails, NEW role \in Roles, NEW res \in Answers
  PROVE  Call(op, pc, caller, email, role, res) \in Calls
BY DEF Call, Calls, Entries

\* A statement that sets the row of e to an entry keeps the types ...
LEMMA SetRowType ==
  ASSUME TypeOK, NEW r \in Requests, NEW e \in Emails, NEW entry \in Entries,
         NEW pc \in Running, SetRow(r, e, entry, pc)
  PROVE  TypeOK'
<1>1. table' \in [Emails -> Entries]
  BY DEF TypeOK, SetRow
<1>2. ASSUME NEW q \in Requests
      PROVE  req'[q] \in Calls
  <2>1. CASE q = r
    BY <2>1 DEF TypeOK, SetRow, Calls
  <2>2. CASE q # r
    BY <2>2 DEF TypeOK, SetRow, Calls
  <2>. QED
    BY <2>1, <2>2
<1>. QED
  BY <1>1, <1>2 DEF TypeOK, SetRow

\* ... and, of the calls, only moves r and the history of the others.
LEMMA SetRowCalls ==
  ASSUME TypeOK, NEW r \in Requests, NEW e \in Emails, NEW entry,
         NEW pc, SetRow(r, e, entry, pc)
  PROVE  /\ req'[r].pc = pc /\ req'[r].op = req[r].op /\ req'[r].role = req[r].role
         /\ \A q \in Requests \ {r} :
              /\ req'[q].pc = req[q].pc /\ req'[q].op = req[q].op
              /\ req'[q].role = req[q].role
BY DEF TypeOK, SetRow, Calls
-----------------------------------------------------------------------------
LEMMA InitIInv == Init => IInv
BY DEF Init, IInv, TypeOK, CallOK, WellFormed, EligibleRows, UnderAuthority, Entries, Calls, Call,
       Listed, Running, Ops, AdminOps, Roles, Answers, NoEntry

LEMMA TypeStep == ASSUME IInv, [Next]_vars PROVE TypeOK'
<1>. USE DEF IInv
<1>. req \in [Requests -> Calls] /\ table \in [Emails -> Entries]
  BY DEF TypeOK
<1>1. CASE UNCHANGED vars
  BY <1>1 DEF TypeOK, vars
<1>2. ASSUME NEW r \in Requests, AdminCall(r) PROVE TypeOK'
  <2>1. PICK op \in AdminOps, caller \in Emails, email \in Emails, role \in Roles :
          Become(r, Call(op, "authorise", caller, email, role, "error"))
    BY <1>2 DEF AdminCall
  <2>2. Call(op, "authorise", caller, email, role, "error") \in Calls
    BY CallType DEF Ops, Running, Answers
  <2>. QED
    BY <1>2, <2>1, <2>2, BecomeType DEF AdminCall
<1>3. ASSUME NEW r \in Requests, SignIn(r) PROVE TypeOK'
  <2>1. PICK email \in Emails, pc \in {"insert", "done"}, res \in Answers :
          Become(r, Call("login", pc, email, email, "member", res))
    BY <1>3 DEF SignIn, Answers
  <2>2. Call("login", pc, email, email, "member", res) \in Calls
    BY CallType DEF Ops, Roles, Running
  <2>. QED
    BY <1>3, <2>1, <2>2, BecomeType DEF SignIn
<1>4. ASSUME NEW r \in Requests, SeedAdmin(r) PROVE TypeOK'
  <2>1. PICK email \in Emails :
          Become(r, Call("seed", "insert", email, email, "admin", "error"))
    BY <1>4 DEF SeedAdmin
  <2>2. Call("seed", "insert", email, email, "admin", "error") \in Calls
    BY CallType DEF Ops, Roles, Running, Answers
  <2>. QED
    BY <1>4, <2>1, <2>2, BecomeType DEF SeedAdmin
<1>5. ASSUME NEW r \in Requests, Authorise(r) PROVE TypeOK'
  <2>1. FirstStatement(req[r].op) \in Running
    BY <1>5 DEF CallOK, WellFormed, Authorise, At, AdminOps, FirstStatement, Running
  <2>2. [req[r] EXCEPT !.pc = FirstStatement(req[r].op), !.caller = req[r].email] \in Calls
    BY <2>1 DEF Calls
  <2>3. CASE Admitted(r)
    BY <1>5, <2>2, <2>3, BecomeType DEF Authorise, Admitted
  <2>4. CASE Answer(r, "forbidden")
    BY <1>5, <2>4, AnswerType DEF Authorise, Answers
  <2>. QED
    BY <1>5, <2>3, <2>4 DEF Authorise
<1>6. ASSUME NEW r \in Requests, Insert(r) PROVE TypeOK'
  <2>1. [role |-> req[r].role, active |-> TRUE] \in Entries /\ req[r].email \in Emails
    BY DEF Calls, Entries
  <2>2. CASE SetRow(r, req[r].email, [role |-> req[r].role, active |-> TRUE], "inserted")
    BY <2>1, <2>2, SetRowType DEF Running
  <2>3. CASE UNCHANGED table /\ (Goto(r, "inserted") \/ Answer(r, "not_eligible"))
    BY <2>3, GotoType, AnswerType DEF Running, Answers
  <2>. QED
    BY <1>6, <2>2, <2>3 DEF Insert
<1>7. ASSUME NEW r \in Requests, Inserted(r) PROVE TypeOK'
  <2>1. /\ UNCHANGED table
        /\ \/ Goto(r, "update")
           \/ \E res \in Answers : Answer(r, res)
    BY <1>7 DEF Inserted, Answers
  <2>2. CASE Goto(r, "update")
    BY <2>1, <2>2, GotoType DEF Running
  <2>3. ASSUME NEW res \in Answers, Answer(r, res) PROVE TypeOK'
    BY <2>1, <2>3, AnswerType
  <2>. QED
    BY <2>1, <2>2, <2>3
<1>8. ASSUME NEW r \in Requests, UpdateRole(r) PROVE TypeOK'
  <2>. DEFINE entry == [table[req[r].email] EXCEPT !.role = req[r].role]
  <2>1. req[r].email \in Emails /\ (Listed(req[r].email) => entry \in Entries)
    BY DEF Calls, Entries, Listed
  <2>2. CASE Goto(r, "explain") /\ UNCHANGED table
    BY <2>2, GotoType DEF Running
  <2>3. CASE Listed(req[r].email) /\ SetRow(r, req[r].email, entry, "reread")
    BY <2>1, <2>3, SetRowType DEF Running
  <2>. QED
    BY <1>8, <2>2, <2>3 DEF UpdateRole
<1>9. ASSUME NEW r \in Requests, BulkSelect(r) PROVE TypeOK'
  <2>. DEFINE next(matched) ==
          [req[r] EXCEPT !.todo = matched,
                         !.pc   = IF matched = {} THEN "done" ELSE "disable",
                         !.res  = IF matched = {} THEN "ok" ELSE @]
  <2>1. PICK matched \in SUBSET ActiveMembers : Become(r, next(matched))
    BY <1>9 DEF BulkSelect
  <2>2. next(matched) \in Calls
    <3>1. matched \in SUBSET Emails /\ req[r] \in Calls
      BY DEF ActiveMembers
    <3>2. CASE matched = {}
      BY <3>1, <3>2 DEF Calls, Answers
    <3>3. CASE matched # {}
      BY <3>1, <3>3 DEF Calls, Running
    <3>. QED
      BY <3>2, <3>3
  <2>. QED
    BY <1>9, <2>1, <2>2, BecomeType DEF BulkSelect
<1>10. ASSUME NEW r \in Requests, DisableRow(r) PROVE TypeOK'
  <2>1. PICK e \in DisableTargets(r) :
          \/ /\ Listed(e)
             /\ SetRow(r, e, [table[e] EXCEPT !.active = FALSE], "reread")
          \/ /\ Become(r, [req[r] EXCEPT !.pc = "explain", !.email = e])
             /\ UNCHANGED table
    BY <1>10 DEF DisableRow
  <2>2. e \in Emails
    BY DEF Calls, DisableTargets
  <2>3. Listed(e) => [table[e] EXCEPT !.active = FALSE] \in Entries
    BY <2>2 DEF Entries, Listed
  <2>4. [req[r] EXCEPT !.pc = "explain", !.email = e] \in Calls
    BY <2>2 DEF Calls, Running
  <2>. QED
    BY <2>1, <2>2, <2>3, <2>4, SetRowType, BecomeType DEF Running
<1>11. ASSUME NEW r \in Requests, Explain(r) PROVE TypeOK'
  <2>1. /\ UNCHANGED table
        /\ \/ Goto(r, "reread")
           \/ BulkNext(r, req[r].email, req[r].barred)
           \/ \E res \in {"not_found", "last_admin"} : Answer(r, res)
    BY <1>11 DEF Explain
  <2>2. req[r].email \in Emails /\ req[r].barred \in SUBSET Emails
    BY DEF Calls
  <2>3. CASE Goto(r, "reread")
    BY <2>1, <2>3, GotoType DEF Running
  <2>4. CASE BulkNext(r, req[r].email, req[r].barred)
    BY <2>1, <2>2, <2>4, BulkNextType
  <2>5. ASSUME NEW res \in {"not_found", "last_admin"}, Answer(r, res) PROVE TypeOK'
    BY <2>1, <2>5, AnswerType DEF Answers
  <2>. QED
    BY <2>1, <2>3, <2>4, <2>5
<1>12. ASSUME NEW r \in Requests, EnableRow(r) PROVE TypeOK'
  <2>1. req[r].email \in Emails
    BY DEF Calls
  <2>2. Listed(req[r].email) => [table[req[r].email] EXCEPT !.active = TRUE] \in Entries
    BY <2>1 DEF Entries, Listed
  <2>3. CASE Listed(req[r].email)
    BY <1>12, <2>1, <2>2, <2>3, SetRowType DEF EnableRow, Running
  <2>4. CASE ~Listed(req[r].email)
    BY <1>12, <2>4, AnswerType DEF EnableRow, Answers
  <2>. QED
    BY <2>3, <2>4
<1>13. ASSUME NEW r \in Requests, Reread(r) PROVE TypeOK'
  <2>. DEFINE next(barred, res) == [req[r] EXCEPT !.pc = "done", !.barred = barred, !.res = res]
  <2>1. req[r].email \in Emails /\ req[r].barred \in SUBSET Emails
    BY DEF Calls
  <2>2. PICK barred \in SUBSET Emails, res \in {"ok", "not_found"} :
          BulkNext(r, req[r].email, barred) \/ Become(r, next(barred, res))
    <3>1. CASE Listed(req[r].email)
      BY <1>13, <2>1, <3>1 DEF Reread
    <3>2. CASE ~Listed(req[r].email)
      BY <1>13, <2>1, <3>2 DEF Reread
    <3>. QED
      BY <3>1, <3>2
  <2>3. next(barred, res) \in Calls
    BY <2>1 DEF Calls, Answers
  <2>. QED
    BY <1>13, <2>1, <2>2, <2>3, BulkNextType, BecomeType DEF Reread
<1>14. ASSUME NEW r \in Requests, BulkEntryFails(r) PROVE TypeOK'
  <2>1. PICK e \in Emails : BulkNext(r, e, req[r].barred) /\ UNCHANGED table
    BY <1>14 DEF BulkEntryFails, Calls
  <2>2. req[r].barred \in SUBSET Emails
    BY DEF Calls
  <2>. QED
    BY <2>1, <2>2, BulkNextType
<1>15. ASSUME NEW r \in Requests, Fail(r) PROVE TypeOK'
  BY <1>15, AnswerType DEF Fail, Answers
<1>. QED
  BY <1>1, <1>2, <1>3, <1>4, <1>5, <1>6, <1>7, <1>8, <1>9, <1>10, <1>11, <1>12, <1>13,
     <1>14, <1>15 DEF Next, Statement
-----------------------------------------------------------------------------
LEMMA BecomeOK ==
  ASSUME TypeOK, CallOK, NEW r \in Requests, NEW call, WellFormed(call), Become(r, call)
  PROVE  CallOK'
BY DEF TypeOK, CallOK, WellFormed, Become

LEMMA SetRowOK ==
  ASSUME TypeOK, CallOK, NEW r \in Requests, NEW e \in Emails, NEW entry,
         NEW pc, SetRow(r, e, entry, pc), WellFormed([req[r] EXCEPT !.pc = pc])
  PROVE  CallOK'
<1>1. req[r] \in Calls
  BY DEF TypeOK
<1>2. WellFormed(req'[r])
  BY <1>1, SetRowCalls DEF WellFormed, Calls
<1>3. ASSUME NEW q \in Requests \ {r} PROVE WellFormed(req'[q])
  BY <1>3, SetRowCalls DEF WellFormed, CallOK
<1>. QED
  BY <1>2, <1>3 DEF CallOK, WellFormed

\* A call moves along the statements of its operation.
LEMMA CallStep == ASSUME IInv, [Next]_vars PROVE CallOK'
<1>. USE DEF IInv
<1>. req \in [Requests -> Calls] /\ \A r \in Requests : WellFormed(req[r])
  BY DEF TypeOK, CallOK
<1>1. CASE UNCHANGED vars
  BY <1>1 DEF CallOK, WellFormed, vars
<1>2. ASSUME NEW r \in Requests, AdminCall(r) PROVE CallOK'
  <2>1. PICK op \in AdminOps, caller \in Emails, email \in Emails, role \in Roles :
          Become(r, Call(op, "authorise", caller, email, role, "error"))
    BY <1>2 DEF AdminCall
  <2>2. WellFormed(Call(op, "authorise", caller, email, role, "error"))
    BY DEF Call, WellFormed, AdminOps
  <2>. QED
    BY <2>1, <2>2, BecomeOK
<1>3. ASSUME NEW r \in Requests, SignIn(r) PROVE CallOK'
  <2>1. PICK email \in Emails, pc \in {"insert", "done"}, res \in Answers :
          Become(r, Call("login", pc, email, email, "member", res))
    BY <1>3 DEF SignIn, Answers
  <2>2. WellFormed(Call("login", pc, email, email, "member", res))
    BY DEF Call, WellFormed
  <2>. QED
    BY <2>1, <2>2, BecomeOK
<1>4. ASSUME NEW r \in Requests, SeedAdmin(r) PROVE CallOK'
  <2>1. PICK email \in Emails :
          Become(r, Call("seed", "insert", email, email, "admin", "error"))
    BY <1>4 DEF SeedAdmin
  <2>2. WellFormed(Call("seed", "insert", email, email, "admin", "error"))
    BY DEF Call, WellFormed
  <2>. QED
    BY <2>1, <2>2, BecomeOK
<1>5. ASSUME NEW r \in Requests, NEW res, Answer(r, res) PROVE CallOK'
  <2>1. WellFormed([req[r] EXCEPT !.pc = "done", !.res = res, !.caller = req[r].email])
    BY DEF Calls, WellFormed
  <2>. QED
    BY <1>5, <2>1, BecomeOK DEF Answer
<1>6. ASSUME NEW r \in Requests, NEW pc, Goto(r, pc), WellFormed([req[r] EXCEPT !.pc = pc])
      PROVE  CallOK'
  BY <1>6, BecomeOK DEF Goto
<1>7. ASSUME NEW r \in Requests, NEW e, NEW barred, BulkNext(r, e, barred), req[r].op = "bulk"
      PROVE  CallOK'
  <2>. DEFINE rest == req[r].todo \ {e}
              next == [req[r] EXCEPT !.email = e, !.todo = rest, !.barred = barred,
                             !.pc   = IF rest = {} THEN "done" ELSE "disable",
                             !.res  = IF rest = {} THEN "ok" ELSE @]
  <2>1. next.op = "bulk" /\ next.pc \in {"done", "disable"} /\ next.role = req[r].role
    BY <1>7 DEF Calls
  <2>2. WellFormed(next)
    BY <2>1 DEF WellFormed
  <2>3. Become(r, next)
    BY <1>7 DEF BulkNext
  <2>. HIDE DEF next
  <2>. QED
    BY <2>2, <2>3, BecomeOK
<1>8. ASSUME NEW r \in Requests, Authorise(r) PROVE CallOK'
  <2>1. WellFormed([req[r] EXCEPT !.pc = FirstStatement(req[r].op), !.caller = req[r].email])
    BY <1>8 DEF Authorise, At, WellFormed, AdminOps, FirstStatement, Calls
  <2>. QED
    BY <1>5, <1>8, <2>1, BecomeOK DEF Authorise, Admitted
<1>9. ASSUME NEW r \in Requests, Insert(r) PROVE CallOK'
  <2>1. WellFormed([req[r] EXCEPT !.pc = "inserted"]) /\ req[r].email \in Emails
    BY <1>9 DEF Insert, At, WellFormed, Calls
  <2>. QED
    BY <1>5, <1>6, <1>9, <2>1, SetRowOK DEF Insert
<1>10. ASSUME NEW r \in Requests, Inserted(r) PROVE CallOK'
  <2>1. CASE req[r].op = "seed"
    <3>1. WellFormed([req[r] EXCEPT !.pc = "update"])
      BY <1>10, <2>1 DEF Inserted, At, WellFormed, Calls
    <3>. QED
      BY <1>5, <1>6, <1>10, <3>1 DEF Inserted
  <2>2. CASE req[r].op # "seed"
    BY <1>5, <1>10, <2>2 DEF Inserted
  <2>. QED
    BY <2>1, <2>2
<1>11. ASSUME NEW r \in Requests, UpdateRole(r) PROVE CallOK'
  <2>1. /\ WellFormed([req[r] EXCEPT !.pc = "reread"])
        /\ WellFormed([req[r] EXCEPT !.pc = "explain"])
        /\ req[r].email \in Emails
    BY <1>11 DEF UpdateRole, At, WellFormed, Calls
  <2>. QED
    BY <1>6, <1>11, <2>1, SetRowOK DEF UpdateRole
<1>12. ASSUME NEW r \in Requests, BulkSelect(r) PROVE CallOK'
  <2>. DEFINE next(matched) ==
          [req[r] EXCEPT !.todo = matched,
                         !.pc   = IF matched = {} THEN "done" ELSE "disable",
                         !.res  = IF matched = {} THEN "ok" ELSE @]
  <2>1. PICK matched \in SUBSET ActiveMembers : Become(r, next(matched))
    BY <1>12 DEF BulkSelect
  <2>2. /\ next(matched).op = "bulk" /\ next(matched).role = req[r].role
        /\ next(matched).pc \in {"done", "disable"}
    BY <1>12 DEF BulkSelect, At, WellFormed, Calls
  <2>3. WellFormed(next(matched))
    BY <2>2 DEF WellFormed
  <2>. HIDE DEF next
  <2>. QED
    BY <2>1, <2>3, BecomeOK
<1>13. ASSUME NEW r \in Requests, DisableRow(r) PROVE CallOK'
  <2>1. PICK e \in DisableTargets(r) :
          \/ SetRow(r, e, [table[e] EXCEPT !.active = FALSE], "reread")
          \/ Become(r, [req[r] EXCEPT !.pc = "explain", !.email = e])
    BY <1>13 DEF DisableRow
  <2>2. e \in Emails
    BY DEF Calls, DisableTargets
  <2>3. /\ WellFormed([req[r] EXCEPT !.pc = "reread"])
        /\ WellFormed([req[r] EXCEPT !.pc = "explain", !.email = e])
    BY <1>13 DEF DisableRow, At, WellFormed, Calls
  <2>. QED
    BY <2>1, <2>2, <2>3, SetRowOK, BecomeOK
<1>14. ASSUME NEW r \in Requests, Explain(r) PROVE CallOK'
  <2>1. CASE Goto(r, "reread")
    <3>1. WellFormed([req[r] EXCEPT !.pc = "reread"])
      BY <1>14 DEF Explain, At, WellFormed, Calls
    <3>. QED
      BY <1>6, <2>1, <3>1
  <2>2. CASE BulkNext(r, req[r].email, req[r].barred) /\ req[r].op = "bulk"
    BY <1>7, <2>2
  <2>. QED
    BY <1>5, <1>14, <2>1, <2>2 DEF Explain
<1>15. ASSUME NEW r \in Requests, EnableRow(r) PROVE CallOK'
  <2>1. WellFormed([req[r] EXCEPT !.pc = "reread"]) /\ req[r].email \in Emails
    BY <1>15 DEF EnableRow, At, WellFormed, Calls
  <2>. QED
    BY <1>5, <1>15, <2>1, SetRowOK DEF EnableRow
<1>16. ASSUME NEW r \in Requests, Reread(r) PROVE CallOK'
  <2>. DEFINE barred == IF req[r].op \in {"disable", "bulk"} /\ Listed(req[r].email)
                        THEN req[r].barred \cup {req[r].email} ELSE req[r].barred
              next == [req[r] EXCEPT !.pc = "done", !.barred = barred,
                         !.res = IF Listed(req[r].email) THEN "ok" ELSE "not_found"]
  <2>1. CASE req[r].op = "bulk"
    BY <1>7, <1>16, <2>1 DEF Reread
  <2>2. CASE Become(r, next)
    <3>1. next.pc = "done" /\ next.op = req[r].op /\ next.role = req[r].role
      BY DEF Calls
    <3>2. WellFormed(next)
      BY <3>1 DEF WellFormed
    <3>. HIDE DEF next
    <3>. QED
      BY <2>2, <3>2, BecomeOK
  <2>. QED
    BY <1>16, <2>1, <2>2 DEF Reread
<1>17. ASSUME NEW r \in Requests, BulkEntryFails(r) PROVE CallOK'
  BY <1>7, <1>17 DEF BulkEntryFails
<1>18. ASSUME NEW r \in Requests, Fail(r) PROVE CallOK'
  BY <1>5, <1>18 DEF Fail
<1>. QED
  BY <1>1, <1>2, <1>3, <1>4, <1>8, <1>9, <1>10, <1>11, <1>12, <1>13, <1>14, <1>15,
     <1>16, <1>17, <1>18 DEF Next, Statement
-----------------------------------------------------------------------------
\* Somebody else is in charge when the last-admin guard lets a row go, if
\* anybody is in charge at all.
LEMMA Overseen ==
  ASSUME TypeOK, NEW e \in Emails, ActiveAdmins # {}, ~LastAdmin(e)
  PROVE  R!Overseen(e)
<1>1. \E a \in Emails \ {e} : ActiveAdmin(a)
  BY NotLast DEF ActiveAdmins
<1>2. \A a \in Emails : ActiveAdmin(a) => R!InCharge(a)
  BY DEF TypeOK, Entries, NoEntry, ActiveAdmin, R!InCharge
<1>. QED
  BY <1>1, <1>2 DEF R!Overseen

\* Every statement changes the table as the roster allows.
LEMMA TableStep == ASSUME IInv, [Next]_vars PROVE [R!Next]_table
<1>. USE DEF IInv
<1>. req \in [Requests -> Calls] /\ table \in [Emails -> Entries]
  BY DEF TypeOK
<1>0. \A r \in Requests : WellFormed(req[r])
  BY DEF CallOK
<1>1. ASSUME NEW r \in Requests, Insert(r) PROVE [R!Next]_table
  <2>. DEFINE e == req[r].email
  <2>1. e \in Emails /\ req[r].role \in Roles
    BY DEF Calls
  <2>2. CASE ~UNCHANGED table
    <3>1. /\ e \in EligibleEmails /\ ~R!Listed(e)
          /\ R!Put(e, [role |-> req[r].role, active |-> TRUE])
      BY <1>1, <2>2 DEF Insert, SetRow, R!Put, R!Listed, R!NoEntry, Listed, NoEntry
    <3>2. CASE req[r].op = "login"
      BY <1>0, <2>1, <3>1, <3>2 DEF WellFormed, R!Next, R!Join
    <3>3. CASE req[r].op = "seed"
      BY <1>0, <2>1, <3>1, <3>3 DEF WellFormed, R!Next, R!Appoint
    <3>4. CASE req[r].op = "add"
      <4>1. ActiveAdmins # {}
        BY <1>1, <3>4 DEF Insert, At, UnderAuthority, AdminOps, Running
      <4>2. ~LastAdmin(e)
        BY <3>1 DEF LastAdmin, ActiveAdmin, R!Listed, R!NoEntry
      <4>3. R!Enrol(e, req[r].role)
        BY <2>1, <3>1, <4>1, <4>2, Overseen DEF R!Enrol
      <4>. QED
        BY <2>1, <4>3 DEF R!Next, R!Roles, Roles
    <3>. QED
      BY <1>0, <1>1, <3>2, <3>3, <3>4 DEF Insert, At, WellFormed
  <2>. QED
    BY <2>2
<1>2. ASSUME NEW r \in Requests, UpdateRole(r) PROVE [R!Next]_table
  <2>. DEFINE e == req[r].email
              role == req[r].role
  <2>1. e \in Emails /\ role \in Roles
    BY DEF Calls
  <2>2. CASE ~UNCHANGED table
    <3>1. /\ Listed(e) /\ ~(role = "member" /\ LastAdmin(e))
          /\ table' = [table EXCEPT ![e] = [table[e] EXCEPT !.role = role]]
      BY <1>2, <2>2 DEF UpdateRole, SetRow
    <3>2. R!Listed(e) /\ R!Put(e, [table[e] EXCEPT !.role = role])
      BY <3>1 DEF R!Put, R!Listed, R!NoEntry, Listed, NoEntry
    <3>3. CASE req[r].op = "seed"
      <4>1. role = "admin"
        BY <1>0, <3>3 DEF WellFormed
      <4>2. R!Appoint(e)
        BY <2>1, <3>1, <3>2, <4>1 DEF EligibleRows, R!Appoint
      <4>. QED
        BY <2>1, <4>2 DEF R!Next
    <3>4. CASE req[r].op = "setRole"
      <4>1. ActiveAdmins # {}
        BY <1>2, <3>4 DEF UpdateRole, At, UnderAuthority, AdminOps, Running
      <4>2. role = "admin" => ~LastAdmin(e)
        <5>1. ASSUME role = "admin", table[e].role = "admin" PROVE FALSE
          <6>1. [table[e] EXCEPT !.role = "admin"] = table[e]
            BY <2>1, <3>1, <5>1 DEF Listed, Entries
          <6>. QED
            BY <2>1, <2>2, <3>1, <5>1, <6>1
        <5>. QED
          BY <5>1 DEF LastAdmin, ActiveAdmin
      <4>3. ~LastAdmin(e)
        BY <2>1, <3>1, <4>2 DEF Roles
      <4>4. R!Reassign(e, role)
        BY <2>1, <3>2, <4>1, <4>3, Overseen DEF R!Reassign
      <4>. QED
        BY <2>1, <4>4 DEF R!Next, R!Roles, Roles
    <3>. QED
      BY <1>0, <1>2, <3>3, <3>4 DEF UpdateRole, At, WellFormed
  <2>. QED
    BY <2>2
<1>3. ASSUME NEW r \in Requests, DisableRow(r) PROVE [R!Next]_table
  <2>1. PICK e \in DisableTargets(r) :
          IF Listed(e) /\ table[e].active /\ ~LastAdmin(e)
          THEN SetRow(r, e, [table[e] EXCEPT !.active = FALSE], "reread")
          ELSE UNCHANGED table
    BY <1>3 DEF DisableRow
  <2>2. e \in Emails
    BY DEF Calls, DisableTargets
  <2>3. CASE ~UNCHANGED table
    <3>1. Listed(e) /\ ~LastAdmin(e) /\ R!Put(e, [table[e] EXCEPT !.active = FALSE])
      BY <2>1, <2>3 DEF SetRow, R!Put
    <3>2. ActiveAdmins # {}
      BY <1>0, <1>3 DEF DisableRow, At, UnderAuthority, AdminOps, Running, WellFormed
    <3>3. R!Bar(e)
      BY <2>2, <3>1, <3>2, Overseen DEF R!Bar, R!Listed, R!NoEntry, Listed, NoEntry
    <3>. QED
      BY <2>2, <3>3 DEF R!Next
  <2>. QED
    BY <2>3
<1>4. ASSUME NEW r \in Requests, EnableRow(r) PROVE [R!Next]_table
  <2>. DEFINE e == req[r].email
  <2>1. e \in Emails
    BY DEF Calls
  <2>2. CASE ~UNCHANGED table
    <3>1. Listed(e) /\ table' = [table EXCEPT ![e] = [table[e] EXCEPT !.active = TRUE]]
      BY <1>4, <2>2 DEF EnableRow, SetRow
    <3>2. ActiveAdmins # {}
      BY <1>0, <1>4 DEF EnableRow, At, UnderAuthority, AdminOps, Running, WellFormed
    <3>3. ~table[e].active
      <4>1. table[e].active => [table[e] EXCEPT !.active = TRUE] = table[e]
        BY <2>1, <3>1 DEF Listed, Entries
      <4>. QED
        BY <2>1, <2>2, <3>1, <4>1
    <3>4. R!Readmit(e)
      BY <2>1, <3>1, <3>2, <3>3, Overseen
      DEF R!Readmit, R!Put, R!Listed, R!NoEntry, Listed, NoEntry, LastAdmin, ActiveAdmin
    <3>. QED
      BY <2>1, <3>4 DEF R!Next
  <2>. QED
    BY <2>2
<1>5. CASE UNCHANGED table
  BY <1>5
<1>. QED
  BY <1>1, <1>2, <1>3, <1>4, <1>5
  DEF Next, Statement, vars, AdminCall, SignIn, SeedAdmin, Authorise, Inserted, BulkSelect,
      Explain, Reread, BulkEntryFails, Fail

\* A step of the roster lists only eligible addresses ...
LEMMA RowsStep == ASSUME IInv, [R!Next]_table PROVE EligibleRows'
BY DEF IInv, TypeOK, EligibleRows, Listed, NoEntry, R!Next, R!Join, R!Appoint, R!Enrol,
       R!Reassign, R!Bar, R!Readmit, R!Put, R!Listed, R!NoEntry

\* ... and leaves an administrator in charge.
LEMMA ChargeStep ==
  ASSUME table \in [Emails -> Entries], [R!Next]_table, R!Administered
  PROVE  R!Administered'
<1>. USE DEF R!Put
<1>1. PICK a \in Emails : R!InCharge(a)
  BY DEF R!Administered
<1>2. CASE UNCHANGED table
  BY <1>2 DEF R!Administered, R!InCharge
<1>3. ASSUME NEW e \in Emails, R!Overseen(e), \E entry : R!Put(e, entry)
      PROVE  R!Administered'
  BY <1>3 DEF R!Overseen, R!Administered, R!InCharge
<1>4. ASSUME NEW e \in Emails, R!Join(e) \/ R!Appoint(e) PROVE R!Administered'
  <2>1. CASE e = a
    <3>1. table[a] = [role |-> "admin", active |-> TRUE] /\ R!Listed(a)
      BY <1>1 DEF R!InCharge, R!Listed, R!NoEntry
    <3>2. [table[a] EXCEPT !.role = "admin"] = table[a]
      BY <3>1
    <3>3. table' = [table EXCEPT ![a] = table[a]]
      BY <1>4, <2>1, <3>1, <3>2 DEF R!Join, R!Appoint
    <3>. QED
      BY <1>1, <3>3 DEF R!Administered, R!InCharge
  <2>2. CASE e # a
    BY <1>1, <1>4, <2>2 DEF R!Join, R!Appoint, R!Administered, R!InCharge
  <2>. QED
    BY <2>1, <2>2
<1>. QED
  BY <1>2, <1>3, <1>4 DEF R!Next, R!Enrol, R!Reassign, R!Bar, R!Readmit

LEMMA Charge == ASSUME TypeOK PROVE R!Administered <=> ActiveAdmins # {}
<1>1. ASSUME NEW e \in Emails PROVE R!InCharge(e) <=> ActiveAdmin(e)
  <2>1. CASE table[e] = NoEntry
    <3>1. table[e].active = FALSE
      BY <2>1 DEF NoEntry
    <3>2. [role |-> "admin", active |-> TRUE].active = TRUE
      OBVIOUS
    <3>. QED
      BY <3>1, <3>2 DEF ActiveAdmin, R!InCharge
  <2>2. CASE table[e] \in [role : Roles, active : BOOLEAN]
    <3>1. /\ table[e] = [role |-> table[e].role, active |-> table[e].active]
          /\ table[e].active \in BOOLEAN
      BY <2>2
    <3>2. R!InCharge(e) => ActiveAdmin(e)
      BY DEF ActiveAdmin, R!InCharge
    <3>3. ActiveAdmin(e) => R!InCharge(e)
      BY <3>1 DEF ActiveAdmin, R!InCharge
    <3>. QED
      BY <3>2, <3>3
  <2>. QED
    BY <2>1, <2>2 DEF TypeOK, Entries
<1>. QED
  BY <1>1 DEF ActiveAdmins, R!Administered

\* Has the call passed requireAdmin and is it executing?
Past(call) == call.op \in AdminOps /\ call.pc \in Running \ {"authorise"}

\* It has after a step only if it had before, or the step is its Authorise.
LEMMA PastStep ==
  ASSUME IInv, [Next]_vars, NEW q \in Requests, Past(req'[q])
  PROVE  Past(req[q]) \/ ActiveAdmins # {}
<1>. USE DEF IInv
<1>. req \in [Requests -> Calls] /\ table \in [Emails -> Entries]
  BY DEF TypeOK
<1>0. ASSUME NEW r \in Requests, NEW call, Become(r, call), Past(call) => Past(req[r])
      PROVE  Past(req[q])
  BY <1>0 DEF Become
<1>1. ASSUME NEW r \in Requests, NEW e \in Emails, NEW entry, NEW pc,
             SetRow(r, e, entry, pc), req[r].pc \in Running \ {"authorise"}
      PROVE  Past(req[q])
  BY <1>1, SetRowCalls DEF Past
<1>2. ASSUME NEW r \in Requests, AdminCall(r) \/ SignIn(r) \/ SeedAdmin(r)
      PROVE  Past(req[q])
  <2>1. ASSUME NEW op, NEW caller, NEW email, NEW role, NEW res
        PROVE  /\ ~Past(Call(op, "authorise", caller, email, role, res))
               /\ ~Past(Call("login", "insert", caller, email, role, res))
               /\ ~Past(Call("login", "done", caller, email, role, res))
               /\ ~Past(Call("seed", "insert", caller, email, role, res))
    BY DEF Call, Past, AdminOps
  <2>. QED
    BY <1>0, <1>2, <2>1 DEF AdminCall, SignIn, SeedAdmin
<1>3. ASSUME NEW r \in Requests, NEW res, Answer(r, res) PROVE Past(req[q])
  <2>1. ~Past([req[r] EXCEPT !.pc = "done", !.res = res, !.caller = req[r].email])
    BY DEF Past, Running, Calls
  <2>. QED
    BY <1>0, <1>3, <2>1 DEF Answer
<1>4. ASSUME NEW r \in Requests, req[r].pc \in Running \ {"authorise"},
             NEW call, Become(r, call), call.op = req[r].op
      PROVE  Past(req[q])
  BY <1>0, <1>4 DEF Past
<1>5. ASSUME NEW r \in Requests, NEW pc, req[r].pc \in Running \ {"authorise"}, Goto(r, pc)
      PROVE  Past(req[q])
  BY <1>4, <1>5 DEF Goto, Calls
<1>6. ASSUME NEW r \in Requests, NEW e, NEW barred, BulkNext(r, e, barred),
             req[r].pc \in Running \ {"authorise"}
      PROVE  Past(req[q])
  <2>. DEFINE rest == req[r].todo \ {e}
              next == [req[r] EXCEPT !.email = e, !.todo = rest, !.barred = barred,
                             !.pc   = IF rest = {} THEN "done" ELSE "disable",
                             !.res  = IF rest = {} THEN "ok" ELSE @]
  <2>1. next.op = req[r].op
    BY DEF Calls
  <2>2. Become(r, next)
    BY <1>6 DEF BulkNext
  <2>. HIDE DEF next
  <2>. QED
    BY <1>4, <1>6, <2>1, <2>2
<1>7. ASSUME NEW r \in Requests, Authorise(r) PROVE Past(req[q]) \/ ActiveAdmins # {}
  <2>1. CASE Answer(r, "forbidden")
    BY <1>3, <2>1
  <2>2. CASE ActiveAdmin(req[r].caller)
    BY <2>2 DEF ActiveAdmins, Calls
  <2>. QED
    BY <1>7, <2>1, <2>2 DEF Authorise
<1>8. ASSUME NEW r \in Requests, Insert(r) PROVE Past(req[q])
  <2>1. req[r].pc \in Running \ {"authorise"} /\ req[r].email \in Emails
    BY <1>8 DEF Insert, At, Running, Calls
  <2>. QED
    BY <1>1, <1>3, <1>5, <1>8, <2>1 DEF Insert
<1>9. ASSUME NEW r \in Requests, Inserted(r) PROVE Past(req[q])
  BY <1>3, <1>5, <1>9 DEF Inserted, At, Running
<1>10. ASSUME NEW r \in Requests, UpdateRole(r) PROVE Past(req[q])
  <2>1. req[r].pc \in Running \ {"authorise"} /\ req[r].email \in Emails
    BY <1>10 DEF UpdateRole, At, Running, Calls
  <2>. QED
    BY <1>1, <1>5, <1>10, <2>1 DEF UpdateRole
<1>11. ASSUME NEW r \in Requests, BulkSelect(r) PROVE Past(req[q])
  <2>. DEFINE next(matched) ==
          [req[r] EXCEPT !.todo = matched,
                         !.pc   = IF matched = {} THEN "done" ELSE "disable",
                         !.res  = IF matched = {} THEN "ok" ELSE @]
  <2>1. PICK matched \in SUBSET ActiveMembers : Become(r, next(matched))
    BY <1>11 DEF BulkSelect
  <2>2. next(matched).op = req[r].op
    BY DEF Calls
  <2>3. req[r].pc \in Running \ {"authorise"}
    BY <1>11 DEF BulkSelect, At, Running
  <2>. HIDE DEF next
  <2>. QED
    BY <1>4, <2>1, <2>2, <2>3
<1>12. ASSUME NEW r \in Requests, DisableRow(r) PROVE Past(req[q])
  <2>1. PICK e \in DisableTargets(r) :
          \/ SetRow(r, e, [table[e] EXCEPT !.active = FALSE], "reread")
          \/ Become(r, [req[r] EXCEPT !.pc = "explain", !.email = e])
    BY <1>12 DEF DisableRow
  <2>2. e \in Emails
    BY DEF Calls, DisableTargets
  <2>3. [req[r] EXCEPT !.pc = "explain", !.email = e].op = req[r].op
    BY DEF Calls
  <2>4. req[r].pc \in Running \ {"authorise"}
    BY <1>12 DEF DisableRow, At, Running
  <2>. QED
    BY <1>1, <1>4, <2>1, <2>2, <2>3, <2>4
<1>13. ASSUME NEW r \in Requests, Explain(r) PROVE Past(req[q])
  BY <1>3, <1>5, <1>6, <1>13 DEF Explain, At, Running
<1>14. ASSUME NEW r \in Requests, EnableRow(r) PROVE Past(req[q])
  <2>1. req[r].pc \in Running \ {"authorise"} /\ req[r].email \in Emails
    BY <1>14 DEF EnableRow, At, Running, Calls
  <2>. QED
    BY <1>1, <1>3, <1>14, <2>1 DEF EnableRow
<1>15. ASSUME NEW r \in Requests, Reread(r) PROVE Past(req[q])
  <2>1. PICK barred, res :
          \/ BulkNext(r, req[r].email, barred)
          \/ Become(r, [req[r] EXCEPT !.pc = "done", !.barred = barred, !.res = res])
    <3>1. CASE req[r].op = "bulk"
      BY <1>15, <3>1 DEF Reread
    <3>2. CASE req[r].op # "bulk"
      BY <1>15, <3>2 DEF Reread
    <3>. QED
      BY <3>1, <3>2
  <2>2. [req[r] EXCEPT !.pc = "done", !.barred = barred, !.res = res].op = req[r].op
    BY DEF Calls
  <2>3. req[r].pc \in Running \ {"authorise"}
    BY <1>15 DEF Reread, At, Running
  <2>. QED
    BY <1>4, <1>6, <2>1, <2>2, <2>3
<1>16. ASSUME NEW r \in Requests, BulkEntryFails(r) PROVE Past(req[q])
  BY <1>6, <1>16 DEF BulkEntryFails, At, Running
<1>17. ASSUME NEW r \in Requests, Fail(r) PROVE Past(req[q])
  BY <1>3, <1>17 DEF Fail
<1>18. CASE UNCHANGED vars
  BY <1>18 DEF vars, Past
<1>. QED
  BY <1>2, <1>7, <1>8, <1>9, <1>10, <1>11, <1>12, <1>13, <1>14, <1>15, <1>16, <1>17, <1>18
  DEF Next, Statement

LEMMA AuthorityStep == ASSUME IInv, [Next]_vars, TypeOK' PROVE UnderAuthority'
<1>1. ActiveAdmins # {} => ActiveAdmins' # {}
  <2>1. table \in [Emails -> Entries] /\ TypeOK
    BY DEF IInv, TypeOK
  <2>2. R!Administered => R!Administered'
    BY <2>1, TableStep, ChargeStep
  <2>3. (R!Administered <=> ActiveAdmins # {})'
    BY Charge, PTL
  <2>. QED
    BY <2>1, <2>2, <2>3, Charge
<1>2. ASSUME NEW q \in Requests, Past(req'[q]) PROVE ActiveAdmins # {}
  BY <1>2, PastStep DEF IInv, UnderAuthority, Past
<1>. QED
  BY <1>1, <1>2 DEF UnderAuthority, Past
-----------------------------------------------------------------------------
LEMMA Inductive == Spec => []IInv
<1>1. IInv /\ [Next]_vars => IInv'
  BY TypeStep, CallStep, TableStep, RowsStep, AuthorityStep DEF IInv
<1>. QED
  BY InitIInv, <1>1, PTL DEF Spec

\* The columns and the calls always have their types.
THEOREM TypeCorrect == Spec => []TypeOK
BY Inductive, PTL DEF IInv

\* Nothing that passed requireAdmin runs on a platform without an active
\* administrator, however the statements of any number of calls interleave.
THEOREM Authority == Spec => []UnderAuthority
BY Inductive, PTL DEF IInv

\* The table implements the roster: each change other than a registration or
\* the command line leaves somebody else in charge.
THEOREM Refinement == Spec => ImplementsRoster
<1>1. Init => R!Init
  BY DEF Init, R!Init, NoEntry, R!NoEntry
<1>2. IInv /\ [Next]_vars => [R!Next]_table
  BY TableStep
<1>. QED
  BY <1>1, <1>2, Inductive, PTL DEF Spec, ImplementsRoster, R!Spec

\* The last active administrator is never disabled or demoted.
THEOREM LastAdminStays == Spec => KeepsAnAdmin
<1>1. IInv /\ [Next]_vars => [R!Administered => R!Administered']_table
  BY TableStep, ChargeStep DEF IInv, TypeOK
<1>. QED
  BY <1>1, Inductive, PTL DEF Spec, KeepsAnAdmin, R!AlwaysAdministered
-----------------------------------------------------------------------------
(***************************************************************************)
(* What calls report.  The inductive invariant says of every call what it  *)
(* has already promised about rows (Claims), and that a promise holds      *)
(* until a call meant to undo it has run.                                  *)
(***************************************************************************)

\* The addresses about which the call reports, or is going to report, something.
Claims(call, e) ==
  \/ /\ call.op \in {"disable", "bulk"}
     /\ e \in call.barred \/ (call.pc = "reread" /\ e = call.email)
  \/ /\ call.op \in {"setRole", "seed"} /\ e = call.email /\ call.changed
     /\ call.pc = "reread" \/ (call.pc = "done" /\ call.res = "ok")
  \/ /\ call.op \in {"enable", "login"} /\ e = call.email
     /\ call.pc = "reread" \/ (call.pc = "done" /\ call.res \in {"ok", "allowed"})

\* What it reports about them.
Holds(call, entry) ==
  /\ call.op \in {"disable", "bulk"}  => ~entry.active
  /\ call.op \in {"setRole", "seed"}  => entry.role = call.role
  /\ call.op \in {"enable", "login"}  => entry.active

Settled(call) == \A e \in Emails : Claims(call, e) /\ e \notin call.undone =>
                   Listed(e) /\ Holds(call, table[e])

\* Where a call can be: whoever reads a row back knows that it is there, and
\* only a statement that changed nothing is explained.
Progress(call) ==
  /\ call.pc \in {"inserted", "reread"} \/ (call.op = "seed" /\ call.pc = "update") =>
       Listed(call.email)
  /\ call.op = "bulk" /\ call.pc \in {"explain", "reread"} => call.email \in call.todo
  /\ call.op = "disable" => call.barred \subseteq {call.email}
  /\ call.pc = "explain" => call.op \in {"setRole", "disable", "bulk"}
  /\ call.changed => \/ call.pc \in {"inserted", "reread"}
                     \/ call.op = "seed" /\ call.pc = "update"
                     \/ call.op = "bulk" /\ call.pc \in {"disable", "explain"}
                     \/ call.pc = "done" /\ (call.res \notin Refusals \/ call.op = "login")

Good(call)  == Progress(call) /\ Settled(call)
GoodReports == \A r \in Requests : Good(req[r])

\* A promise is broken exactly by the rows that SetRow takes to be against it.
LEMMA BrokenIsAgainst ==
  ASSUME NEW call \in Calls, Progress(call), NEW e \in Emails, Claims(call, e), NEW entry,
         ~Holds(call, entry)
  PROVE  Against(call, e, entry)
BY DEF Progress, Claims, Holds, Against

LEMMA MoveGood ==
  ASSUME TypeOK, GoodReports, NEW r \in Requests, NEW call, Good(call), Become(r, call),
         UNCHANGED table
  PROVE  GoodReports'
<1>1. ASSUME NEW k, Good(k) PROVE Good(k)'
  BY <1>1 DEF Good, Progress, Settled, Listed
<1>2. ASSUME NEW q \in Requests PROVE Good(req[q])'
  <2>1. PICK k : k = req'[q]
    OBVIOUS
  <2>2. Good(k)
    BY <2>1 DEF TypeOK, GoodReports, Become
  <2>. QED
    BY <2>1, <2>2, <1>1
<1>. QED
  BY <1>2 DEF GoodReports

\* An answer claims no more than the call did, unless it lets a login in.
LEMMA AnswerGood ==
  ASSUME TypeOK, GoodReports, NEW r \in Requests, NEW res \in Answers, Answer(r, res),
         UNCHANGED table,
         res \in {"ok", "allowed"} =>
           \/ req[r].op = "add"
           \/ req[r].op = "login" /\ Listed(req[r].email) /\ table[req[r].email].active,
         req[r].changed /\ res \in Refusals => req[r].op = "login"
  PROVE  GoodReports'
<1>1. req[r] \in Calls /\ Good(req[r])
  BY DEF TypeOK, GoodReports
<1>2. PICK k : k = [req[r] EXCEPT !.pc = "done", !.res = res, !.caller = req[r].email]
  OBVIOUS
<1>3. /\ k.op = req[r].op /\ k.pc = "done" /\ k.email = req[r].email /\ k.role = req[r].role
      /\ k.barred = req[r].barred /\ k.undone = req[r].undone /\ k.res = res
      /\ k.changed = req[r].changed
  BY <1>1, <1>2 DEF Calls
<1>4. Progress(k)
  BY <1>1, <1>3 DEF Good, Progress
<1>5. ASSUME NEW e \in Emails, Claims(k, e), e \notin k.undone
      PROVE  Listed(e) /\ Holds(k, table[e])
  <2>1. CASE k.op \in {"disable", "bulk"}
    <3>1. Claims(req[r], e) /\ e \notin req[r].undone
      BY <1>3, <1>5, <2>1 DEF Claims
    <3>2. Listed(e) /\ Holds(req[r], table[e])
      BY <1>1, <3>1 DEF Good, Settled
    <3>. QED
      BY <1>3, <3>2 DEF Holds
  <2>2. CASE k.op \notin {"disable", "bulk"}
    BY <1>3, <1>5, <2>2 DEF Claims, Holds
  <2>. QED
    BY <2>1, <2>2
<1>. QED
  BY <1>2, <1>4, <1>5, MoveGood DEF Answer, Good, Settled

\* A bulk run goes on, having reported the row it has just read back or not.
LEMMA BulkNextGood ==
  ASSUME TypeOK, GoodReports, NEW r \in Requests, NEW e \in Emails, NEW barred,
         BulkNext(r, e, barred), UNCHANGED table, req[r].op = "bulk",
         req[r].pc \in {"disable", "explain", "reread"},
         \/ barred = req[r].barred
         \/ req[r].pc = "reread" /\ barred = req[r].barred \cup {req[r].email}
  PROVE  GoodReports'
<1>1. req[r] \in Calls /\ Good(req[r])
  BY DEF TypeOK, GoodReports
<1>2. PICK rest : rest = req[r].todo \ {e}
  OBVIOUS
<1>3. PICK pc, res : /\ pc = (IF rest = {} THEN "done" ELSE "disable")
                     /\ res = (IF rest = {} THEN "ok" ELSE req[r].res)
  OBVIOUS
<1>4. PICK k : k = [req[r] EXCEPT !.email = e, !.todo = rest, !.barred = barred,
                                  !.pc = pc, !.res = res]
  OBVIOUS
<1>5. Become(r, k)
  BY <1>1, <1>2, <1>3, <1>4 DEF BulkNext
<1>6. /\ k.op = "bulk" /\ k.pc = pc /\ k.barred = barred /\ k.undone = req[r].undone
      /\ k.res = res /\ k.changed = req[r].changed
  BY <1>1, <1>4 DEF Calls
<1>7. pc \in {"done", "disable"} /\ (pc = "done" => res = "ok")
  BY <1>3
<1>8. Progress(k)
  BY <1>6, <1>7 DEF Progress, Refusals
<1>9. ASSUME NEW f \in Emails, Claims(k, f), f \notin k.undone
      PROVE  Listed(f) /\ Holds(k, table[f])
  <2>1. Claims(req[r], f)
    BY <1>6, <1>7, <1>9 DEF Claims
  <2>. QED
    BY <1>1, <1>6, <1>9, <2>1 DEF Good, Settled, Holds
<1>. QED
  BY <1>5, <1>8, <1>9, MoveGood DEF Good, Settled

\* A statement that sets a row: whoever has promised the opposite is someone
\* whose promise it is meant to undo.
LEMMA SetRowGood ==
  ASSUME TypeOK, GoodReports, NEW r \in Requests, NEW e \in Emails, NEW entry,
         entry.role \in Roles, NEW pc, SetRow(r, e, entry, pc),
         \A q \in Requests \ {r} :
           Listed(e) /\ Holds(req[q], table[e]) /\ ~Holds(req[q], entry) =>
             req[r].op \in Undoing(req[q].op),
         \/ pc = "inserted" /\ req[r].op \in {"add", "login", "seed"}
         \/ pc = "reread" /\ Holds(req[r], entry) /\ req[r].op \notin {"add", "login"},
         IF req[r].op = "bulk" THEN e \in req[r].todo ELSE e = req[r].email
  PROVE  GoodReports'
<1>0. /\ table \in [Emails -> Entries] /\ req \in [Requests -> Calls]
      /\ table' = [table EXCEPT ![e] = entry]
  BY DEF TypeOK, SetRow
<1>1. entry # NoEntry
  BY DEF NoEntry, Roles
<1>2. table'[e] = entry /\ \A f \in Emails \ {e} : table'[f] = table[f]
  BY <1>0
<1>3. Listed(e)' /\ \A f \in Emails : Listed(f) => Listed(f)'
  BY <1>1, <1>2 DEF Listed
<1>4. ASSUME NEW q \in Requests \ {r} PROVE Good(req[q])'
  <2>1. req[q] \in Calls /\ Good(req[q])
    BY <1>0 DEF GoodReports
  <2>2. PICK u : u = IF req[r].op \in Undoing(req[q].op) /\ Against(req[q], e, entry)
                     THEN req[q].undone \cup {e} ELSE req[q].undone
    OBVIOUS
  <2>3. PICK k : k = [req[q] EXCEPT !.undone = u]
    OBVIOUS
  <2>4. req'[q] = k
    <3>1. CASE req[r].op \in Undoing(req[q].op) /\ Against(req[q], e, entry)
      BY <2>2, <2>3, <3>1 DEF SetRow
    <3>2. CASE ~(req[r].op \in Undoing(req[q].op) /\ Against(req[q], e, entry))
      <4>1. k = req[q]
        BY <2>1, <2>2, <2>3, <3>2 DEF Calls
      <4>. QED
        BY <4>1, <3>2 DEF SetRow
    <3>. QED
      BY <3>1, <3>2
  <2>5. /\ k.op = req[q].op /\ k.pc = req[q].pc /\ k.email = req[q].email /\ k.role = req[q].role
        /\ k.barred = req[q].barred /\ k.undone = u /\ k.res = req[q].res
        /\ k.changed = req[q].changed /\ k.todo = req[q].todo
    BY <2>1, <2>3 DEF Calls
  <2>6. Progress(k)'
    <3>1. k.email \in Emails
      BY <2>1, <2>5 DEF Calls
    <3>. QED
      BY <2>1, <2>5, <1>3, <3>1 DEF Good, Progress
  <2>7. ASSUME NEW f \in Emails, Claims(k, f), f \notin u
        PROVE  Listed(f)' /\ Holds(k, table'[f])
    <3>1. Claims(req[q], f) /\ f \notin req[q].undone
      BY <2>2, <2>5, <2>7 DEF Claims
    <3>2. Listed(f) /\ Holds(req[q], table[f])
      BY <2>1, <3>1 DEF Good, Settled
    <3>3. CASE f # e
      BY <1>2, <1>3, <2>5, <3>2, <3>3 DEF Holds
    <3>4. CASE f = e
      <4>1. ASSUME ~Holds(req[q], entry) PROVE FALSE
        <5>1. Against(req[q], e, entry)
          BY <2>1, <3>1, <3>4, <4>1, BrokenIsAgainst DEF Good
        <5>2. req[r].op \in Undoing(req[q].op)
          BY <3>2, <3>4, <4>1
        <5>. QED
          BY <2>2, <2>7, <3>4, <5>1, <5>2
      <4>2. Holds(k, entry)
        BY <4>1, <2>5 DEF Holds
      <4>. QED
        BY <1>2, <1>3, <3>4, <4>2
    <3>. QED
      BY <3>3, <3>4
  <2>8. Good(k)'
    BY <2>5, <2>6, <2>7 DEF Good, Settled
  <2>. QED
    BY <2>4, <2>8
<1>5. Good(req[r])'
  <2>1. req[r] \in Calls /\ Good(req[r])
    BY <1>0 DEF GoodReports
  <2>2. PICK k : k = [req[r] EXCEPT !.pc = pc, !.email = e, !.changed = TRUE,
                                    !.undone = @ \ {e}]
    OBVIOUS
  <2>3. req'[r] = k
    BY <2>2 DEF SetRow
  <2>4. /\ k.op = req[r].op /\ k.pc = pc /\ k.email = e /\ k.role = req[r].role
        /\ k.barred = req[r].barred /\ k.undone = req[r].undone \ {e}
        /\ k.todo = req[r].todo
    BY <2>1, <2>2 DEF Calls
  <2>5. Progress(k)'
    BY <1>3, <2>1, <2>4 DEF Good, Progress
  <2>6. ASSUME NEW f \in Emails, Claims(k, f), f \notin k.undone
        PROVE  Listed(f)' /\ Holds(k, table'[f])
    <3>1. CASE f = e
      <4>1. pc = "reread"
        <5>1. CASE pc = "inserted" /\ req[r].op \in {"add", "login", "seed"}
          BY <2>4, <2>6, <5>1 DEF Claims
        <5>. QED
          BY <5>1
      <4>. QED
        BY <1>2, <1>3, <2>4, <3>1, <4>1 DEF Holds
    <3>2. CASE f # e
      <4>1. Claims(req[r], f) /\ f \notin req[r].undone
        BY <2>4, <2>6, <3>2 DEF Claims
      <4>2. Listed(f) /\ Holds(req[r], table[f])
        BY <2>1, <4>1 DEF Good, Settled
      <4>. QED
        BY <1>2, <1>3, <2>4, <3>2, <4>2 DEF Holds
    <3>. QED
      BY <3>1, <3>2
  <2>7. Good(k)'
    BY <2>5, <2>6 DEF Good, Settled
  <2>. QED
    BY <2>3, <2>7
<1>. QED
  BY <1>4, <1>5 DEF GoodReports

LEMMA ReportsInit == Init => GoodReports
<1>. SUFFICES ASSUME Init, NEW r \in Requests PROVE Good(req[r])
  BY DEF GoodReports
<1>1. PICK e \in Emails : req[r] = Call("login", "idle", e, e, "member", "error")
  BY DEF Init
<1>2. PICK k : k = req[r]
  OBVIOUS
<1>3. /\ k.op = "login" /\ k.pc = "idle" /\ ~k.changed /\ k.barred = {}
  BY <1>1, <1>2 DEF Call
<1>. QED
  BY <1>2, <1>3 DEF Good, Progress, Settled, Claims

LEMMA ReportsStep == ASSUME IInv, GoodReports, [Next]_vars PROVE GoodReports'
<1>0. /\ TypeOK /\ table \in [Emails -> Entries] /\ req \in [Requests -> Calls]
      /\ \A r \in Requests : WellFormed(req[r]) /\ Good(req[r])
  BY DEF IInv, TypeOK, CallOK, GoodReports
\* A call that moves on with the same promises.
<1>1. ASSUME NEW r \in Requests, NEW k \in Calls, Become(r, k), UNCHANGED table,
             k.op = req[r].op, k.email = req[r].email, k.role = req[r].role,
             k.barred = req[r].barred, k.changed = req[r].changed, k.undone = req[r].undone,
             k.pc \in Running \ {"inserted", "explain", "reread"},
             k.changed => \/ k.op = "seed" /\ k.pc = "update"
                          \/ k.op = "bulk" /\ k.pc = "disable",
             k.op = "seed" /\ k.pc = "update" => Listed(k.email)
      PROVE  GoodReports'
  <2>1. Progress(k)
    BY <1>0, <1>1 DEF Good, Progress, Running
  <2>2. ASSUME NEW e \in Emails, Claims(k, e), e \notin k.undone
        PROVE  Listed(e) /\ Holds(k, table[e])
    <3>1. Claims(req[r], e)
      BY <1>1, <2>2 DEF Claims, Running
    <3>. QED
      BY <1>0, <1>1, <2>2, <3>1 DEF Good, Settled, Holds
  <2>. QED
    BY <1>0, <1>1, <2>1, <2>2, MoveGood DEF Good, Settled
\* A new call has promised nothing.
<1>2. ASSUME NEW r \in Requests, NEW op \in Ops, NEW pc \in {"authorise", "insert", "done"},
             NEW caller, NEW email, NEW role, NEW res, UNCHANGED table,
             pc = "done" => res \notin {"ok", "allowed"},
             Become(r, Call(op, pc, caller, email, role, res))
      PROVE  GoodReports'
  <2>1. PICK k : k = Call(op, pc, caller, email, role, res)
    OBVIOUS
  <2>2. /\ k.op = op /\ k.pc = pc /\ ~k.changed /\ k.barred = {} /\ k.res = res
    BY <2>1 DEF Call
  <2>3. Good(k)
    BY <1>2, <2>2 DEF Good, Progress, Settled, Claims
  <2>. QED
    BY <1>0, <1>2, <2>1, <2>3, MoveGood
<1>3. ASSUME NEW r \in Requests, AdminCall(r) \/ SignIn(r) \/ SeedAdmin(r) PROVE GoodReports'
  <2>1. CASE AdminCall(r)
    BY <1>2, <2>1 DEF AdminCall, Ops
  <2>2. CASE SignIn(r)
    BY <1>2, <2>2 DEF SignIn, Ops
  <2>3. CASE SeedAdmin(r)
    BY <1>2, <2>3 DEF SeedAdmin, Ops
  <2>. QED
    BY <1>3, <2>1, <2>2, <2>3
<1>4. ASSUME NEW r \in Requests, Authorise(r) PROVE GoodReports'
  <2>1. ~req[r].changed /\ req[r].op \in AdminOps
    BY <1>0, <1>4 DEF Good, Progress, Authorise, At, WellFormed, Refusals
  <2>2. CASE Answer(r, "forbidden")
    BY <1>0, <1>4, <2>1, <2>2, AnswerGood DEF Authorise, Answers
  <2>3. CASE Admitted(r)
    <3>1. PICK pc : pc = FirstStatement(req[r].op)
      OBVIOUS
    <3>2. pc \in {"insert", "update", "disable", "enable", "select"}
      BY <2>1, <3>1 DEF FirstStatement, AdminOps
    <3>3. PICK k : k = [req[r] EXCEPT !.pc = pc, !.caller = req[r].email]
      OBVIOUS
    <3>4. /\ k \in Calls /\ k.op = req[r].op /\ k.email = req[r].email /\ k.role = req[r].role
          /\ k.barred = req[r].barred /\ k.changed = req[r].changed /\ k.undone = req[r].undone
          /\ k.pc = pc
      BY <1>0, <3>2, <3>3 DEF Calls, Running
    <3>5. Become(r, k) /\ UNCHANGED table
      BY <1>4, <2>3, <3>1, <3>3 DEF Admitted, Authorise
    <3>. QED
      BY <1>1, <2>1, <3>2, <3>4, <3>5 DEF Running, AdminOps
  <2>. QED
    BY <1>4, <2>2, <2>3 DEF Authorise
<1>5. ASSUME NEW r \in Requests, Insert(r) PROVE GoodReports'
  <2>1. /\ req[r].op \in {"add", "login", "seed"} /\ ~req[r].changed
        /\ req[r].email \in Emails /\ req[r].role \in Roles
    BY <1>0, <1>5 DEF Insert, At, WellFormed, Good, Progress, Calls
  <2>2. CASE UNCHANGED table /\ Answer(r, "not_eligible")
    BY <1>0, <2>1, <2>2, AnswerGood DEF Answers
  <2>3. CASE UNCHANGED table /\ Listed(req[r].email) /\ Goto(r, "inserted")
    <3>1. PICK k : k = [req[r] EXCEPT !.pc = "inserted"]
      OBVIOUS
    <3>2. /\ k.op = req[r].op /\ k.email = req[r].email /\ k.changed = req[r].changed
          /\ k.pc = "inserted"
      BY <1>0, <3>1 DEF Calls
    <3>3. Good(k)
      BY <2>1, <2>3, <3>2 DEF Good, Progress, Settled, Claims
    <3>. QED
      BY <1>0, <2>3, <3>1, <3>3, MoveGood DEF Goto
  <2>4. CASE /\ ~Listed(req[r].email)
             /\ SetRow(r, req[r].email, [role |-> req[r].role, active |-> TRUE], "inserted")
    <3>1. PICK entry : entry = [role |-> req[r].role, active |-> TRUE]
      OBVIOUS
    <3>2. entry.role \in Roles /\ SetRow(r, req[r].email, entry, "inserted")
      BY <2>1, <2>4, <3>1
    <3>. QED
      BY <1>0, <2>1, <2>4, <3>2, SetRowGood
  <2>. QED
    BY <1>5, <2>2, <2>3, <2>4 DEF Insert
<1>6. ASSUME NEW r \in Requests, Inserted(r) PROVE GoodReports'
  <2>1. /\ req[r].op \in {"add", "login", "seed"} /\ Listed(req[r].email)
        /\ req[r].pc = "inserted" /\ UNCHANGED table /\ table[req[r].email] # NoEntry
    BY <1>0, <1>6 DEF Inserted, At, WellFormed, Good, Progress, Listed
  <2>2. CASE req[r].op = "seed"
    <3>1. PICK k : k = [req[r] EXCEPT !.pc = "update"]
      OBVIOUS
    <3>2. /\ k \in Calls /\ k.op = req[r].op /\ k.email = req[r].email /\ k.role = req[r].role
          /\ k.barred = req[r].barred /\ k.changed = req[r].changed /\ k.undone = req[r].undone
          /\ k.pc = "update"
      BY <1>0, <3>1 DEF Calls, Running
    <3>3. Become(r, k)
      BY <1>6, <2>1, <2>2, <3>1 DEF Inserted, Goto
    <3>. QED
      BY <1>1, <2>1, <2>2, <3>2, <3>3 DEF Running
  <2>3. CASE req[r].op = "login" /\ ~table[req[r].email].active
    <3>1. Answer(r, "disabled")
      BY <1>6, <2>1, <2>3 DEF Inserted
    <3>. QED
      BY <1>0, <2>1, <2>3, <3>1, AnswerGood DEF Answers
  <2>4. CASE req[r].op = "login" /\ table[req[r].email].active
    <3>1. Answer(r, "allowed")
      BY <1>6, <2>1, <2>4 DEF Inserted
    <3>. QED
      BY <1>0, <2>1, <2>4, <3>1, AnswerGood DEF Answers
  <2>5. CASE req[r].op = "add"
    <3>1. Answer(r, "ok")
      BY <1>6, <2>1, <2>5 DEF Inserted
    <3>. QED
      BY <1>0, <2>1, <2>5, <3>1, AnswerGood DEF Answers, Refusals
  <2>. QED
    BY <2>1, <2>2, <2>3, <2>4, <2>5
<1>7. ASSUME NEW r \in Requests, UpdateRole(r) PROVE GoodReports'
  <2>. DEFINE e == req[r].email
  <2>1. /\ req[r].op \in {"setRole", "seed"} /\ req[r].pc = "update"
        /\ e \in Emails /\ req[r].role \in Roles
        /\ req[r].op = "seed" => req[r].role = "admin" /\ Listed(e)
        /\ req[r].op = "setRole" => ~req[r].changed
    BY <1>0, <1>7 DEF UpdateRole, At, WellFormed, Good, Progress, Calls
  <2>2. CASE Listed(e) /\ SetRow(r, e, [table[e] EXCEPT !.role = req[r].role], "reread")
    <3>1. PICK entry : entry = [table[e] EXCEPT !.role = req[r].role]
      OBVIOUS
    <3>2. table[e] \in [role : Roles, active : BOOLEAN]
      BY <1>0, <2>1, <2>2 DEF Listed, Entries
    <3>3. entry.role = req[r].role /\ entry.active = table[e].active
      BY <3>1, <3>2
    <3>4. SetRow(r, e, entry, "reread")
      BY <2>2, <3>1
    <3>5. ASSUME NEW q \in Requests, Holds(req[q], table[e]), ~Holds(req[q], entry)
          PROVE  req[r].op \in Undoing(req[q].op)
      BY <2>1, <3>3, <3>5 DEF Holds, Undoing
    <3>6. Holds(req[r], entry)
      BY <2>1, <3>3 DEF Holds
    <3>. HIDE DEF e
    <3>. QED
      BY <1>0, <2>1, <3>3, <3>4, <3>5, <3>6, SetRowGood DEF e
  <2>3. CASE req[r].op = "setRole" /\ Goto(r, "explain") /\ UNCHANGED table
    <3>1. PICK k : k = [req[r] EXCEPT !.pc = "explain"]
      OBVIOUS
    <3>2. /\ k.op = "setRole" /\ ~k.changed /\ k.pc = "explain"
      BY <1>0, <2>1, <2>3, <3>1 DEF Calls
    <3>3. Good(k)
      BY <3>2 DEF Good, Progress, Settled, Claims
    <3>. QED
      BY <1>0, <2>3, <3>1, <3>3, MoveGood DEF Goto
  <2>. QED
    BY <1>7, <2>1, <2>2, <2>3 DEF UpdateRole
<1>8. ASSUME NEW r \in Requests, BulkSelect(r) PROVE GoodReports'
  <2>1. /\ req[r].op = "bulk" /\ ~req[r].changed /\ UNCHANGED table
    BY <1>0, <1>8 DEF BulkSelect, At, WellFormed, Good, Progress
  <2>2. PICK matched \in SUBSET ActiveMembers :
          Become(r, [req[r] EXCEPT !.todo = matched,
                                   !.pc   = IF matched = {} THEN "done" ELSE "disable",
                                   !.res  = IF matched = {} THEN "ok" ELSE @])
    BY <1>8 DEF BulkSelect
  <2>3. PICK pc, res :
          /\ pc \in {"done", "disable"}
          /\ pc = (IF matched = {} THEN "done" ELSE "disable")
          /\ res = (IF matched = {} THEN "ok" ELSE req[r].res)
    OBVIOUS
  <2>4. PICK k : k = [req[r] EXCEPT !.todo = matched, !.pc = pc, !.res = res]
    OBVIOUS
  <2>5. Become(r, k)
    BY <1>0, <2>2, <2>3, <2>4
  <2>6. /\ k.op = "bulk" /\ ~k.changed /\ k.pc = pc /\ k.barred = req[r].barred
        /\ k.undone = req[r].undone
    BY <1>0, <2>1, <2>4 DEF Calls
  <2>7. Progress(k)
    BY <2>3, <2>6 DEF Progress
  <2>8. ASSUME NEW f \in Emails, Claims(k, f), f \notin k.undone
        PROVE  Listed(f) /\ Holds(k, table[f])
    <3>1. Claims(req[r], f)
      BY <2>1, <2>3, <2>6, <2>8 DEF Claims
    <3>. QED
      BY <1>0, <2>1, <2>6, <2>8, <3>1 DEF Good, Settled, Holds
  <2>. QED
    BY <1>0, <2>1, <2>5, <2>7, <2>8, MoveGood DEF Good, Settled
<1>9. ASSUME NEW r \in Requests, DisableRow(r) PROVE GoodReports'
  <2>1. /\ req[r].op \in {"disable", "bulk"} /\ req[r].pc = "disable"
        /\ req[r].op = "disable" => ~req[r].changed
    BY <1>0, <1>9 DEF DisableRow, At, WellFormed, Good, Progress
  <2>2. PICK e \in DisableTargets(r) :
          \/ /\ Listed(e) /\ SetRow(r, e, [table[e] EXCEPT !.active = FALSE], "reread")
          \/ /\ Become(r, [req[r] EXCEPT !.pc = "explain", !.email = e]) /\ UNCHANGED table
    BY <1>9 DEF DisableRow
  <2>3. /\ e \in Emails
        /\ IF req[r].op = "bulk" THEN e \in req[r].todo ELSE e = req[r].email
    BY <1>0 DEF Calls, DisableTargets
  <2>4. CASE Listed(e) /\ SetRow(r, e, [table[e] EXCEPT !.active = FALSE], "reread")
    <3>1. PICK entry : entry = [table[e] EXCEPT !.active = FALSE]
      OBVIOUS
    <3>2. table[e] \in [role : Roles, active : BOOLEAN]
      BY <1>0, <2>3, <2>4 DEF Listed, Entries
    <3>3. entry.role = table[e].role /\ entry.role \in Roles /\ ~entry.active
      BY <3>1, <3>2
    <3>4. SetRow(r, e, entry, "reread")
      BY <2>4, <3>1
    <3>5. ASSUME NEW q \in Requests, Holds(req[q], table[e]), ~Holds(req[q], entry)
          PROVE  req[r].op \in Undoing(req[q].op)
      BY <2>1, <3>3, <3>5 DEF Holds, Undoing
    <3>6. Holds(req[r], entry)
      BY <2>1, <3>3 DEF Holds
    <3>. QED
      BY <1>0, <2>1, <2>3, <3>3, <3>4, <3>5, <3>6, SetRowGood
  <2>5. CASE Become(r, [req[r] EXCEPT !.pc = "explain", !.email = e]) /\ UNCHANGED table
    <3>1. PICK k : k = [req[r] EXCEPT !.pc = "explain", !.email = e]
      OBVIOUS
    <3>2. /\ k.op = req[r].op /\ k.changed = req[r].changed /\ k.pc = "explain" /\ k.email = e
          /\ k.barred = req[r].barred /\ k.undone = req[r].undone /\ k.todo = req[r].todo
      BY <1>0, <3>1 DEF Calls
    <3>3. Progress(k)
      BY <1>0, <2>1, <2>3, <3>2 DEF Good, Progress
    <3>4. ASSUME NEW f \in Emails, Claims(k, f), f \notin k.undone
          PROVE  Listed(f) /\ Holds(k, table[f])
      <4>1. Claims(req[r], f)
        BY <2>1, <3>2, <3>4 DEF Claims
      <4>. QED
        BY <1>0, <2>1, <3>2, <3>4, <4>1 DEF Good, Settled, Holds
    <3>. QED
      BY <1>0, <2>5, <3>1, <3>3, <3>4, MoveGood DEF Good, Settled
  <2>. QED
    BY <2>2, <2>4, <2>5
<1>10. ASSUME NEW r \in Requests, Explain(r) PROVE GoodReports'
  <2>1. /\ req[r].op \in {"setRole", "disable", "bulk"} /\ req[r].pc = "explain"
        /\ req[r].op # "bulk" => ~req[r].changed
        /\ req[r].email \in Emails /\ UNCHANGED table
    BY <1>0, <1>10 DEF Explain, At, Good, Progress, Calls
  <2>2. CASE BulkNext(r, req[r].email, req[r].barred) /\ req[r].op = "bulk"
    BY <1>0, <2>1, <2>2, BulkNextGood
  <2>3. ASSUME NEW res \in {"not_found", "last_admin"}, Answer(r, res), req[r].op # "bulk"
        PROVE  GoodReports'
    BY <1>0, <2>1, <2>3, AnswerGood DEF Answers
  <2>4. CASE Listed(req[r].email) /\ ~table[req[r].email].active /\ Goto(r, "reread")
    <3>1. PICK k : k = [req[r] EXCEPT !.pc = "reread"]
      OBVIOUS
    <3>2. /\ k.op = req[r].op /\ k.email = req[r].email /\ k.changed = req[r].changed
          /\ k.pc = "reread" /\ k.barred = req[r].barred /\ k.undone = req[r].undone
          /\ k.todo = req[r].todo
      BY <1>0, <3>1 DEF Calls
    <3>3. Progress(k)
      BY <1>0, <2>1, <2>4, <3>2 DEF Good, Progress
    <3>4. ASSUME NEW f \in Emails, Claims(k, f), f \notin k.undone
          PROVE  Listed(f) /\ Holds(k, table[f])
      <4>1. CASE f = req[r].email /\ req[r].op # "setRole"
        BY <2>1, <2>4, <3>2, <4>1 DEF Holds
      <4>2. CASE ~(f = req[r].email /\ req[r].op # "setRole")
        <5>1. Claims(req[r], f)
          BY <2>1, <3>2, <3>4, <4>2 DEF Claims
        <5>. QED
          BY <1>0, <2>1, <3>2, <3>4, <4>2, <5>1 DEF Good, Settled, Holds, Claims
      <4>. QED
        BY <4>1, <4>2
    <3>. QED
      BY <1>0, <2>1, <2>4, <3>1, <3>3, <3>4, MoveGood DEF Good, Settled, Goto
  <2>. QED
    BY <1>10, <2>2, <2>3, <2>4 DEF Explain, Listed
<1>11. ASSUME NEW r \in Requests, EnableRow(r) PROVE GoodReports'
  <2>. DEFINE e == req[r].email
  <2>1. req[r].op = "enable" /\ req[r].pc = "enable" /\ ~req[r].changed /\ e \in Emails
    BY <1>0, <1>11 DEF EnableRow, At, WellFormed, Good, Progress, Calls
  <2>2. CASE Answer(r, "not_found") /\ UNCHANGED table
    BY <1>0, <2>1, <2>2, AnswerGood DEF Answers
  <2>3. CASE Listed(e) /\ SetRow(r, e, [table[e] EXCEPT !.active = TRUE], "reread")
    <3>1. PICK entry : entry = [table[e] EXCEPT !.active = TRUE]
      OBVIOUS
    <3>2. table[e] \in [role : Roles, active : BOOLEAN]
      BY <1>0, <2>1, <2>3 DEF Listed, Entries
    <3>3. entry.role = table[e].role /\ entry.role \in Roles /\ entry.active
      BY <3>1, <3>2
    <3>4. SetRow(r, e, entry, "reread")
      BY <2>3, <3>1
    <3>5. ASSUME NEW q \in Requests, Holds(req[q], table[e]), ~Holds(req[q], entry)
          PROVE  req[r].op \in Undoing(req[q].op)
      BY <2>1, <3>3, <3>5 DEF Holds, Undoing
    <3>6. Holds(req[r], entry)
      BY <2>1, <3>3 DEF Holds
    <3>. HIDE DEF e
    <3>. QED
      BY <1>0, <2>1, <3>3, <3>4, <3>5, <3>6, SetRowGood DEF e
  <2>. QED
    BY <1>11, <2>2, <2>3 DEF EnableRow
<1>12. ASSUME NEW r \in Requests, Reread(r) PROVE GoodReports'
  <2>1. /\ req[r].op \notin {"add", "login"} /\ req[r].pc = "reread" /\ UNCHANGED table
        /\ Listed(req[r].email) /\ req[r].email \in Emails
    BY <1>0, <1>12 DEF Reread, At, WellFormed, Good, Progress, Calls
  <2>2. PICK barred : barred = IF req[r].op \in {"disable", "bulk"}
                               THEN req[r].barred \cup {req[r].email} ELSE req[r].barred
    OBVIOUS
  <2>3. CASE req[r].op = "bulk"
    <3>1. BulkNext(r, req[r].email, barred) /\ barred = req[r].barred \cup {req[r].email}
      BY <1>12, <2>1, <2>2, <2>3 DEF Reread
    <3>. QED
      BY <1>0, <2>1, <2>3, <3>1, BulkNextGood
  <2>4. CASE req[r].op # "bulk"
    <3>1. PICK k : k = [req[r] EXCEPT !.pc = "done", !.barred = barred, !.res = "ok"]
      OBVIOUS
    <3>2. Become(r, k)
      BY <1>12, <2>1, <2>2, <2>4, <3>1 DEF Reread
    <3>3. /\ k.op = req[r].op /\ k.email = req[r].email /\ k.changed = req[r].changed
          /\ k.pc = "done" /\ k.barred = barred /\ k.undone = req[r].undone
          /\ k.res = "ok" /\ k.role = req[r].role
      BY <1>0, <3>1 DEF Calls
    <3>4. Progress(k)
      BY <1>0, <2>2, <3>3 DEF Good, Progress, Refusals
    <3>5. ASSUME NEW f \in Emails, Claims(k, f), f \notin k.undone
          PROVE  Listed(f) /\ Holds(k, table[f])
      <4>1. Claims(req[r], f)
        BY <2>1, <2>2, <3>3, <3>5 DEF Claims
      <4>. QED
        BY <1>0, <3>3, <3>5, <4>1 DEF Good, Settled, Holds
    <3>. QED
      BY <1>0, <2>1, <3>2, <3>4, <3>5, MoveGood DEF Good, Settled
  <2>. QED
    BY <2>3, <2>4
<1>13. ASSUME NEW r \in Requests, BulkEntryFails(r) PROVE GoodReports'
  <2>1. PICK e \in Emails : BulkNext(r, e, req[r].barred)
    BY <1>0, <1>13 DEF BulkEntryFails, Calls
  <2>2. /\ req[r].op = "bulk" /\ req[r].pc \in {"disable", "explain", "reread"}
        /\ UNCHANGED table
    BY <1>13 DEF BulkEntryFails, At
  <2>. QED
    BY <1>0, <2>1, <2>2, BulkNextGood
<1>14. ASSUME NEW r \in Requests, Fail(r) PROVE GoodReports'
  BY <1>0, <1>14, AnswerGood DEF Fail, Answers, Refusals
<1>15. CASE UNCHANGED vars
  BY <1>15 DEF vars, GoodReports, Good, Progress, Settled, Listed
<1>. QED
  BY <1>3, <1>4, <1>5, <1>6, <1>7, <1>8, <1>9, <1>10, <1>11, <1>12, <1>13, <1>14, <1>15
  DEF Next, Statement

LEMMA ReportsInductive == Spec => []GoodReports
<1>1. Init => GoodReports
  BY ReportsInit
<1>2. IInv /\ GoodReports /\ [Next]_vars => GoodReports'
  BY ReportsStep
<1>. QED
  BY <1>1, <1>2, Inductive, PTL DEF Spec

\* What a call reported stays true until a call that is meant to undo it runs,
\* however its statements interleave with those of the others.
THEOREM ReportsHold == Spec => []AcknowledgedHolds
<1>1. IInv /\ GoodReports => AcknowledgedHolds
  <2>. SUFFICES ASSUME IInv, GoodReports, NEW r \in Requests, At(r, "done"),
                       NEW e \in Reported(req[r]) \ req[r].undone,
                       Against(req[r], e, table[e])
                PROVE  FALSE
    BY DEF AcknowledgedHolds
  <2>1. req[r] \in Calls /\ Good(req[r]) /\ req[r].pc = "done"
    BY DEF IInv, TypeOK, GoodReports, At
  <2>2. req[r].op # "add"
    BY DEF Against
  <2>3. Claims(req[r], e) /\ e \in Emails
    <3>1. CASE req[r].op \in {"disable", "bulk"}
      BY <2>1, <3>1 DEF Reported, Claims, Calls
    <3>2. CASE req[r].op \in {"setRole", "seed"}
      <4>1. req[r].res = "ok" /\ req[r].changed /\ e = req[r].email
        BY <3>2 DEF Reported
      <4>. QED
        BY <2>1, <3>2, <4>1 DEF Claims, Calls
    <3>3. CASE req[r].op \in {"enable", "login"}
      <4>1. req[r].res \in {"ok", "allowed"} /\ e = req[r].email
        BY <3>3 DEF Reported
      <4>. QED
        BY <2>1, <3>3, <4>1 DEF Claims, Calls
    <3>. QED
      BY <2>1, <2>2, <3>1, <3>2, <3>3 DEF Calls, Ops, AdminOps
  <2>4. Holds(req[r], table[e])
    BY <2>1, <2>3 DEF Good, Settled
  <2>. QED
    BY <2>4 DEF Holds, Against
<1>. QED
  BY <1>1, Inductive, ReportsInductive, PTL

\* A call answered with a refusal has changed nothing.
THEOREM RefusalsChangeNothing == Spec => []RefusalChangedNothing
<1>1. GoodReports => RefusalChangedNothing
  BY DEF GoodReports, Good, Progress, RefusalChangedNothing, At
<1>. QED
  BY <1>1, ReportsInductive, PTL
=============================================================================
