------------------------------ MODULE Gm2Proofs ------------------------------
(***************************************************************************)
(* Proofs about Gm2, for any accounts, logins, tokens and number of        *)
(* requests between their load and their save at once.                     *)
(***************************************************************************)
EXTENDS Gm2, TLAPS

\* Rows: whoever is linked or has tokens exists, a link is to a sub that was
\* vouched for with the address, and no two rows have the same one.
RowOK(e) == /\ account[e].linked # None => e \in Vouched[account[e].linked]
            /\ account[e].linked # None \/ account[e].tokens # {} => account[e].exists
LinkUnique == \A e, f \in Emails :
                account[e].linked # None /\ account[e].linked = account[f].linked => e = f
RowsOK == LinkUnique /\ \A e \in Emails : RowOK(e)

Holds   == {"link", "save", "clear"}
Logins  == {"signIn", "signUp"}
Way(k) == /\ k.pc = "findLinked" => k.kind \in {"signIn", "signUp", "revoke"}
          /\ k.pc = "findEmail"  => k.kind \in {"signIn", "signUp", "passwordSignIn", "signOut"}
          /\ k.pc = "link"       => k.kind = "signIn"
          /\ k.pc = "insert"     => k.kind \in {"signUp", "passwordSignUp"}
          /\ k.pc = "save"       => k.kind \in SignIns \cup {"signOut"}
          /\ k.pc = "clear"      => k.kind = "revoke"
          /\ k.pc = "done"       => k.kind \in SignIns \cup {"revoke"}
          /\ k.kind \in Logins \cup {"revoke"} => k.sub \in Subs
          /\ k.kind \in SignIns => k.token \in Tokens
          /\ k.kind = "passwordSignUp" => k.sub = None
          /\ k.kind \in SignIns \/ k.pc \in Holds \cup {"findEmail"} => k.email \in Emails
          /\ k.loaded # {} => k.pc \in Holds

\* The account of a login is linked, or its address vouched for.
Knows(k) == /\ Way(k)
            /\ k.kind \in Logins /\ k.pc \in {"findLinked", "findEmail", "link", "insert"} =>
                 k.email \in Vouched[k.sub]
            /\ (k.kind \in Logins /\ k.pc \in {"save", "done"}) \/ k.pc = "clear" =>
                 account[k.email].linked = k.sub
            /\ k.pc \in Holds => account[k.email].exists
CallsKnow == \A c \in Calls : Knows(call[c])

\* Token t is in the row of e, or in the memory of a request that may save it there.
Has(t, e) == \/ t \in account[e].tokens
             \/ \E d \in Calls : call[d].email = e /\ t \in call[d].loaded
OneHome   == \A t \in Tokens : \A e, f \in Emails : Has(t, e) /\ Has(t, f) => e = f

\* A token that is yet to be issued is nowhere.
Pending(k) == k.kind \in SignIns /\ k.pc \notin {"idle", "done"}
Fresh(t)   == (\A e \in Emails : ~Has(t, e)) /\ (\A c \in Calls : t \notin call[c].older)
PendingFresh == \A c \in Calls : Pending(call[c]) =>
                  /\ Fresh(call[c].token)
                  /\ \A d \in Calls \ {c} : Pending(call[d]) => call[d].token # call[c].token

\* The tokens a notification is about stay with the account of its sub, and once
\* it is answered they are nowhere but where it could not see them.
Revokes(k) == k.kind = "revoke" => \A t \in k.older : \A e \in Emails : Has(t, e) =>
                /\ k.pc \in {"findLinked", "clear"} => account[e].linked = k.sub
                /\ k.pc = "done" => t \in k.exposed
AllRevoke == \A c \in Calls : Revokes(call[c])

\* A session that must work is in the row, and in the memory of everybody who is
\* going to write the row.
Open(k)  == /\ k.pc = "done" /\ k.email \in Emails /\ k.token \in account[k.email].tokens
            /\ \A d \in Calls : call[d].email = k.email /\ call[d].pc \in Holds =>
                 k.token \in call[d].loaded
WorksOK  == \A c \in Calls : call[c].works => Open(call[c])

IInv == TypeOK /\ RowsOK /\ CallsKnow /\ OneHome /\ PendingFresh /\ AllRevoke /\ WorksOK
-----------------------------------------------------------------------------
LEMMA InitIInv == Init => IInv
<1>. SUFFICES ASSUME Init PROVE IInv
  OBVIOUS
<1>1. Idle \in CallRecs
  BY DEF Idle, CallRecs
<1>2. TypeOK
  BY <1>1 DEF Init, TypeOK, Accounts
<1>3. \A e \in Emails : account[e].linked = None /\ account[e].tokens = {}
  BY DEF Init
<1>4. RowsOK
  BY <1>3 DEF RowsOK, LinkUnique, RowOK
<1>5. \A c \in Calls : call[c] = Idle
  BY DEF Init
<1>6. Idle.kind = None /\ Idle.pc = "idle" /\ Idle.loaded = {} /\ Idle.older = {} /\ ~Idle.works
  BY DEF Idle
<1>7. CallsKnow
  BY <1>5, <1>6 DEF CallsKnow, Knows, Way, SignIns, Logins, Holds, None
<1>8. OneHome /\ PendingFresh /\ AllRevoke /\ WorksOK
  BY <1>3, <1>5, <1>6 DEF OneHome, Has, PendingFresh, Pending, AllRevoke, Revokes, WorksOK
<1>. QED
  BY <1>2, <1>4, <1>7, <1>8 DEF IInv
-----------------------------------------------------------------------------
\* An account, once there or linked, stays so.
Steady == \A e \in Emails : /\ account[e].exists => account'[e].exists
                            /\ account[e].linked # None => account'[e].linked = account[e].linked

LEMMA KnowsStays ==
  ASSUME Steady, NEW k \in CallRecs, Knows(k)
  PROVE  Knows(k)'
<1>1. k.kind \in Logins \cup {"revoke"} => k.sub # None
  BY NoneAssumption DEF Knows, Way
<1>2. k.kind \in SignIns \/ k.pc \in Holds => k.email \in Emails
  BY DEF Knows, Way
<1>3. k.pc = "clear" => k.kind = "revoke"
  BY DEF Knows, Way
<1>4. (k.kind \in Logins /\ k.pc \in {"save", "done"}) \/ k.pc = "clear" =>
        account'[k.email].linked = k.sub
  BY <1>1, <1>2, <1>3 DEF Knows, Steady, Logins, SignIns, Holds
<1>5. k.pc \in Holds => account'[k.email].exists
  BY <1>2 DEF Knows, Steady
<1>. QED
  BY <1>4, <1>5 DEF Knows

\* Records that differ in what must work only.
Same(a, b) == /\ a.kind = b.kind /\ a.pc = b.pc /\ a.sub = b.sub /\ a.email = b.email
              /\ a.token = b.token /\ a.loaded = b.loaded /\ a.older = b.older
              /\ a.exposed = b.exposed /\ (b.works => a.works)

LEMMA SameKnows == ASSUME NEW a, NEW b, Same(a, b), Knows(a) PROVE Knows(b)
BY DEF Same, Knows, Way

\* The one step lemma: request c becomes k.  A token gets into a row from the
\* memory of c or as the one c issues; k has in memory what the row of its
\* account had or c knew; a token to be issued is new or c's own.
LEMMA Step ==
  ASSUME IInv, NEW c \in Calls, NEW k \in CallRecs,
         account' \in [Emails -> Accounts], call' \in [Calls -> CallRecs], call'[c] = k,
         \A d \in Calls \ {c} : Same(call[d], call'[d]),
         Steady, RowsOK', Knows(k)',
         \A e \in Emails : \A t \in account'[e].tokens :
            \/ Has(t, e)
            \/ e = call[c].email /\ t = call[c].token /\ Pending(call[c]) /\ k.pc = "done",
         \A t \in k.loaded : k.email \in Emails /\ Has(t, k.email),
         Pending(k) => \/ Pending(call[c]) /\ k.token = call[c].token
                       \/ k.token \in NewTokens,
         k.older = call[c].older \/ k.older \subseteq LiveTokens,
         Revokes(k)',
         \A d \in Calls \ {c} : call'[d].works =>
            /\ call[d].token \in account'[call[d].email].tokens
            /\ k.email = call[d].email /\ k.pc \in Holds => call[d].token \in k.loaded,
         k.works => Open(k)'
  PROVE  IInv'
<1>0. /\ TypeOK /\ RowsOK /\ CallsKnow /\ OneHome /\ PendingFresh /\ AllRevoke /\ WorksOK
      /\ account \in [Emails -> Accounts] /\ call \in [Calls -> CallRecs]
  BY DEF IInv, TypeOK
<1>. DEFINE issues(t, e) == /\ e = call[c].email /\ t = call[c].token /\ Pending(call[c])
                            /\ k.pc = "done"
<1>1. ASSUME NEW e \in Emails, NEW t, Has(t, e)' PROVE Has(t, e) \/ issues(t, e)
  <2>1. CASE t \in account'[e].tokens
    BY <2>1
  <2>2. ASSUME NEW d \in Calls, call'[d].email = e, t \in call'[d].loaded
        PROVE  Has(t, e)
    <3>1. CASE d = c
      BY <2>2, <3>1
    <3>2. CASE d # c
      BY <2>2, <3>2 DEF Same, Has
    <3>. QED
      BY <3>1, <3>2
  <2>. QED
    BY <1>1, <2>1, <2>2 DEF Has
<1>2. k.pc = "done" => ~Pending(k)
  BY DEF Pending
<1>3. \A d \in Calls \ {c} : /\ Pending(call'[d]) <=> Pending(call[d])
                             /\ call'[d].token = call[d].token
                             /\ call'[d].older = call[d].older
  BY DEF Same, Pending
<1>4. TypeOK'
  BY DEF TypeOK
<1>5. CallsKnow'
  <2>1. ASSUME NEW d \in Calls, d # c PROVE Knows(call[d])'
    <3>1. PICK a, b : a = call[d] /\ b = call'[d]
      OBVIOUS
    <3>2. b \in CallRecs /\ Knows(b)
      BY <1>0, <2>1, <3>1, SameKnows DEF CallsKnow
    <3>3. Knows(b)'
      BY <3>2, KnowsStays
    <3>. QED
      BY <3>1, <3>3
  <2>. QED
    BY <2>1 DEF CallsKnow
<1>6. Pending(call[c]) => Fresh(call[c].token) /\ call[c].token \in Tokens
  BY <1>0 DEF PendingFresh, CallsKnow, Knows, Way, Pending
<1>7. OneHome'
  <2>1. ASSUME NEW t \in Tokens, NEW e \in Emails, NEW f \in Emails, Has(t, e)', Has(t, f)'
        PROVE  e = f
    <3>1. (Has(t, e) \/ issues(t, e)) /\ (Has(t, f) \/ issues(t, f))
      BY <1>1, <2>1
    <3>2. issues(t, e) \/ issues(t, f) => ~Has(t, e) /\ ~Has(t, f)
      BY <1>6 DEF Fresh
    <3>. QED
      BY <1>0, <3>1, <3>2 DEF OneHome
  <2>. QED
    BY <2>1 DEF OneHome
<1>8. PendingFresh'
  <2>1. ASSUME NEW d \in Calls, Pending(call'[d]), NEW u, u = call'[d].token
        PROVE  Fresh(u) /\ (u = call[c].token /\ Pending(call[c]) => d = c)
    <3>1. CASE d # c
      BY <1>0, <1>3, <2>1, <3>1 DEF PendingFresh
    <3>2. CASE d = c /\ Pending(call[c]) /\ u = call[c].token
      BY <1>6, <3>2
    <3>3. CASE d = c /\ u \in NewTokens
      <4>1. \A e \in Emails : u \notin account[e].tokens
        BY <3>3 DEF NewTokens, LiveTokens
      <4>2. \A f \in Calls : u \notin call[f].loaded /\ u \notin call[f].older
        BY <3>3 DEF NewTokens
      <4>. QED
        BY <3>3, <4>1, <4>2 DEF Fresh, Has
    <3>. QED
      BY <2>1, <3>1, <3>2, <3>3
  <2>2. ASSUME NEW d \in Calls, Pending(call'[d]) PROVE Fresh(call[d].token)'
    <3>1. PICK u : u = call'[d].token
      OBVIOUS
    <3>2. Fresh(u)
      BY <2>1, <2>2, <3>1
    <3>3. ASSUME NEW e \in Emails PROVE ~Has(u, e)'
      BY <1>1, <1>2, <2>1, <2>2, <3>1, <3>2 DEF Fresh
    <3>4. ASSUME NEW f \in Calls PROVE u \notin call'[f].older
      <4>1. u \notin LiveTokens
        BY <3>2 DEF Fresh, Has, LiveTokens
      <4>. QED
        BY <1>3, <3>2, <4>1 DEF Fresh
    <3>. QED
      BY <3>1, <3>3, <3>4 DEF Fresh
  <2>3. ASSUME NEW d \in Calls, NEW f \in Calls \ {d}, Pending(call'[d]), Pending(call'[f])
        PROVE  call'[d].token # call'[f].token
    <3>1. CASE d # c /\ f # c
      BY <1>0, <1>3, <2>3, <3>1 DEF PendingFresh
    <3>2. ASSUME NEW g \in Calls \ {c}, Pending(call'[g]), Pending(k) PROVE k.token # call'[g].token
      <4>1. CASE k.token \in NewTokens
        BY <1>3, <4>1 DEF NewTokens
      <4>2. CASE Pending(call[c]) /\ k.token = call[c].token
        BY <1>0, <1>3, <3>2, <4>2 DEF PendingFresh
      <4>. QED
        BY <3>2, <4>1, <4>2
    <3>. QED
      BY <2>3, <3>1, <3>2
  <2>. QED
    BY <2>2, <2>3 DEF PendingFresh
<1>9. AllRevoke'
  <2>1. ASSUME NEW d \in Calls, d # c PROVE Revokes(call[d])'
    <3>1. PICK a, b : a = call[d] /\ b = call'[d]
      OBVIOUS
    <3>2. Same(a, b) /\ Revokes(a) /\ Way(a)
      BY <1>0, <2>1, <3>1 DEF AllRevoke, CallsKnow, Knows
    <3>3. ASSUME b.kind = "revoke", NEW t \in b.older, NEW e \in Emails, Has(t, e)'
          PROVE  /\ b.pc \in {"findLinked", "clear"} => account'[e].linked = b.sub
                 /\ b.pc = "done" => t \in b.exposed
      <4>1. t \in a.older /\ a.kind = "revoke"
        BY <3>2, <3>3 DEF Same
      <4>2. Has(t, e)
        BY <1>1, <1>6, <3>1, <3>3, <4>1 DEF Fresh
      <4>3. /\ a.pc \in {"findLinked", "clear"} => account[e].linked = a.sub
            /\ a.pc = "done" => t \in a.exposed
        BY <3>2, <4>1, <4>2 DEF Revokes
      <4>4. a.sub # None
        BY <3>2, <4>1, NoneAssumption DEF Way
      <4>. QED
        BY <3>2, <4>3, <4>4 DEF Same, Steady
    <3>4. Revokes(b)'
      BY <3>3 DEF Revokes
    <3>. QED
      BY <3>1, <3>4
  <2>. QED
    BY <2>1 DEF AllRevoke
<1>10. WorksOK'
  <2>1. ASSUME NEW d \in Calls, d # c, call'[d].works PROVE Open(call[d])'
    <3>1. PICK a, b : a = call[d] /\ b = call'[d]
      OBVIOUS
    <3>2. Same(a, b) /\ Open(a)
      BY <1>0, <2>1, <3>1 DEF WorksOK, Same
    <3>3. ASSUME NEW f \in Calls, call'[f].email = b.email, call'[f].pc \in Holds
          PROVE  b.token \in call'[f].loaded
      <4>1. CASE f = c
        BY <2>1, <3>1, <3>2, <3>3, <4>1 DEF Same
      <4>2. CASE f # c
        BY <3>2, <3>3, <4>2 DEF Same, Open
      <4>. QED
        BY <4>1, <4>2
    <3>4. /\ b.pc = "done" /\ b.email \in Emails
          /\ b.token \in account'[b.email].tokens
      BY <2>1, <3>1, <3>2 DEF Same, Open
    <3>5. Open(b)'
      BY <3>3, <3>4 DEF Open
    <3>. QED
      BY <3>1, <3>5
  <2>. QED
    BY <2>1 DEF WorksOK
<1>. QED
  BY <1>4, <1>5, <1>7, <1>8, <1>9, <1>10 DEF IInv
-----------------------------------------------------------------------------
\* A step of c that writes no row: what it loads is what the row has.
LEMMA Moves ==
  ASSUME IInv, NEW c \in Calls, NEW k \in CallRecs, Become(c, k), UNCHANGED account,
         Knows(k), Revokes(k), ~k.works,
         \/ k.loaded = {} /\ k.pc \notin Holds
         \/ k.pc \in Holds /\ k.email \in Emails /\ k.loaded = account[k.email].tokens,
         Pending(k) => \/ Pending(call[c]) /\ k.token = call[c].token
                       \/ k.token \in NewTokens,
         k.older = call[c].older \/ k.older \subseteq LiveTokens
  PROVE  IInv'
<1>1. TypeOK /\ RowsOK /\ WorksOK
  BY DEF IInv
<1>2. /\ call' \in [Calls -> CallRecs] /\ call'[c] = k
      /\ \A d \in Calls \ {c} : call'[d] = call[d]
  BY <1>1 DEF Become, TypeOK
<1>3. \A d \in Calls \ {c} : Same(call[d], call'[d])
  BY <1>2 DEF Same
<1>4. Steady /\ RowsOK' /\ account' \in [Emails -> Accounts]
  BY <1>1 DEF Steady, RowsOK, LinkUnique, RowOK, TypeOK
<1>5. \A t \in k.loaded : k.email \in Emails /\ Has(t, k.email)
  BY DEF Has
<1>6. ASSUME NEW t, NEW e \in Emails, Has(t, e)' PROVE Has(t, e)
  BY <1>2, <1>5, <1>6 DEF Has
<1>7. Revokes(k)'
  BY <1>6 DEF Revokes
<1>8. Knows(k)'
  BY DEF Knows, Way
<1>9. ASSUME NEW d \in Calls \ {c}, call'[d].works
      PROVE  /\ call[d].token \in account'[call[d].email].tokens
             /\ k.email = call[d].email /\ k.pc \in Holds => call[d].token \in k.loaded
  <2>1. call[d].token \in account[call[d].email].tokens
    BY <1>1, <1>2, <1>9 DEF WorksOK, Open
  <2>. QED
    BY <2>1
<1>. QED
  BY <1>2, <1>3, <1>4, <1>5, <1>7, <1>8, <1>9, Step DEF Has

LEMMA IdleIsNothing ==
  /\ Idle \in CallRecs /\ Idle.pc = "idle" /\ Idle.kind = None /\ Idle.loaded = {}
  /\ Idle.older = {} /\ ~Idle.works /\ Knows(Idle) /\ Revokes(Idle) /\ ~Pending(Idle)
<1>1. /\ Idle \in CallRecs /\ Idle.pc = "idle" /\ Idle.kind = None /\ Idle.loaded = {}
      /\ Idle.older = {} /\ ~Idle.works
  BY DEF Idle, CallRecs
<1>. QED
  BY <1>1 DEF Knows, Way, Revokes, Pending, SignIns, Logins, Holds, None

LEMMA RefuseStep == ASSUME IInv, NEW c \in Calls, Refuse(c), UNCHANGED account PROVE IInv'
BY IdleIsNothing, Moves DEF Refuse, Holds

LEMMA FailStep == ASSUME IInv, NEW c \in Calls, Fail(c) PROVE IInv'
BY RefuseStep DEF Fail

\* A token that is in the row of an account with a sub is in no other account.
LEMMA LinkedHome ==
  ASSUME IInv, NEW s \in Subs, NEW t \in UNION {account[e].tokens : e \in LinkedTo(s)},
         NEW e \in Emails, Has(t, e)
  PROVE  account[e].linked = s
<1>1. PICK f \in Emails : account[f].linked = s /\ t \in account[f].tokens
  BY DEF LinkedTo
<1>2. t \in Tokens /\ Has(t, f)
  BY <1>1 DEF IInv, TypeOK, Accounts, Has
<1>3. e = f
  BY <1>2 DEF IInv, OneHome
<1>. QED
  BY <1>1, <1>3

LEMMA ArriveStep == ASSUME IInv, NEW c \in Calls, Arrive(c) PROVE IInv'
<1>1. UNCHANGED account /\ TypeOK
  BY DEF IInv, Arrive
<1>2. NewTokens \subseteq Tokens
  BY DEF NewTokens
\* A request with a token, of a kind that arrives at pc.
<1>3. ASSUME NEW k \in CallRecs, Become(c, k),
             k.loaded = {}, k.older = {}, ~k.works, k.email \in Emails,
             \/ /\ k.kind \in Logins /\ k.pc = "findLinked" /\ k.token \in NewTokens
                /\ k.sub \in Subs /\ k.email \in Vouched[k.sub]
             \/ /\ k.kind = "passwordSignUp" /\ k.pc = "insert" /\ k.token \in NewTokens
                /\ k.sub = None
             \/ k.kind = "passwordSignIn" /\ k.pc = "findEmail" /\ k.token \in NewTokens
             \/ k.kind = "signOut" /\ k.pc = "findEmail"
      PROVE  IInv'
  <2>1. Knows(k)
    BY <1>2, <1>3 DEF Knows, Way, SignIns, Logins, Holds
  <2>2. Revokes(k)
    BY <1>3 DEF Revokes
  <2>3. Pending(k) => k.token \in NewTokens
    BY <1>3 DEF Pending, SignIns
  <2>. QED
    BY <1>1, <1>3, <2>1, <2>2, <2>3, Moves DEF Holds
<1>4. ASSUME NEW s \in Subs,
             Become(c, [Idle EXCEPT !.kind = "revoke", !.pc = "findLinked", !.sub = s,
                          !.older = UNION {account[e].tokens : e \in LinkedTo(s)}])
      PROVE  IInv'
  <2>1. PICK o : o = UNION {account[e].tokens : e \in LinkedTo(s)}
    OBVIOUS
  <2>2. o \subseteq LiveTokens /\ o \subseteq Tokens
    BY <1>1, <2>1 DEF LiveTokens, LinkedTo, TypeOK, Accounts
  <2>3. PICK k : k = [Idle EXCEPT !.kind = "revoke", !.pc = "findLinked", !.sub = s, !.older = o]
    OBVIOUS
  <2>4. k \in CallRecs
    BY <2>2, <2>3 DEF Idle, CallRecs
  <2>5. /\ k.kind = "revoke" /\ k.pc = "findLinked" /\ k.sub = s
        /\ k.loaded = {} /\ k.older = o /\ ~k.works
    BY <2>3 DEF Idle
  <2>6. Knows(k)
    BY <2>5 DEF Knows, Way, SignIns, Logins, Holds
  <2>7. Revokes(k)
    BY <2>1, <2>5, LinkedHome DEF Revokes
  <2>. QED
    BY <1>1, <1>4, <2>1, <2>2, <2>3, <2>4, <2>5, <2>6, <2>7, Moves DEF Holds, Pending, SignIns
<1>5. ASSUME NEW kind \in {"passwordSignUp", "passwordSignIn", "signOut"},
             NEW pc \in {"insert", "findEmail"}, pc = "insert" <=> kind = "passwordSignUp",
             NEW e \in Emails, NEW t \in Tokens, kind # "signOut" => t \in NewTokens,
             Become(c, [Idle EXCEPT !.kind = kind, !.pc = pc, !.email = e, !.token = t])
      PROVE  IInv'
  <2>1. PICK k : k = [Idle EXCEPT !.kind = kind, !.pc = pc, !.email = e, !.token = t]
    OBVIOUS
  <2>2. /\ k \in CallRecs /\ k.loaded = {} /\ k.older = {} /\ ~k.works /\ k.email = e
        /\ k.kind = kind /\ k.pc = pc /\ k.token = t /\ k.sub = None
    BY <2>1 DEF Idle, CallRecs
  <2>. QED
    BY <1>3, <1>5, <2>1, <2>2
<1>6. ASSUME NEW s \in Subs, NEW t \in NewTokens, NEW kind \in Logins, NEW e \in Vouched[s],
             Become(c, [Idle EXCEPT !.kind = kind, !.pc = "findLinked", !.sub = s,
                                    !.email = e, !.token = t])
      PROVE  IInv'
  <2>1. PICK k : k = [Idle EXCEPT !.kind = kind, !.pc = "findLinked", !.sub = s,
                                  !.email = e, !.token = t]
    OBVIOUS
  <2>2. e \in Emails /\ t \in Tokens
    BY <1>2, VouchedAssumption
  <2>3. /\ k \in CallRecs /\ k.loaded = {} /\ k.older = {} /\ ~k.works /\ k.email = e
        /\ k.kind = kind /\ k.pc = "findLinked" /\ k.token = t /\ k.sub = s
    BY <2>1, <2>2 DEF Idle, CallRecs, Logins
  <2>. QED
    BY <1>3, <1>6, <2>1, <2>2, <2>3
<1>7. \A e \in Emails : account[e].tokens \subseteq Tokens
  BY <1>1 DEF TypeOK, Accounts
<1>. QED
  BY <1>2, <1>4, <1>5, <1>6, <1>7 DEF Arrive, Logins
-----------------------------------------------------------------------------
\* What is known of a request that has not been answered.
LEMMA LiveCall ==
  ASSUME IInv, NEW c \in Calls, call[c].pc \notin {"idle", "done"}
  PROVE  /\ call[c] \in CallRecs /\ Knows(call[c]) /\ Way(call[c]) /\ Revokes(call[c])
         /\ ~call[c].works
         /\ call[c].kind \in SignIns <=> Pending(call[c])
         /\ \A e \in Emails : account[e].tokens \subseteq Tokens
BY DEF IInv, TypeOK, Accounts, CallsKnow, Knows, AllRevoke, WorksOK, Open, Pending

\* Going on to a statement that needs no row.
LEMMA GotoStep ==
  ASSUME IInv, NEW c \in Calls, call[c].pc \in {"findLinked", "findEmail"},
         NEW pc \in {"findEmail", "insert"}, Goto(c, pc), UNCHANGED account,
         call[c].kind \in IF pc = "insert" THEN {"signUp"} ELSE Logins
  PROVE  IInv'
<1>1. /\ call[c] \in CallRecs /\ Knows(call[c]) /\ Way(call[c]) /\ ~call[c].works
      /\ Pending(call[c])
  BY LiveCall DEF SignIns, Logins
<1>2. PICK k : k = [call[c] EXCEPT !.pc = pc]
  OBVIOUS
<1>3. /\ k \in CallRecs /\ k.kind = call[c].kind /\ k.pc = pc /\ k.sub = call[c].sub
      /\ k.email = call[c].email /\ k.token = call[c].token /\ k.loaded = call[c].loaded
      /\ k.older = call[c].older /\ k.works = call[c].works
  BY <1>1, <1>2 DEF CallRecs
<1>4. call[c].loaded = {}
  BY <1>1 DEF Way, Holds
<1>5. Knows(k)
  BY <1>1, <1>3, <1>4 DEF Knows, Way, SignIns, Logins, Holds
<1>6. Revokes(k)
  BY <1>3 DEF Revokes, Logins
<1>. QED
  BY <1>1, <1>2, <1>3, <1>4, <1>5, <1>6, Moves DEF Goto, Holds

\* Loading a row that the request may go on to save.
LEMMA LoadStep ==
  ASSUME IInv, NEW c \in Calls, call[c].pc \in {"findLinked", "findEmail"},
         NEW e \in Emails, NEW pc \in Holds, Load(c, e, pc), UNCHANGED account,
         account[e].exists,
         pc = "link"  => call[c].kind = "signIn" /\ e \in Vouched[call[c].sub],
         pc = "save"  => /\ call[c].kind \in {"signIn", "passwordSignIn", "signOut"}
                         /\ call[c].kind = "signIn" => account[e].linked = call[c].sub,
         pc = "clear" => /\ call[c].kind = "revoke" /\ account[e].linked = call[c].sub
                         /\ call[c].pc = "findLinked"
  PROVE  IInv'
<1>1. /\ call[c] \in CallRecs /\ Knows(call[c]) /\ Way(call[c]) /\ Revokes(call[c])
      /\ ~call[c].works
      /\ call[c].kind \in SignIns <=> Pending(call[c])
      /\ account[e].tokens \subseteq Tokens
  BY LiveCall
<1>2. PICK l : l = account[e].tokens
  OBVIOUS
<1>3. PICK k : k = [call[c] EXCEPT !.pc = pc, !.email = e, !.loaded = l]
  OBVIOUS
<1>4. /\ k \in CallRecs /\ k.kind = call[c].kind /\ k.pc = pc /\ k.sub = call[c].sub
      /\ k.email = e /\ k.token = call[c].token /\ k.loaded = l
      /\ k.older = call[c].older /\ k.works = call[c].works
  BY <1>1, <1>2, <1>3 DEF CallRecs, Holds
<1>5. Knows(k)
  BY <1>1, <1>4 DEF Knows, Way, SignIns, Logins, Holds
<1>6. Revokes(k)
  BY <1>1, <1>4 DEF Revokes, Holds
<1>7. Pending(k) => Pending(call[c])
  BY <1>1, <1>4 DEF Pending
<1>. QED
  BY <1>1, <1>2, <1>3, <1>4, <1>5, <1>6, <1>7, Moves DEF Load

\* A notification that finds nothing to clear: what it was about is at most in
\* the memory of others.
LEMMA NothingToClear ==
  ASSUME IInv, NEW c \in Calls, call[c].pc = "findLinked", call[c].kind = "revoke",
         UNCHANGED account, \A e \in LinkedTo(call[c].sub) : account[e].tokens = {},
         Become(c, [call[c] EXCEPT !.pc = "done",
                      !.exposed = UNION {Stale(c, e) : e \in LinkedTo(call[c].sub)}])
  PROVE  IInv'
<1>1. /\ call[c] \in CallRecs /\ Knows(call[c]) /\ Way(call[c]) /\ Revokes(call[c])
      /\ ~call[c].works
  BY LiveCall
<1>2. PICK x : x = UNION {Stale(c, e) : e \in LinkedTo(call[c].sub)}
  OBVIOUS
<1>3. x \subseteq Tokens
  <2>1. \A d \in Calls : call[d].loaded \subseteq Tokens
    BY DEF IInv, TypeOK, CallRecs
  <2>. QED
    BY <1>2, <2>1 DEF Stale, Holding
<1>4. PICK k : k = [call[c] EXCEPT !.pc = "done", !.exposed = x]
  OBVIOUS
<1>5. /\ k \in CallRecs /\ k.kind = "revoke" /\ k.pc = "done" /\ k.sub = call[c].sub
      /\ k.loaded = call[c].loaded /\ k.older = call[c].older /\ k.exposed = x /\ ~k.works
  BY <1>1, <1>3, <1>4 DEF CallRecs
<1>6. call[c].loaded = {}
  BY <1>1 DEF Way, Holds
<1>7. Knows(k)
  BY <1>1, <1>5, <1>6 DEF Knows, Way, SignIns, Logins, Holds
<1>8. ASSUME NEW t \in k.older, NEW e \in Emails, Has(t, e) PROVE t \in x
  <2>1. e \in LinkedTo(call[c].sub) /\ account[e].tokens = {}
    BY <1>1, <1>5, <1>8 DEF Revokes, LinkedTo
  <2>2. PICK d \in Calls : call[d].email = e /\ t \in call[d].loaded
    BY <1>8, <2>1 DEF Has
  <2>3. call[d].pc \in Holds /\ d # c
    BY <1>6, <2>2 DEF IInv, CallsKnow, Knows, Way
  <2>4. t \in Stale(c, e)
    BY <2>2, <2>3 DEF Stale, Holding, Holds
  <2>. QED
    BY <1>2, <2>1, <2>4
<1>9. Revokes(k)
  BY <1>5, <1>8 DEF Revokes
<1>. QED
  BY <1>2, <1>4, <1>5, <1>6, <1>7, <1>9, Moves DEF Holds, Pending

LEMMA FindLinkedStep == ASSUME IInv, NEW c \in Calls, FindLinked(c) PROVE IInv'
<1>1. call[c].pc = "findLinked" /\ UNCHANGED account
  BY DEF FindLinked, At
<1>2. Way(call[c])
  BY <1>1, LiveCall
<1>3. call[c].kind \in {"signIn", "signUp", "revoke"} /\ call[c].sub # None
  BY <1>1, <1>2, NoneAssumption DEF Way, Logins
<1>4. CASE call[c].kind # "revoke" /\ Goto(c, "findEmail")
  BY <1>1, <1>3, <1>4, GotoStep DEF Logins
<1>5. CASE Refuse(c)
  BY <1>1, <1>5, RefuseStep
<1>6. ASSUME NEW e \in LinkedTo(call[c].sub), NEW pc \in {"save", "clear"}, Load(c, e, pc),
             call[c].kind = IF pc = "save" THEN "signIn" ELSE "revoke"
      PROVE  IInv'
  <2>1. e \in Emails /\ account[e].linked = call[c].sub
    BY DEF LinkedTo
  <2>2. account[e].exists
    BY <1>3, <2>1 DEF IInv, RowsOK, RowOK
  <2>. QED
    BY <1>1, <1>6, <2>1, <2>2, LoadStep DEF Holds
<1>7. CASE /\ call[c].kind = "revoke" /\ \A e \in LinkedTo(call[c].sub) : account[e].tokens = {}
           /\ Become(c, [call[c] EXCEPT !.pc = "done",
                           !.exposed = UNION {Stale(c, e) : e \in LinkedTo(call[c].sub)}])
  BY <1>1, <1>7, NothingToClear
<1>. QED
  BY <1>4, <1>5, <1>6, <1>7 DEF FindLinked

LEMMA FindEmailStep == ASSUME IInv, NEW c \in Calls, FindEmail(c) PROVE IInv'
<1>1. call[c].pc = "findEmail" /\ UNCHANGED account
  BY DEF FindEmail, At
<1>2. Knows(call[c]) /\ Way(call[c])
  BY <1>1, LiveCall
<1>3. call[c].email \in Emails
  BY <1>1, <1>2 DEF Way
<1>4. CASE call[c].kind = "signUp" /\ Goto(c, "insert")
  BY <1>1, <1>4, GotoStep
<1>5. CASE Refuse(c)
  BY <1>1, <1>5, RefuseStep
<1>6. CASE /\ call[c].kind = "signIn" /\ account[call[c].email].exists
           /\ Load(c, call[c].email, "link")
  <2>1. call[c].email \in Vouched[call[c].sub]
    BY <1>1, <1>2, <1>6 DEF Knows, Logins
  <2>. QED
    BY <1>1, <1>3, <1>6, <2>1, LoadStep DEF Holds
<1>7. CASE /\ call[c].kind = "passwordSignIn" /\ account[call[c].email].exists
           /\ Load(c, call[c].email, "save")
  BY <1>1, <1>3, <1>7, LoadStep DEF Holds
<1>8. CASE /\ call[c].kind = "signOut" /\ call[c].token \in account[call[c].email].tokens
           /\ Load(c, call[c].email, "save")
  <2>1. account[call[c].email].exists
    BY <1>3, <1>8 DEF IInv, RowsOK, RowOK
  <2>. QED
    BY <1>1, <1>3, <1>8, <2>1, LoadStep DEF Holds
<1>. QED
  BY <1>4, <1>5, <1>6, <1>7, <1>8 DEF FindEmail
-----------------------------------------------------------------------------
\* The steps that write a row.

\* A token that must work is in the memory of whoever may write its row.
LEMMA OpenIsLoaded ==
  ASSUME IInv, NEW c \in Calls, call[c].pc \in Holds,
         NEW d \in Calls, call[d].works
  PROVE  /\ call[d].pc = "done" /\ call[d].email \in Emails
         /\ call[d].token \in account[call[d].email].tokens
         /\ call[c].email = call[d].email => call[d].token \in call[c].loaded
BY DEF IInv, WorksOK, Open

\* The link goes to the account whose address was vouched for with the sub.
LEMMA LinkStep == ASSUME IInv, NEW c \in Calls, Link(c) PROVE IInv'
<1>1. /\ call[c] \in CallRecs /\ Knows(call[c]) /\ Way(call[c]) /\ ~call[c].works
      /\ Pending(call[c]) <=> call[c].kind \in SignIns
  BY LiveCall DEF Link, At
<1>2. call[c].pc = "link" /\ call[c].kind = "signIn"
  BY <1>1 DEF Link, At, Way
<1>3. PICK e \in Emails, s \in Subs : e = call[c].email /\ s = call[c].sub
  BY <1>1, <1>2 DEF Way, Holds, Logins
<1>4. e \in Vouched[s] /\ account[e].exists /\ s # None
  BY <1>1, <1>2, <1>3, NoneAssumption DEF Knows, Holds, Logins
<1>5. CASE Refuse(c) /\ UNCHANGED account
  BY <1>5, RefuseStep
<1>6. CASE /\ LinkedTo(s) \subseteq {e} /\ account' = [account EXCEPT ![e].linked = s]
           /\ Goto(c, "save")
  <2>1. PICK k : k = [call[c] EXCEPT !.pc = "save"]
    OBVIOUS
  <2>2. /\ k \in CallRecs /\ k.kind = "signIn" /\ k.pc = "save" /\ k.sub = s
        /\ k.email = e /\ k.token = call[c].token /\ k.loaded = call[c].loaded
        /\ k.older = call[c].older /\ k.works = call[c].works
    BY <1>1, <1>2, <1>3, <2>1 DEF CallRecs
  <2>3. /\ call' \in [Calls -> CallRecs] /\ call'[c] = k
        /\ \A d \in Calls \ {c} : call'[d] = call[d]
    BY <1>6, <2>1, <2>2 DEF Goto, Become, IInv, TypeOK
  <2>4. \A d \in Calls \ {c} : Same(call[d], call'[d])
    BY <2>3 DEF Same
  <2>5. /\ account' \in [Emails -> Accounts]
        /\ \A f \in Emails : /\ account'[f].exists <=> account[f].exists
                             /\ account'[f].tokens = account[f].tokens
                             /\ account'[f].linked = IF f = e THEN s ELSE account[f].linked
    BY <1>6 DEF IInv, TypeOK, Accounts
  <2>6. account[e].linked # None => account[e].linked = s
    <3>1. account[e].linked \in Subs \cup {None}
      BY DEF IInv, TypeOK, Accounts
    <3>2. account[e].linked # None => e \in Vouched[account[e].linked]
      BY DEF IInv, RowsOK, RowOK
    <3>. QED
      BY <1>4, <3>1, <3>2, VouchedAssumption
  <2>7. Steady
    BY <2>5, <2>6 DEF Steady
  <2>8. RowsOK'
    <3>1. \A f \in Emails : account[f].linked = s => f = e
      BY <1>6 DEF LinkedTo
    <3>2. LinkUnique'
      BY <2>5, <3>1 DEF IInv, RowsOK, LinkUnique
    <3>3. ASSUME NEW f \in Emails PROVE RowOK(f)'
      BY <1>4, <2>5 DEF IInv, RowsOK, RowOK
    <3>. QED
      BY <3>2, <3>3 DEF RowsOK
  <2>9. Knows(k)'
    <3>1. Way(k)
      BY <1>3, <2>2, <1>1, <1>2 DEF Way, SignIns, Logins, Holds
    <3>2. account'[k.email].linked = k.sub /\ account'[k.email].exists
      BY <1>4, <2>2, <2>5
    <3>3. k.kind \in Logins /\ k.pc \in {"findLinked", "findEmail", "link", "insert"} =>
            k.email \in Vouched[k.sub]
      BY <2>2
    <3>. QED
      BY <3>1, <3>2, <3>3 DEF Knows
  <2>10. \A t \in k.loaded : k.email \in Emails /\ Has(t, k.email)
    BY <1>3, <2>2 DEF Has
  <2>11. \A d \in Calls \ {c} : call'[d].works =>
            /\ call[d].token \in account'[call[d].email].tokens
            /\ k.email = call[d].email /\ k.pc \in Holds => call[d].token \in k.loaded
    BY <1>2, <1>3, <2>2, <2>3, <2>5, OpenIsLoaded DEF Holds
  <2>12. Pending(k) => Pending(call[c])
    BY <1>1, <1>2 DEF SignIns
  <2>13. Revokes(k)'
    BY <2>2 DEF Revokes
  <2>14. \A f \in Emails : \A t \in account'[f].tokens : Has(t, f)
    BY <2>5 DEF Has
  <2>. QED
    BY <1>1, <2>2, <2>3, <2>4, <2>5, <2>7, <2>8, <2>9, <2>10, <2>11, <2>12, <2>13, <2>14, Step
<1>. QED
  BY <1>3, <1>5, <1>6 DEF Link

\* A new row has no tokens, and a sub no other row has.
LEMMA InsertStep == ASSUME IInv, NEW c \in Calls, Insert(c) PROVE IInv'
<1>1. /\ call[c] \in CallRecs /\ Knows(call[c]) /\ Way(call[c]) /\ ~call[c].works
      /\ Pending(call[c]) <=> call[c].kind \in SignIns
  BY LiveCall DEF Insert, At
<1>2. call[c].pc = "insert" /\ call[c].kind \in {"signUp", "passwordSignUp"}
  BY <1>1 DEF Insert, At, Way
<1>3. PICK e \in Emails, s \in Subs \cup {None} : e = call[c].email /\ s = call[c].sub
  BY <1>1, <1>2 DEF Way, SignIns, CallRecs
<1>4. /\ s # None => e \in Vouched[s]
      /\ call[c].kind \in Logins => s # None
  <2>1. CASE call[c].kind = "signUp"
    BY <1>1, <1>2, <1>3, <2>1, NoneAssumption DEF Knows, Way, Logins
  <2>2. CASE call[c].kind = "passwordSignUp"
    BY <1>1, <1>3, <2>2 DEF Way, Logins
  <2>. QED
    BY <1>2, <2>1, <2>2
<1>5. CASE Refuse(c) /\ UNCHANGED account
  BY <1>5, RefuseStep
<1>6. CASE /\ ~account[e].exists /\ (s # None => LinkedTo(s) = {})
           /\ account' = [account EXCEPT ![e] = [exists |-> TRUE, linked |-> s, tokens |-> {}]]
           /\ Goto(c, "save")
  <2>1. PICK k : k = [call[c] EXCEPT !.pc = "save"]
    OBVIOUS
  <2>2. /\ k \in CallRecs /\ k.kind = call[c].kind /\ k.pc = "save" /\ k.sub = s
        /\ k.email = e /\ k.token = call[c].token /\ k.loaded = call[c].loaded
        /\ k.older = call[c].older /\ k.works = call[c].works
    BY <1>1, <1>2, <1>3, <2>1 DEF CallRecs
  <2>3. /\ call' \in [Calls -> CallRecs] /\ call'[c] = k
        /\ \A d \in Calls \ {c} : call'[d] = call[d]
    BY <1>6, <2>1, <2>2 DEF Goto, Become, IInv, TypeOK
  <2>4. \A d \in Calls \ {c} : Same(call[d], call'[d])
    BY <2>3 DEF Same
  <2>5. /\ account' \in [Emails -> Accounts]
        /\ \A f \in Emails \ {e} : account'[f] = account[f]
        /\ account'[e].exists /\ account'[e].linked = s /\ account'[e].tokens = {}
    BY <1>6 DEF IInv, TypeOK, Accounts
  <2>6. account[e].linked = None /\ account[e].tokens = {}
    BY <1>6 DEF IInv, RowsOK, RowOK
  <2>7. Steady
    BY <2>5, <2>6 DEF Steady
  <2>8. RowsOK'
    <3>1. \A f \in Emails : account[f].linked = s => s = None
      BY <1>6 DEF LinkedTo
    <3>2. LinkUnique'
      BY <2>5, <3>1 DEF IInv, RowsOK, LinkUnique
    <3>3. ASSUME NEW f \in Emails PROVE RowOK(f)'
      BY <1>4, <2>5 DEF IInv, RowsOK, RowOK
    <3>. QED
      BY <3>2, <3>3 DEF RowsOK
  <2>9. Knows(k)'
    <3>1. Way(k)
      BY <1>1, <1>2, <1>3, <2>2 DEF Way, SignIns, Logins, Holds
    <3>2. account'[k.email].linked = k.sub /\ account'[k.email].exists
      BY <2>2, <2>5
    <3>3. k.kind \in Logins /\ k.pc \in {"findLinked", "findEmail", "link", "insert"} =>
            k.email \in Vouched[k.sub]
      BY <2>2
    <3>. QED
      BY <3>1, <3>2, <3>3 DEF Knows
  <2>10. k.loaded = {}
    BY <1>1, <1>2, <2>2 DEF Way, Holds
  <2>11. \A d \in Calls : call[d].works =>
            call[d].email # e /\ call[d].email \in Emails
            /\ call[d].token \in account[call[d].email].tokens
    BY <2>6 DEF IInv, WorksOK, Open
  <2>12. Pending(call[c])
    BY <1>1, <1>2 DEF SignIns
  <2>13. Revokes(k)'
    BY <1>2, <2>2 DEF Revokes
  <2>14. \A f \in Emails : \A t \in account'[f].tokens : Has(t, f)
    BY <2>5 DEF Has
  <2>. QED
    BY <1>1, <2>2, <2>3, <2>4, <2>5, <2>7, <2>8, <2>9, <2>10, <2>11, <2>12, <2>13, <2>14, Step
<1>. QED
  BY <1>3, <1>5, <1>6 DEF Insert

\* Writing the tokens of an account that exists.
LEMMA TokensWritten ==
  ASSUME IInv, NEW e \in Emails, account[e].exists, NEW T \in SUBSET Tokens,
         account' = [account EXCEPT ![e].tokens = T]
  PROVE  /\ account' \in [Emails -> Accounts] /\ Steady /\ RowsOK'
         /\ \A f \in Emails : /\ account'[f].linked = account[f].linked
                              /\ account'[f].exists <=> account[f].exists
                              /\ account'[f].tokens = IF f = e THEN T ELSE account[f].tokens
<1>1. /\ account' \in [Emails -> Accounts]
      /\ \A f \in Emails : /\ account'[f].linked = account[f].linked
                           /\ account'[f].exists <=> account[f].exists
                           /\ account'[f].tokens = IF f = e THEN T ELSE account[f].tokens
  BY DEF IInv, TypeOK, Accounts
<1>2. Steady
  BY <1>1 DEF Steady
<1>3. RowsOK'
  BY <1>1 DEF IInv, RowsOK, LinkUnique, RowOK
<1>. QED
  BY <1>1, <1>2, <1>3

\* What create_token keeps is the newest token and some of the others.
LEMMA KeptIsSome ==
  ASSUME NEW T, NEW t \in T, NEW S \in Kept(T, t) PROVE S \subseteq T /\ t \in S
BY DEF Kept

\* Request c becomes k, having written T to the row of e; nobody else moves, and
\* whoever is evicted need not work any longer.
Issues(c, k, e, T) ==
  /\ call[c].pc = "save" /\ call[c].kind \in SignIns /\ e = call[c].email
  /\ T \subseteq call[c].loaded \cup {call[c].token} /\ call[c].token \in T
  /\ account' = [account EXCEPT ![e].tokens = T]
  /\ call' \in [Calls -> CallRecs] /\ call'[c] = k
  /\ \A d \in Calls \ {c} :
       /\ Same(call[d], call'[d])
       /\ call'[d].works => call[d].works /\ call[d].token \notin call[c].loaded \ T
  /\ k.kind = call[c].kind /\ k.pc = "done" /\ k.sub = call[c].sub /\ k.email = e
  /\ k.token = call[c].token /\ k.loaded = {} /\ k.older = call[c].older
  /\ k.works => Holding(e) = {c}

\* The column is written with what was loaded and the new token, but for what is
\* evicted: nobody who must stay in was left out of what was loaded.
LEMMA SaveSignIn ==
  ASSUME IInv, NEW c \in Calls, NEW k \in CallRecs, NEW e \in Emails, NEW T \in SUBSET Tokens,
         Issues(c, k, e, T)
  PROVE  IInv'
<1>. USE DEF Issues
<1>1. /\ call[c] \in CallRecs /\ Knows(call[c]) /\ Way(call[c]) /\ Pending(call[c])
  BY LiveCall
<1>2. call' \in [Calls -> CallRecs] /\ call'[c] = k
  OBVIOUS
<1>3. \A d \in Calls \ {c} :
         /\ Same(call[d], call'[d])
         /\ call'[d].works => call[d].works /\ call[d].token \notin call[c].loaded \ T
  OBVIOUS
<1>4. account[e].exists
  BY <1>1 DEF Knows, Holds
<1>5. /\ account' \in [Emails -> Accounts] /\ Steady /\ RowsOK'
      /\ \A f \in Emails : /\ account'[f].linked = account[f].linked
                           /\ account'[f].tokens = IF f = e THEN T ELSE account[f].tokens
  <2>1. /\ account' \in [Emails -> Accounts] /\ Steady /\ RowsOK'
        /\ \A f \in Emails : /\ account'[f].linked = account[f].linked
                             /\ account'[f].exists <=> account[f].exists
                             /\ account'[f].tokens = IF f = e THEN T ELSE account[f].tokens
    <3>1. T \in SUBSET Tokens
      OBVIOUS
    <3>2. account' = [account EXCEPT ![e].tokens = T]
      OBVIOUS
    <3>3. IInv /\ e \in Emails
      OBVIOUS
    <3>. QED
      BY ONLY <1>4, <3>1, <3>2, <3>3, TokensWritten
  <2>. QED
    BY <2>1
<1>6. Knows(k)'
  <2>1. k.kind \in Logins => account'[e].linked = k.sub
    BY <1>1, <1>5 DEF Knows
  <2>. QED
    BY <1>1, <2>1 DEF Knows, Way, Holds
<1>7. ASSUME NEW f \in Emails, NEW t \in account'[f].tokens
       PROVE  \/ Has(t, f)
              \/ f = call[c].email /\ t = call[c].token /\ Pending(call[c]) /\ k.pc = "done"
  <2>1. t \in call[c].loaded \/ t = call[c].token \/ t \in account[f].tokens
    BY <1>5
  <2>2. f # e => t \in account[f].tokens
    BY <1>5
  <2>. QED
    BY <1>1, <2>1, <2>2 DEF Has
<1>8. ASSUME NEW d \in Calls \ {c}, call'[d].works
       PROVE  call[d].token \in account'[call[d].email].tokens
  BY <1>3, <1>5, <1>8, OpenIsLoaded DEF Holds
<1>9. ASSUME k.works PROVE Open(k)'
  <2>1. k.token \in account'[k.email].tokens
    BY <1>5
  <2>2. ASSUME NEW d \in Calls, call'[d].email = e, call'[d].pc \in Holds PROVE FALSE
    <3>1. d # c
      BY <1>2, <2>2 DEF Holds
    <3>2. d \in Holding(e)
      BY <1>3, <2>2, <3>1 DEF Same, Holding, Holds
    <3>. QED
      BY <1>9, <3>1, <3>2
  <2>. QED
    BY <2>1, <2>2 DEF Open
<1>10. ~Pending(k) /\ Revokes(k)'
  BY DEF Pending, Revokes, SignIns
<1>11. \A t \in k.loaded : k.email \in Emails /\ Has(t, k.email)
  OBVIOUS
<1>12. k.pc \notin Holds
  BY DEF Holds
<1>13. IInv /\ c \in Calls /\ k \in CallRecs /\ k.older = call[c].older
  OBVIOUS
<1>. QED
  BY ONLY <1>2, <1>3, <1>5, <1>6, <1>7, <1>8, <1>9, <1>10, <1>11, <1>12, <1>13, Step

\* A sign-out writes what was loaded without its own token.
LEMMA SaveSignOut ==
  ASSUME IInv, NEW c \in Calls, call[c].pc = "save", call[c].kind = "signOut",
         NEW e \in Emails, e = call[c].email,
         account' = [account EXCEPT ![e].tokens = call[c].loaded \ {call[c].token}],
         call' = [d \in Calls |-> IF d = c THEN Idle
                                  ELSE [call[d] EXCEPT !.works = @ /\ call[d].token # call[c].token]]
  PROVE  IInv'
<1>1. /\ call[c] \in CallRecs /\ Knows(call[c]) /\ Way(call[c])
  BY LiveCall
<1>2. call'[c] = Idle
  OBVIOUS
<1>3. ASSUME NEW d \in Calls \ {c}
      PROVE  /\ call'[d] \in CallRecs /\ Same(call[d], call'[d])
             /\ call'[d].works => call[d].works /\ call[d].token # call[c].token
  <2>1. PICK w \in BOOLEAN : w = (call[d].works /\ call[d].token # call[c].token)
    OBVIOUS
  <2>2. call'[d] = [call[d] EXCEPT !.works = w] /\ call[d] \in CallRecs
    BY <1>3, <2>1 DEF IInv, TypeOK
  <2>. QED
    BY <2>1, <2>2 DEF CallRecs, Same
<1>4. call' \in [Calls -> CallRecs]
  BY <1>2, <1>3, IdleIsNothing
<1>5. PICK T \in SUBSET Tokens : T = call[c].loaded \ {call[c].token}
  BY <1>1 DEF CallRecs
<1>6. account[e].exists
  BY <1>1 DEF Knows, Holds
<1>7. /\ account' \in [Emails -> Accounts] /\ Steady /\ RowsOK'
      /\ \A f \in Emails : account'[f].tokens = IF f = e THEN T ELSE account[f].tokens
  <2>1. account' = [account EXCEPT ![e].tokens = T]
    BY <1>5
  <2>2. /\ account' \in [Emails -> Accounts] /\ Steady /\ RowsOK'
        /\ \A f \in Emails : /\ account'[f].linked = account[f].linked
                             /\ account'[f].exists <=> account[f].exists
                             /\ account'[f].tokens = IF f = e THEN T ELSE account[f].tokens
    BY <1>6, <2>1, TokensWritten, Zenon
  <2>. QED
    BY <2>2
<1>8. Knows(Idle)'
  BY <1>7, IdleIsNothing, KnowsStays
<1>9. \A f \in Emails : \A t \in account'[f].tokens : Has(t, f)
  BY <1>5, <1>7 DEF Has
<1>10. ASSUME NEW d \in Calls \ {c}, call'[d].works
       PROVE  call[d].token \in account'[call[d].email].tokens
  BY <1>3, <1>5, <1>7, <1>10, OpenIsLoaded DEF Holds
<1>11. Revokes(Idle)'
  BY IdleIsNothing DEF Revokes, None
<1>. QED
  BY <1>2, <1>3, <1>4, <1>7, <1>8, <1>9, <1>10, <1>11, IdleIsNothing, Step DEF Holds

LEMMA SaveStep == ASSUME IInv, NEW c \in Calls, Save(c) PROVE IInv'
<1>1. call[c].pc = "save"
  BY DEF Save, At
<1>2. PICK e \in Emails : e = call[c].email
  BY <1>1, LiveCall DEF Way, Holds
<1>. DEFINE more == call[c].loaded \cup {call[c].token}
<1>3. ASSUME call[c].kind \in SignIns, NEW T \in Kept(more, call[c].token),
             account' = [account EXCEPT ![e].tokens = T],
             call' = [d \in Calls |->
               IF d = c THEN [call[c] EXCEPT !.pc = "done", !.loaded = {},
                                             !.works = Holding(e) = {c}]
               ELSE [call[d] EXCEPT !.works = @ /\ call[d].token \notin more \ T]]
      PROVE  IInv'
  <2>1. PICK w \in BOOLEAN : w = (Holding(e) = {c})
    OBVIOUS
  <2>2. PICK k : k = [call[c] EXCEPT !.pc = "done", !.loaded = {}, !.works = w]
    OBVIOUS
  <2>3. call[c] \in CallRecs /\ call[c].token \in Tokens
    BY <1>1, <1>3, LiveCall DEF Way
  <2>4. /\ k \in CallRecs /\ k.kind = call[c].kind /\ k.pc = "done" /\ k.sub = call[c].sub
        /\ k.email = e /\ k.token = call[c].token /\ k.loaded = {}
        /\ k.older = call[c].older /\ k.works = w
    BY <1>2, <2>2, <2>3 DEF CallRecs
  <2>5. call'[c] = k
    BY <1>3, <2>1, <2>2
  <2>9. ASSUME NEW d \in Calls \ {c}
        PROVE  /\ call'[d] \in CallRecs /\ Same(call[d], call'[d])
               /\ call'[d].works => call[d].works /\ call[d].token \notin more \ T
    <3>1. PICK v \in BOOLEAN : v = (call[d].works /\ call[d].token \notin more \ T)
      OBVIOUS
    <3>2. call'[d] = [call[d] EXCEPT !.works = v] /\ call[d] \in CallRecs
      BY <1>3, <2>9, <3>1 DEF IInv, TypeOK
    <3>. QED
      BY <3>1, <3>2 DEF CallRecs, Same
  <2>10. call' \in [Calls -> CallRecs]
    <3>1. call' = [d \in Calls |-> call'[d]]
      BY <1>3
    <3>. QED
      BY <2>4, <2>5, <2>9, <3>1
  <2>6. T \subseteq more /\ call[c].token \in T
    BY <1>3, KeptIsSome
  <2>7. T \in SUBSET Tokens
    BY <2>3, <2>6 DEF CallRecs
  <2>8. k.works => Holding(e) = {c}
    BY <2>1, <2>4
  <2>. QED
    <3>1. \A d \in Calls \ {c} :
             /\ Same(call[d], call'[d])
             /\ call'[d].works => call[d].works /\ call[d].token \notin call[c].loaded \ T
      BY <2>9
    <3>2. Issues(c, k, e, T)
      BY <1>1, <1>2, <1>3, <2>4, <2>5, <2>6, <2>8, <2>10, <3>1 DEF Issues
    <3>3. IInv /\ c \in Calls /\ k \in CallRecs /\ e \in Emails /\ T \in SUBSET Tokens
      BY <2>4, <2>7
    <3>. QED
      BY ONLY <3>2, <3>3, SaveSignIn
<1>4. CASE call[c].kind = "signOut"
  <2>1. call[c].kind \notin SignIns
    BY <1>4 DEF SignIns
  <2>. QED
    BY <1>1, <1>2, <1>4, <2>1, SaveSignOut DEF Save
<1>5. CASE call[c].kind \in SignIns
  <2>1. call[c].kind # "signOut"
    BY <1>5 DEF SignIns
  <2>2. PICK T \in Kept(more, call[c].token) :
          /\ account' = [account EXCEPT ![call[c].email].tokens = T]
          /\ call' = [d \in Calls |->
               IF d = c THEN [call[c] EXCEPT !.pc = "done", !.loaded = {},
                                             !.works = Holding(call[c].email) = {c}]
               ELSE [call[d] EXCEPT !.works = @ /\ call[d].token \notin more \ T]]
    BY <2>1, Zenon DEF Save
  <2>. QED
    BY <1>2, <1>3, <1>5, <2>2, Zenon
<1>. QED
  BY <1>4, <1>5 DEF Save

\* The column is emptied: what the notification was about is now at most in the
\* memory of others.
LEMMA ClearStep == ASSUME IInv, NEW c \in Calls, Clear(c) PROVE IInv'
<1>1. /\ call[c] \in CallRecs /\ Knows(call[c]) /\ Way(call[c]) /\ Revokes(call[c])
      /\ ~call[c].works
  BY LiveCall DEF Clear, At
<1>2. call[c].pc = "clear" /\ call[c].kind = "revoke"
  BY <1>1 DEF Clear, At, Way
<1>3. PICK e \in Emails : e = call[c].email
  BY <1>1, <1>2 DEF Way, Holds
<1>4. account[e].linked = call[c].sub /\ account[e].exists /\ call[c].sub # None
  BY <1>1, <1>2, <1>3, NoneAssumption DEF Knows, Way, Holds
<1>5. PICK x : x = Stale(c, e)
  OBVIOUS
<1>6. x \subseteq Tokens
  <2>1. \A d \in Calls : call[d].loaded \subseteq Tokens
    BY DEF IInv, TypeOK, CallRecs
  <2>. QED
    BY <1>5, <2>1 DEF Stale, Holding
<1>7. PICK k : k = [call[c] EXCEPT !.pc = "done", !.loaded = {}, !.exposed = x]
  OBVIOUS
<1>8. /\ k \in CallRecs /\ k.kind = "revoke" /\ k.pc = "done" /\ k.sub = call[c].sub
      /\ k.email = e /\ k.loaded = {} /\ k.older = call[c].older /\ k.exposed = x
      /\ ~k.works
  BY <1>1, <1>2, <1>3, <1>6, <1>7 DEF CallRecs
<1>9. /\ call'[c] = k
      /\ \A d \in Calls \ {c} :
           call'[d] = [call[d] EXCEPT !.works = call[d].works /\ call[d].email # e]
  BY <1>3, <1>5, <1>7 DEF Clear
<1>10. ASSUME NEW d \in Calls \ {c}
       PROVE  /\ call'[d] \in CallRecs /\ Same(call[d], call'[d])
              /\ call'[d].works => call[d].works /\ call[d].email # e
  <2>1. PICK w \in BOOLEAN : w = (call[d].works /\ call[d].email # e)
    OBVIOUS
  <2>2. call'[d] = [call[d] EXCEPT !.works = w] /\ call[d] \in CallRecs
    BY <1>9, <2>1 DEF IInv, TypeOK
  <2>. QED
    BY <2>1, <2>2 DEF CallRecs, Same
<1>11. call' \in [Calls -> CallRecs]
  <2>1. call' = [d \in Calls |-> call'[d]]
    BY DEF Clear
  <2>. QED
    BY <1>8, <1>9, <1>10, <2>1
<1>12. /\ account' \in [Emails -> Accounts] /\ Steady /\ RowsOK'
       /\ \A f \in Emails : /\ account'[f].linked = account[f].linked
                            /\ account'[f].tokens = IF f = e THEN {} ELSE account[f].tokens
  <2>1. PICK T \in SUBSET Tokens : T = {}
    OBVIOUS
  <2>2. account' = [account EXCEPT ![e].tokens = T]
    BY <1>3, <2>1 DEF Clear
  <2>. QED
    BY <1>4, <2>1, <2>2, TokensWritten
<1>13. Knows(k)'
  <2>1. k.sub \in Subs
    BY <1>1, <1>2, <1>8 DEF Way
  <2>2. Way(k)
    BY <1>8, <2>1 DEF Way, SignIns, Logins, Holds
  <2>. QED
    BY <1>8, <2>2 DEF Knows, Logins, Holds
<1>14. \A f \in Emails : \A t \in account'[f].tokens : Has(t, f)
  BY <1>12 DEF Has
<1>15. ASSUME NEW t \in k.older, NEW f \in Emails, Has(t, f)' PROVE t \in x
  <2>1. CASE t \in account'[f].tokens
    <3>1. f # e /\ Has(t, f)
      BY <1>12, <1>14, <2>1
    <3>2. account[f].linked = call[c].sub
      BY <1>1, <1>2, <1>8, <3>1 DEF Revokes
    <3>. QED
      BY <1>4, <3>1, <3>2 DEF IInv, RowsOK, LinkUnique
  <2>2. ASSUME NEW d \in Calls, call'[d].email = f, t \in call'[d].loaded PROVE t \in x
    <3>1. d # c
      BY <1>8, <1>9, <2>2
    <3>2. call[d].email = f /\ t \in call[d].loaded
      BY <1>10, <2>2, <3>1 DEF Same
    <3>3. account[f].linked = call[c].sub
      BY <1>1, <1>2, <1>8, <3>2 DEF Revokes, Has
    <3>4. f = e
      BY <1>4, <3>3 DEF IInv, RowsOK, LinkUnique
    <3>5. call[d].pc \in Holds
      BY <3>2 DEF IInv, CallsKnow, Knows, Way
    <3>. QED
      BY <1>5, <3>1, <3>2, <3>4, <3>5 DEF Stale, Holding, Holds
  <2>. QED
    BY <1>15, <2>1, <2>2 DEF Has
<1>16. Revokes(k)'
  BY <1>8, <1>15 DEF Revokes
<1>17. ASSUME NEW d \in Calls \ {c}, call'[d].works
       PROVE  call[d].token \in account'[call[d].email].tokens
  BY <1>2, <1>10, <1>12, <1>17, OpenIsLoaded DEF Holds
<1>18. ~Pending(k)
  BY <1>8 DEF Pending
<1>. QED
  BY <1>8, <1>9, <1>10, <1>11, <1>12, <1>13, <1>14, <1>16, <1>17, <1>18, Step DEF Holds
-----------------------------------------------------------------------------
\* A token that expires is gone from every row and every memory, and whoever must
\* work has another one.
LEMMA ExpireStep == ASSUME IInv, NEW t \in Tokens, Expire(t) PROVE IInv'
<1>0. /\ TypeOK /\ RowsOK /\ CallsKnow /\ OneHome /\ PendingFresh /\ AllRevoke /\ WorksOK
      /\ account \in [Emails -> Accounts] /\ call \in [Calls -> CallRecs]
  BY DEF IInv, TypeOK
<1>1. ASSUME NEW e \in Emails
      PROVE  /\ account'[e] \in Accounts
             /\ account'[e].exists = account[e].exists
             /\ account'[e].linked = account[e].linked
             /\ account'[e].tokens = account[e].tokens \ {t}
  BY <1>0 DEF Expire, Accounts
<1>2. ASSUME NEW c \in Calls, NEW a, a = call[c], NEW b, b = call'[c]
      PROVE  /\ a \in CallRecs /\ b \in CallRecs
             /\ b.kind = a.kind /\ b.pc = a.pc /\ b.sub = a.sub /\ b.email = a.email
             /\ b.token = a.token /\ b.loaded = a.loaded \ {t} /\ b.older = a.older
             /\ b.exposed = a.exposed /\ (b.works => a.works /\ a.token # t)
  <2>1. PICK w \in BOOLEAN : w = (call[c].works /\ call[c].token # t)
    OBVIOUS
  <2>2. PICK l : l = call[c].loaded \ {t}
    OBVIOUS
  <2>3. b = [a EXCEPT !.loaded = l, !.works = w] /\ a \in CallRecs
    BY <1>0, <1>2, <2>1, <2>2 DEF Expire
  <2>4. l \subseteq Tokens
    BY <1>2, <2>2, <2>3 DEF CallRecs
  <2>. QED
    <3>1. /\ a \in CallRecs
          /\ b.kind = a.kind /\ b.pc = a.pc /\ b.sub = a.sub /\ b.email = a.email
          /\ b.token = a.token /\ b.loaded = l /\ b.older = a.older
          /\ b.exposed = a.exposed /\ b.works = w
      BY <2>3 DEF CallRecs
    <3>2. b \in CallRecs
      BY <2>3, <2>4 DEF CallRecs
    <3>. QED
      BY <1>2, <2>1, <2>2, <3>1, <3>2
<1>3. account' \in [Emails -> Accounts] /\ call' \in [Calls -> CallRecs]
  <2>1. account' = [e \in Emails |-> account'[e]] /\ call' = [c \in Calls |-> call'[c]]
    BY DEF Expire
  <2>. QED
    BY <1>1, <1>2, <2>1
<1>4. RowsOK'
  BY <1>0, <1>1 DEF RowsOK, LinkUnique, RowOK
<1>5. ASSUME NEW u, NEW e \in Emails, Has(u, e)' PROVE Has(u, e)
  BY <1>1, <1>2, <1>5 DEF Has
<1>6. CallsKnow'
  <2>1. ASSUME NEW c \in Calls PROVE Knows(call[c])'
    <3>1. PICK a, b : a = call[c] /\ b = call'[c]
      OBVIOUS
    <3>2. /\ b.kind = a.kind /\ b.pc = a.pc /\ b.sub = a.sub /\ b.email = a.email
          /\ b.token = a.token /\ (b.loaded # {} => a.loaded # {})
      BY <1>2, <3>1
    <3>3. Knows(a) /\ Way(a) /\ a.sub = b.sub
      BY <1>0, <3>1, <3>2 DEF CallsKnow, Knows
    <3>4. Knows(b)
      BY <3>2, <3>3 DEF Knows, Way
    <3>5. Steady
      BY <1>1 DEF Steady
    <3>6. b \in CallRecs
      BY <1>2, <3>1
    <3>7. Knows(b)'
      BY ONLY <3>4, <3>5, <3>6, KnowsStays
    <3>. QED
      BY <3>1, <3>7
  <2>. QED
    BY <2>1 DEF CallsKnow
<1>7. OneHome'
  BY <1>0, <1>5 DEF OneHome
<1>8. PendingFresh'
  <2>1. \A c \in Calls : /\ Pending(call'[c]) <=> Pending(call[c])
                         /\ call'[c].token = call[c].token
                         /\ call'[c].older = call[c].older
    BY <1>2 DEF Pending
  <2>2. ASSUME NEW u, Fresh(u) PROVE Fresh(u)'
    BY <1>5, <2>1, <2>2 DEF Fresh
  <2>. QED
    BY <1>0, <2>1, <2>2 DEF PendingFresh
<1>9. AllRevoke'
  <2>1. ASSUME NEW c \in Calls PROVE Revokes(call[c])'
    BY <1>0, <1>1, <1>2, <1>5 DEF AllRevoke, Revokes
  <2>. QED
    BY <2>1 DEF AllRevoke
<1>10. WorksOK'
  <2>1. ASSUME NEW c \in Calls, call'[c].works PROVE Open(call[c])'
    <3>1. call[c].works /\ Open(call[c]) /\ call[c].token # t
      BY <1>0, <1>2, <2>1 DEF WorksOK
    <3>2. /\ call'[c].pc = "done" /\ call'[c].email \in Emails
          /\ call'[c].email = call[c].email /\ call'[c].token = call[c].token
      BY <1>2, <3>1 DEF Open
    <3>3. call'[c].token \in account'[call'[c].email].tokens
      BY <1>1, <3>1, <3>2 DEF Open
    <3>4. ASSUME NEW d \in Calls, call'[d].email = call'[c].email, call'[d].pc \in Holds
          PROVE  call'[c].token \in call'[d].loaded
      BY <1>2, <3>1, <3>2, <3>4 DEF Open
    <3>. QED
      BY <3>2, <3>3, <3>4 DEF Open
  <2>. QED
    BY <2>1 DEF WorksOK
<1>. QED
  BY <1>3, <1>4, <1>6, <1>7, <1>8, <1>9, <1>10 DEF IInv, TypeOK
-----------------------------------------------------------------------------
LEMMA NextIInv == IInv /\ [Next]_vars => IInv'
<1>. SUFFICES ASSUME IInv, [Next]_vars PROVE IInv'
  OBVIOUS
<1>1. CASE UNCHANGED vars
  BY <1>1 DEF vars, IInv, TypeOK, RowsOK, LinkUnique, RowOK, CallsKnow, Knows, OneHome, Has,
     PendingFresh, Fresh, AllRevoke, Revokes, WorksOK, Open
<1>. QED
  BY <1>1, ArriveStep, FindLinkedStep, FindEmailStep, LinkStep, InsertStep, SaveStep, ClearStep,
     FailStep, ExpireStep DEF Next

LEMMA Inductive == Spec => []IInv
BY InitIInv, NextIInv, PTL DEF Spec

\* Accounts and requests have their types.
THEOREM TypeCorrect == Spec => []TypeOK
BY Inductive, PTL DEF IInv

\* A login is one account for good, whichever way and with whichever of its
\* addresses it got in.
THEOREM OneLoginOneAccount == Spec => []OneAccountPerLogin
<1>1. IInv => OneAccountPerLogin
  <2>. SUFFICES ASSUME IInv, NEW c \in Calls, NEW d \in Calls,
                       Ended(c, {"signIn", "signUp"}), Ended(d, {"signIn", "signUp"}),
                       call[c].sub = call[d].sub
                PROVE  call[c].email = call[d].email
    BY DEF OneAccountPerLogin
  <2>1. /\ Knows(call[c]) /\ Way(call[c]) /\ Knows(call[d]) /\ Way(call[d])
        /\ call[c].pc = "done" /\ call[c].kind \in Logins
        /\ call[d].pc = "done" /\ call[d].kind \in Logins
    BY DEF IInv, CallsKnow, Knows, Ended, At, Logins
  <2>2. /\ call[c].email \in Emails /\ call[d].email \in Emails /\ call[c].sub # None
    BY <2>1, NoneAssumption DEF Way, Logins, SignIns
  <2>3. /\ account[call[c].email].linked = call[c].sub
        /\ account[call[d].email].linked = call[d].sub
    BY <2>1 DEF Knows
  <2>. QED
    BY <2>2, <2>3 DEF IInv, RowsOK, LinkUnique
<1>. QED
  BY <1>1, Inductive, PTL

\* However requests interleave and whatever MaxDevices is, a session that must
\* work is in the row: a sign-in that runs over no other request of the account
\* signs out at most those it evicts.
THEOREM DevicesStayIn == Spec => []OtherDevicesStayIn
<1>1. IInv => OtherDevicesStayIn
  BY DEF IInv, WorksOK, Open, OtherDevicesStayIn
<1>. QED
  BY <1>1, Inductive, PTL

\* A token a notification was about, and no other request had in memory when the
\* column was cleared, never works again.
THEOREM RevokedStaysDead == Spec => []RevokedTokenIsDead
<1>1. IInv => RevokedTokenIsDead
  <2>. SUFFICES ASSUME IInv, NEW c \in Calls, Ended(c, {"revoke"}),
                       NEW t \in call[c].older, t \in LiveTokens
                PROVE  t \in call[c].exposed
    BY DEF RevokedTokenIsDead
  <2>1. PICK e \in Emails : Has(t, e)
    BY DEF LiveTokens, Has
  <2>. QED
    BY <2>1 DEF IInv, AllRevoke, Revokes, Ended, At
<1>. QED
  BY <1>1, Inductive, PTL
=============================================================================
