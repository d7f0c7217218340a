---------------------------- MODULE FinanSuProofs ----------------------------
(***************************************************************************)
(* Proofs about FinanSu, for any users, addresses, subs, tokens and number *)
(* of requests at once.                                                    *)
(***************************************************************************)
EXTENDS FinanSu, TLAPS

\* No two sessions have the same token.
TokensDiffer == \A x, y \in session : x.token = y.token => x = y

\* Whoever a mail_auth row names has a first one; whoever is linked exists.
OwnersHaveAuth == \A e \in Emails : owner[e] # None => user[owner[e]].auth # None
LinkedExist == \A u \in Users : user[u].linked # None => user[u].exists
\* The sub is unique among the users.
LinkUnique  == \A u, v \in Users :
                 user[u].linked # None /\ user[u].linked = user[v].linked => u = v
UsersOK == OwnersHaveAuth /\ LinkedExist /\ LinkUnique /\ LinkedHasAuth

\* Which kinds of request reach which statement.
Way(k) == /\ k.pc = "insertAuth" => k.kind = "mailSignUp"
          /\ k.pc = "findAuth"   => k.kind = "mailSignIn"
          /\ k.pc = "findLinked" => k.kind \in {"signIn", "signUp", "revoke"}
          /\ k.pc = "findEmail"  => k.kind \in {"signIn", "signUp"}
          /\ k.pc \in {"link", "findUser", "findAuthOf"} => k.kind = "signIn"
          /\ k.pc = "register"   => k.kind = "signUp"
          /\ k.pc = "create"     => k.kind # "revoke"

Done(k) == k.pc = "done" /\ k.res = "ok"

\* What a request carries or has found out by now.
Carries(k) ==
  /\ k.kind \in {"signIn", "signUp", "revoke"} /\ (k.pc \notin {"idle", "done"} \/ Done(k))
     => k.sub \in Subs
  /\ k.pc \in {"insertAuth", "link", "findUser", "findAuthOf", "destroy", "create"}
     => k.user \in Users
  /\ k.kind # "revoke" /\ Done(k) => k.user \in Users
  /\ k.pc \in {"insertAuth", "findAuth", "findEmail", "register", "create"} => k.email \in Emails
  /\ k.kind # "revoke" /\ k.pc \in {"findLinked", "destroy"} => k.email \in Emails

\* What a request knows of the user it has found, linked or created ...
UserKnown(k) ==
  /\ k.pc = "link" => user[k.user].auth # None
  /\ /\ k.kind \in {"signIn", "signUp"}
     /\ k.pc \in {"findUser", "findAuthOf", "destroy", "create"} \/ Done(k)
     => user[k.user].linked = k.sub
  /\ k.kind = "revoke" /\ k.pc = "destroy" => user[k.user].linked = k.sub

\* ... and of the token that was valid when it arrived.
TokensKnown(k) ==
  /\ k.kind # "revoke" /\ (k.pc = "create" \/ Done(k)) =>
       \A x \in session : x.user = k.user => x.token # k.older
  /\ k.kind = "revoke" /\ k.pc \in {"findLinked", "destroy"} =>
       \A x \in session : x.token = k.older => user[x.user].linked = k.sub
  /\ k.kind = "revoke" /\ k.pc = "findLinked" => (k.older # None => LinkedTo(k.sub) # {})
  /\ k.kind = "revoke" /\ Done(k) => k.older \notin Tokens(session)

Knows(k)  == Way(k) /\ Carries(k) /\ UserKnown(k) /\ TokensKnown(k)
CallsKnow == \A c \in Calls : Knows(call[c])

IInv == TypeOK /\ TokensDiffer /\ UsersOK /\ CallsKnow
-----------------------------------------------------------------------------
LEMMA InitIInv == Init => IInv
<1>. SUFFICES ASSUME Init PROVE IInv
  OBVIOUS
<1>1. call = [c \in Calls |-> Idle]
  BY DEF Init
<1>2. user \in [Users -> UserRecs]
  BY DEF Init, UserRecs
<1>3. call \in [Calls -> CallRecs]
  BY <1>1 DEF CallRecs, Idle
<1>4. TypeOK
  BY <1>2, <1>3 DEF Init, TypeOK
<1>5. TokensDiffer
  BY DEF Init, TokensDiffer
<1>6. UsersOK
  BY DEF Init, UsersOK, OwnersHaveAuth, LinkedExist, LinkUnique, LinkedHasAuth
<1>7. ASSUME NEW c \in Calls PROVE Knows(call[c])
  <2>1. call[c].pc = "idle"
    BY <1>1, <1>7 DEF Idle
  <2>. QED
    BY <2>1 DEF Knows, Way, Carries, UserKnown, TokensKnown, Done
<1>. QED
  BY <1>4, <1>5, <1>6, <1>7 DEF IInv, CallsKnow
-----------------------------------------------------------------------------
\* A user, once there, linked or with a mail_auth row, stays so.
Steady == \A u \in Users :
            /\ user[u].exists => user'[u].exists
            /\ user[u].auth # None => user'[u].auth # None
            /\ user[u].linked # None => user'[u].linked = user[u].linked

LEMMA KnowsStays ==
  ASSUME TypeOK, Steady, session' \subseteq Sessions, NEW k \in CallRecs, Knows(k),
         \A x \in session' : x \in session \/ x.token # k.older
  PROVE  Knows(k)'
<1>1. None \notin Subs
  BY NoneAssumption
<1>2. UserKnown(k)'
  BY <1>1 DEF Steady, Knows, Way, Carries, UserKnown, Done
<1>3. TokensKnown(k)'
  <2>1. \A x \in session : x.user \in Users
    BY DEF TypeOK, Sessions
  <2>2. k.kind # "revoke" /\ (k.pc = "create" \/ Done(k)) =>
          \A x \in session' : x.user = k.user => x.token # k.older
    BY DEF Knows, TokensKnown
  <2>3. k.kind = "revoke" /\ k.pc \in {"findLinked", "destroy"} =>
          \A x \in session' : x.token = k.older => user'[x.user].linked = k.sub
    BY <1>1, <2>1 DEF Knows, Carries, TokensKnown, Steady
  <2>4. k.sub \in Subs /\ LinkedTo(k.sub) # {} => LinkedTo(k.sub)' # {}
    BY <1>1 DEF LinkedTo, Steady
  <2>5. k.kind = "revoke" /\ Done(k) => k.older \notin Tokens(session)'
    BY DEF Knows, TokensKnown, Tokens
  <2>. QED
    BY <2>2, <2>3, <2>4, <2>5 DEF Knows, Carries, TokensKnown, Done
<1>. QED
  BY <1>2, <1>3 DEF Knows, Way, Carries, Done
-----------------------------------------------------------------------------
\* What a step of request c does to the other requests and to the tokens: its
\* record becomes k, and the only session it adds has a new token.
LEMMA CallStep ==
  ASSUME IInv, NEW c \in Calls, NEW k \in CallRecs, Become(c, k),
         user' \in [Users -> UserRecs], owner' \in [Emails -> Users \cup {None}],
         Steady, UsersOK', Knows(k)',
         \/ session' \subseteq session
         \/ \E x \in Sessions : x.token \in NewTokens /\ session' = session \cup {x}
  PROVE  IInv'
<1>1. TypeOK /\ TokensDiffer /\ UsersOK /\ CallsKnow
  BY DEF IInv
<1>2. /\ call' \in [Calls -> CallRecs] /\ call'[c] = k
      /\ \A d \in Calls \ {c} : call'[d] = call[d]
  BY <1>1 DEF Become, TypeOK
<1>3. session' \subseteq Sessions
  BY <1>1 DEF TypeOK
<1>4. TypeOK'
  BY <1>2, <1>3 DEF TypeOK
<1>5. TokensDiffer'
  <2>1. CASE session' \subseteq session
    BY <2>1, <1>1 DEF TokensDiffer
  <2>2. CASE \E x \in Sessions : x.token \in NewTokens /\ session' = session \cup {x}
    BY <2>2, <1>1 DEF TokensDiffer, Tokens, NewTokens
  <2>. QED
    BY <2>1, <2>2
<1>6. CallsKnow'
  <2>1. ASSUME NEW d \in Calls, d # c PROVE Knows(call[d])'
    <3>1. PICK r : r = call[d]
      OBVIOUS
    <3>2. r \in CallRecs /\ Knows(r) /\ r = call'[d]
      BY <2>1, <3>1, <1>1, <1>2 DEF TypeOK, CallsKnow
    <3>3. \A t \in NewTokens : t # r.older
      BY <3>1 DEF NewTokens
    <3>4. \A x \in session' : x \in session \/ x.token # r.older
      BY <3>3
    <3>5. Knows(r)'
      BY <1>1, <1>3, <3>2, <3>4, KnowsStays
    <3>. QED
      BY <3>2, <3>5
  <2>. QED
    BY <2>1, <1>2 DEF CallsKnow
<1>. QED
  BY <1>4, <1>5, <1>6 DEF IInv

LEMMA SteadyIfUnchanged ==
  ASSUME TypeOK, UsersOK, UNCHANGED <<user, owner>>
  PROVE  Steady /\ UsersOK'
BY DEF Steady, UsersOK, OwnersHaveAuth, LinkedExist, LinkUnique, LinkedHasAuth

\* Going on to the next statement without changing a row.
LEMMA CallMoves ==
  ASSUME IInv, NEW c \in Calls, NEW k \in CallRecs, Become(c, k),
         UNCHANGED <<user, owner, session>>, Knows(k)
  PROVE  IInv'
<1>1. TypeOK /\ UsersOK
  BY DEF IInv
<1>2. Steady /\ UsersOK'
  BY <1>1, SteadyIfUnchanged
<1>3. Knows(k)'
  BY DEF Knows, Way, Carries, UserKnown, TokensKnown, LinkedTo, Tokens, Done
<1>. QED
  BY <1>1, <1>2, <1>3, CallStep DEF TypeOK

\* An answer that is not "ok" claims nothing.
LEMMA Refused ==
  ASSUME IInv, NEW c \in Calls, UNCHANGED <<user, owner, session>>,
         NEW res \in {"registration_required", "no_account", "already_linked",
                      "already_registered", "error"},
         Answer(c, res)
  PROVE  IInv'
<1>1. PICK k : k = [Idle EXCEPT !.pc = "done", !.res = res]
  OBVIOUS
<1>2. k \in CallRecs /\ k.pc = "done" /\ k.res = res
  BY <1>1 DEF CallRecs, Idle
<1>3. Knows(k)
  BY <1>2 DEF Knows, Way, Carries, UserKnown, TokensKnown, Done
<1>4. Become(c, k)
  BY <1>1 DEF Answer
<1>. QED
  BY <1>2, <1>3, <1>4, CallMoves

\* The steps of users, and a sign-out.
LEMMA OtherStep ==
  ASSUME IInv, UNCHANGED call, user' \in [Users -> UserRecs], UNCHANGED owner,
         session' \subseteq session, Steady, UsersOK'
  PROVE  IInv'
<1>1. TypeOK /\ TokensDiffer /\ UsersOK /\ CallsKnow
  BY DEF IInv
<1>2. TypeOK' /\ TokensDiffer'
  BY <1>1 DEF TypeOK, TokensDiffer
<1>3. CallsKnow'
  <2>1. ASSUME NEW d \in Calls PROVE Knows(call[d])'
    <3>1. PICK r : r = call[d]
      OBVIOUS
    <3>2. r \in CallRecs /\ Knows(r) /\ r = call'[d]
      BY <3>1, <1>1 DEF TypeOK, CallsKnow
    <3>3. Knows(r)'
      BY <1>1, <1>2, <3>2, KnowsStays DEF TypeOK
    <3>. QED
      BY <3>2, <3>3
  <2>. QED
    BY <2>1 DEF CallsKnow
<1>. QED
  BY <1>2, <1>3 DEF IInv
-----------------------------------------------------------------------------
LEMMA NewUserStep == ASSUME IInv, NEW u \in Users, NewUser(u) PROVE IInv'
<1>1. TypeOK /\ UsersOK
  BY DEF IInv
<1>2. /\ user' = [user EXCEPT ![u].exists = TRUE] /\ UNCHANGED <<owner, session, call>>
  BY DEF NewUser
<1>3. /\ user' \in [Users -> UserRecs]
      /\ \A v \in Users : /\ user'[v].linked = user[v].linked /\ user'[v].auth = user[v].auth
                          /\ user'[v].exists <=> (user[v].exists \/ v = u)
  BY <1>1, <1>2 DEF TypeOK, UserRecs
<1>4. Steady
  BY <1>3 DEF Steady
<1>5. UsersOK'
  BY <1>1, <1>2, <1>3 DEF TypeOK, UsersOK, OwnersHaveAuth, LinkedExist, LinkUnique, LinkedHasAuth
<1>. QED
  BY <1>2, <1>3, <1>4, <1>5, OtherStep

LEMMA DeleteUserStep == ASSUME IInv, NEW u \in Users, DeleteUser(u) PROVE IInv'
<1>1. TypeOK /\ UsersOK
  BY DEF IInv
<1>2. /\ user' = [user EXCEPT ![u].deleted = TRUE] /\ UNCHANGED <<owner, session, call>>
  BY DEF DeleteUser
<1>3. /\ user' \in [Users -> UserRecs]
      /\ \A v \in Users : /\ user'[v].linked = user[v].linked /\ user'[v].auth = user[v].auth
                          /\ user'[v].exists <=> user[v].exists
  BY <1>1, <1>2 DEF TypeOK, UserRecs
<1>4. Steady
  BY <1>3 DEF Steady
<1>5. UsersOK'
  BY <1>1, <1>2, <1>3 DEF TypeOK, UsersOK, OwnersHaveAuth, LinkedExist, LinkUnique, LinkedHasAuth
<1>. QED
  BY <1>2, <1>3, <1>4, <1>5, OtherStep

LEMMA SignOutStep == ASSUME IInv, NEW t \in AccessTokens, SignOut(t) PROVE IInv'
<1>1. Steady /\ UsersOK'
  BY SteadyIfUnchanged DEF IInv, SignOut
<1>. QED
  BY <1>1, OtherStep DEF IInv, TypeOK, SignOut

\* A request arrives, with a token that is valid now, a revocation with one of the
\* user who has its sub.
LEMMA ArriveStep == ASSUME IInv, NEW c \in Calls, Arrive(c) PROVE IInv'
<1>1. UNCHANGED <<user, owner, session>>
  BY DEF Arrive
<1>2. Tokens(session) \subseteq AccessTokens
  BY DEF IInv, TypeOK, Tokens, Sessions
<1>3. ASSUME NEW e \in Emails, NEW older \in Tokens(session) \cup {None},
             NEW kind \in {"mailSignUp", "mailSignIn", "signIn", "signUp"},
             NEW pc \in {"insertAuth", "findAuth", "findLinked"},
             NEW s \in Subs \cup {None}, NEW u \in Users \cup {None},
             pc = "insertAuth" <=> kind = "mailSignUp", pc = "findAuth" <=> kind = "mailSignIn",
             pc = "insertAuth" => u \in Users, pc = "findLinked" => s \in Subs,
             Start(c, kind, pc, s, e, u, older)
      PROVE  IInv'
  <2>1. PICK k : k = [kind |-> kind, pc |-> pc, sub |-> s, email |-> e, user |-> u,
                      older |-> older, res |-> "error"]
    OBVIOUS
  <2>2. k \in CallRecs
    BY <1>2, <2>1 DEF CallRecs
  <2>3. Knows(k)
    BY <1>3, <2>1 DEF Knows, Way, Carries, UserKnown, TokensKnown, Done
  <2>. QED
    BY <1>1, <1>3, <2>1, <2>2, <2>3, CallMoves DEF Start
<1>4. ASSUME NEW s \in Subs, NEW older \in AccessTokens \cup {None},
             older \in Tokens({x \in session : x.user \in LinkedTo(s)}) \cup {None},
             Start(c, "revoke", "findLinked", s, None, None, older)
      PROVE  IInv'
  <2>1. PICK k : k = [kind |-> "revoke", pc |-> "findLinked", sub |-> s, email |-> None,
                      user |-> None, older |-> older, res |-> "error"]
    OBVIOUS
  <2>2. k \in CallRecs
    BY <2>1 DEF CallRecs
  <2>3. \A x \in session : x.token \in AccessTokens
    BY DEF IInv, TypeOK, Sessions
  <2>4. \A x \in session : x.token = older => user[x.user].linked = s
    BY <1>4, <2>3, NoneAssumption DEF IInv, TokensDiffer, Tokens, LinkedTo
  <2>5. older # None => LinkedTo(s) # {}
    BY <1>4 DEF Tokens
  <2>6. Knows(k)
    BY <2>1, <2>4, <2>5 DEF Knows, Way, Carries, UserKnown, TokensKnown, Done
  <2>. QED
    BY <1>1, <1>4, <2>1, <2>2, <2>6, CallMoves DEF Start
<1>5. CASE \E e \in Emails, older \in Tokens(session) \cup {None}, u \in Users :
             Start(c, "mailSignUp", "insertAuth", None, e, u, older)
  BY <1>3, <1>5
<1>6. CASE \E e \in Emails, older \in Tokens(session) \cup {None} :
             Start(c, "mailSignIn", "findAuth", None, e, None, older)
  BY <1>3, <1>6
<1>7. CASE \E e \in Emails, older \in Tokens(session) \cup {None},
             s \in Subs, kind \in {"signIn", "signUp"} :
             Start(c, kind, "findLinked", s, e, None, older)
  BY <1>3, <1>7
<1>. QED
  BY <1>4, <1>5, <1>6, <1>7 DEF Arrive
-----------------------------------------------------------------------------
Statements == {"findLinked", "findEmail", "link", "findUser", "findAuthOf", "register",
               "destroy", "create"}

\* k is r at another statement, with u as its user.
GoneOn(r, k, pc, u) ==
  k.kind = r.kind /\ k.sub = r.sub /\ k.older = r.older /\ k.email = r.email
  /\ k.pc = pc /\ k.user = u

LEMMA OnRecord ==
  ASSUME TypeOK, NEW c \in Calls, NEW pc \in Statements, NEW u \in Users, On(c, u, pc)
  PROVE  \E k \in CallRecs : Become(c, k) /\ GoneOn(call[c], k, pc, u)
<1>1. call[c] \in CallRecs
  BY DEF TypeOK
<1>2. PICK k : k = [call[c] EXCEPT !.pc = pc, !.user = u]
  OBVIOUS
<1>3. k \in CallRecs /\ GoneOn(call[c], k, pc, u)
  BY <1>1, <1>2 DEF CallRecs, GoneOn, Statements
<1>. QED
  BY <1>2, <1>3 DEF On

LEMMA GotoRecord ==
  ASSUME TypeOK, NEW c \in Calls, NEW pc \in Statements, Goto(c, pc)
  PROVE  \E k \in CallRecs : Become(c, k) /\ GoneOn(call[c], k, pc, call[c].user)
<1>1. call[c] \in CallRecs
  BY DEF TypeOK
<1>2. PICK k : k = [call[c] EXCEPT !.pc = pc]
  OBVIOUS
<1>3. k \in CallRecs /\ GoneOn(call[c], k, pc, call[c].user)
  BY <1>1, <1>2 DEF CallRecs, GoneOn, Statements
<1>. QED
  BY <1>2, <1>3 DEF Goto

LEMMA DoneRecord ==
  ASSUME TypeOK, NEW c \in Calls, Answer(c, "ok")
  PROVE  \E k \in CallRecs : /\ Become(c, k) /\ Done(k)
                             /\ GoneOn(call[c], k, "done", call[c].user)
<1>1. call[c] \in CallRecs
  BY DEF TypeOK
<1>2. PICK k : k = [call[c] EXCEPT !.pc = "done", !.res = "ok"]
  OBVIOUS
<1>3. k \in CallRecs /\ GoneOn(call[c], k, "done", call[c].user) /\ Done(k)
  BY <1>1, <1>2 DEF CallRecs, GoneOn, Done
<1>. QED
  BY <1>2, <1>3 DEF Answer

LEMMA FindAuthStep == ASSUME IInv, NEW c \in Calls, FindAuth(c) PROVE IInv'
<1>1. TypeOK /\ Live(c) /\ Knows(call[c]) /\ call[c] \in CallRecs
  BY DEF IInv, TypeOK, CallsKnow, FindAuth, At, Live
<1>2. UNCHANGED <<user, owner, session>> /\ call[c].pc = "findAuth"
  BY DEF FindAuth, At
<1>3. CASE Answer(c, "error")
  BY <1>1, <1>2, <1>3, Refused
<1>4. CASE owner[call[c].email] # None /\ On(c, owner[call[c].email], "destroy")
  <2>1. owner[call[c].email] \in Users
    BY <1>1, <1>2, <1>4 DEF TypeOK, Knows, Carries
  <2>2. PICK k \in CallRecs : Become(c, k) /\ GoneOn(call[c], k, "destroy", owner[call[c].email])
    BY <1>1, <1>4, <2>1, OnRecord DEF Statements
  <2>3. Knows(k)
    BY <1>1, <1>2, <2>1, <2>2 DEF Knows, Way, Carries, UserKnown, TokensKnown, Done, GoneOn
  <2>. QED
    BY <1>1, <1>2, <2>2, <2>3, CallMoves DEF GoneOn
<1>. QED
  BY <1>3, <1>4 DEF FindAuth

LEMMA FindLinkedStep == ASSUME IInv, NEW c \in Calls, FindLinked(c) PROVE IInv'
<1>1. TypeOK /\ Live(c) /\ Knows(call[c]) /\ call[c] \in CallRecs
  BY DEF IInv, TypeOK, CallsKnow, FindLinked, At, Live
<1>2. UNCHANGED <<user, owner, session>> /\ call[c].pc = "findLinked"
  BY DEF FindLinked, At
<1>3. CASE LinkedTo(call[c].sub) = {} /\ call[c].kind # "revoke" /\ Goto(c, "findEmail")
  <2>1. PICK k \in CallRecs : Become(c, k) /\ GoneOn(call[c], k, "findEmail", call[c].user)
    BY <1>1, <1>3, GotoRecord DEF Statements
  <2>2. Knows(k)
    BY <1>1, <1>2, <1>3, <2>1 DEF Knows, Way, Carries, UserKnown, TokensKnown, Done, GoneOn
  <2>. QED
    BY <1>1, <1>2, <2>1, <2>2, CallMoves DEF GoneOn
<1>4. CASE LinkedTo(call[c].sub) = {} /\ call[c].kind = "revoke" /\ Answer(c, "ok")
  <2>1. PICK k \in CallRecs : /\ Become(c, k) /\ Done(k)
                              /\ GoneOn(call[c], k, "done", call[c].user)
    BY <1>1, <1>4, DoneRecord
  <2>2. k.older \notin Tokens(session)
    <3>1. k.older = None
      BY <1>1, <1>2, <1>4, <2>1 DEF Knows, TokensKnown, GoneOn
    <3>. QED
      BY <1>1, <3>1, NoneAssumption DEF TypeOK, Sessions, Tokens
  <2>3. Knows(k)
    BY <1>1, <1>2, <1>4, <2>1, <2>2 DEF Knows, Way, Carries, UserKnown, TokensKnown, Done, GoneOn
  <2>. QED
    BY <1>1, <1>2, <2>1, <2>3, CallMoves DEF GoneOn
<1>5. ASSUME NEW u \in LinkedTo(call[c].sub), NEW pc \in {"findAuthOf", "destroy"},
             On(c, u, pc), call[c].kind = IF pc = "destroy" THEN "revoke" ELSE "signIn"
      PROVE  IInv'
  <2>1. u \in Users /\ user[u].linked = call[c].sub
    BY DEF LinkedTo
  <2>2. PICK k \in CallRecs : Become(c, k) /\ GoneOn(call[c], k, pc, u)
    BY <1>1, <1>5, <2>1, OnRecord DEF Statements
  <2>3. Knows(k)
    BY <1>1, <1>2, <1>5, <2>1, <2>2 DEF Knows, Way, Carries, UserKnown, TokensKnown, Done, GoneOn
  <2>. QED
    BY <1>1, <1>2, <2>2, <2>3, CallMoves DEF GoneOn
<1>6. ASSUME NEW res \in {"no_account", "already_registered"}, Answer(c, res) PROVE IInv'
  BY <1>1, <1>2, <1>6, Refused
<1>. QED
  BY <1>3, <1>4, <1>5, <1>6 DEF FindLinked

LEMMA FindEmailStep == ASSUME IInv, NEW c \in Calls, FindEmail(c) PROVE IInv'
<1>1. TypeOK /\ Live(c) /\ Knows(call[c]) /\ call[c] \in CallRecs
  BY DEF IInv, TypeOK, CallsKnow, FindEmail, At, Live
<1>2. UNCHANGED <<user, owner, session>> /\ call[c].pc = "findEmail"
  BY DEF FindEmail, At
<1>3. ASSUME NEW res \in {"registration_required", "already_registered"}, Answer(c, res)
      PROVE  IInv'
  BY <1>1, <1>2, <1>3, Refused
<1>4. ASSUME NEW u \in Users, owner[call[c].email] = u, call[c].kind = "signIn", On(c, u, "link"),
             u # None
      PROVE  IInv'
  <2>1. user[u].auth # None
    BY <1>1, <1>2, <1>4 DEF IInv, UsersOK, OwnersHaveAuth, Knows, Carries
  <2>2. PICK k \in CallRecs : Become(c, k) /\ GoneOn(call[c], k, "link", u)
    BY <1>1, <1>4, OnRecord DEF Statements
  <2>3. Knows(k)
    BY <1>1, <1>2, <1>4, <2>1, <2>2 DEF Knows, Way, Carries, UserKnown, TokensKnown, Done, GoneOn
  <2>. QED
    BY <1>1, <1>2, <2>2, <2>3, CallMoves DEF GoneOn
<1>5. CASE call[c].kind = "signUp" /\ Goto(c, "register")
  <2>1. PICK k \in CallRecs : Become(c, k) /\ GoneOn(call[c], k, "register", call[c].user)
    BY <1>1, <1>5, GotoRecord DEF Statements
  <2>2. Knows(k)
    BY <1>1, <1>2, <1>5, <2>1 DEF Knows, Way, Carries, UserKnown, TokensKnown, Done, GoneOn
  <2>. QED
    BY <1>1, <1>2, <2>1, <2>2, CallMoves DEF GoneOn
<1>6. owner[call[c].email] # None => owner[call[c].email] \in Users
  BY <1>1, <1>2 DEF TypeOK, Knows, Carries
<1>. QED
  BY <1>3, <1>4, <1>5, <1>6 DEF FindEmail

LEMMA FindUserStep == ASSUME IInv, NEW c \in Calls, FindUser(c) PROVE IInv'
<1>1. TypeOK /\ Live(c) /\ Knows(call[c]) /\ call[c] \in CallRecs
  BY DEF IInv, TypeOK, CallsKnow, FindUser, At, Live
<1>2. UNCHANGED <<user, owner, session>> /\ call[c].pc = "findUser"
  BY DEF FindUser, At
<1>3. CASE Answer(c, "no_account")
  BY <1>1, <1>2, <1>3, Refused
<1>4. CASE Goto(c, "findAuthOf")
  <2>1. PICK k \in CallRecs : Become(c, k) /\ GoneOn(call[c], k, "findAuthOf", call[c].user)
    BY <1>1, <1>4, GotoRecord DEF Statements
  <2>2. Knows(k)
    BY <1>1, <1>2, <2>1 DEF Knows, Way, Carries, UserKnown, TokensKnown, Done, GoneOn
  <2>. QED
    BY <1>1, <1>2, <2>1, <2>2, CallMoves DEF GoneOn
<1>. QED
  BY <1>3, <1>4 DEF FindUser

LEMMA FindAuthOfStep == ASSUME IInv, NEW c \in Calls, FindAuthOf(c) PROVE IInv'
<1>1. TypeOK /\ Live(c) /\ Knows(call[c]) /\ call[c] \in CallRecs
  BY DEF IInv, TypeOK, CallsKnow, FindAuthOf, At, Live
<1>2. UNCHANGED <<user, owner, session>> /\ call[c].pc = "findAuthOf"
  BY DEF FindAuthOf, At
<1>3. CASE Answer(c, "no_account")
  BY <1>1, <1>2, <1>3, Refused
<1>4. ASSUME NEW e \in Emails, Become(c, [call[c] EXCEPT !.pc = "destroy", !.email = e])
      PROVE  IInv'
  <2>1. PICK k : k = [call[c] EXCEPT !.pc = "destroy", !.email = e]
    OBVIOUS
  <2>2. /\ k \in CallRecs /\ k.kind = call[c].kind /\ k.sub = call[c].sub /\ k.pc = "destroy"
        /\ k.older = call[c].older /\ k.user = call[c].user /\ k.email = e
    BY <1>1, <2>1 DEF CallRecs
  <2>3. Knows(k)
    BY <1>1, <1>2, <1>4, <2>2 DEF Knows, Way, Carries, UserKnown, TokensKnown, Done
  <2>. QED
    BY <1>1, <1>2, <1>4, <2>1, <2>2, <2>3, CallMoves
<1>5. user[call[c].user].auth \in Emails \cup {None}
  BY <1>1, <1>2 DEF TypeOK, Knows, Carries, UserRecs
<1>. QED
  BY <1>3, <1>4, <1>5 DEF FindAuthOf

LEMMA FailStep == ASSUME IInv, NEW c \in Calls, Fail(c) PROVE IInv'
BY Refused DEF Fail
-----------------------------------------------------------------------------
\* The steps that write.
LEMMA InsertAuthStep == ASSUME IInv, NEW c \in Calls, InsertAuth(c) PROVE IInv'
<1>1. TypeOK /\ UsersOK /\ Live(c) /\ Knows(call[c]) /\ call[c] \in CallRecs
  BY DEF IInv, TypeOK, CallsKnow, InsertAuth, At, Live
<1>2. UNCHANGED session /\ call[c].pc = "insertAuth"
  BY DEF InsertAuth, At
<1>3. PICK e \in Emails, u \in Users : e = call[c].email /\ u = call[c].user
  BY <1>1, <1>2 DEF Knows, Carries
<1>4. CASE owner[e] # None
  BY <1>1, <1>2, <1>3, <1>4, Refused DEF InsertAuth
<1>5. CASE owner[e] = None
  <2>1. /\ owner' = [owner EXCEPT ![e] = u]
        /\ user' = [user EXCEPT ![u].auth = IF @ = None THEN e ELSE @]
        /\ Goto(c, "destroy")
    BY <1>3, <1>5 DEF InsertAuth
  <2>2. PICK k \in CallRecs : Become(c, k) /\ GoneOn(call[c], k, "destroy", call[c].user)
    BY <1>1, <2>1, GotoRecord DEF Statements
  <2>3. k.kind = "mailSignUp"
    BY <1>1, <1>2, <1>3, <2>2 DEF Knows, Way, Carries, UserKnown, GoneOn
  <2>4. PICK a \in Emails : a = IF user[u].auth = None THEN e ELSE user[u].auth
    BY <1>1 DEF TypeOK, UserRecs
  <2>5. user' = [user EXCEPT ![u].auth = a]
    BY <2>1, <2>4
  <2>6. /\ user' \in [Users -> UserRecs]
        /\ \A v \in Users : /\ user'[v].linked = user[v].linked
                            /\ user'[v].exists <=> user[v].exists
                            /\ user'[v].auth = IF v = u THEN a ELSE user[v].auth
    BY <1>1, <2>5 DEF TypeOK, UserRecs
  <2>7. a # None /\ owner' \in [Emails -> Users \cup {None}]
    BY <1>1, <2>1, NoneAssumption DEF TypeOK
  <2>8. Steady
    BY <2>6, <2>7 DEF Steady
  <2>9. UsersOK'
    <3>1. OwnersHaveAuth'
      BY <1>1, <2>1, <2>3, <2>6, <2>7 DEF TypeOK, UsersOK, OwnersHaveAuth
    <3>2. (LinkedExist /\ LinkUnique /\ LinkedHasAuth)'
      BY <1>1, <2>6, <2>7 DEF UsersOK, LinkedExist, LinkUnique, LinkedHasAuth
    <3>. QED
      BY <3>1, <3>2 DEF UsersOK
  <2>10. Knows(k)'
    BY <1>1, <1>2, <2>2, <2>3 DEF Knows, Way, Carries, UserKnown, TokensKnown, Done, GoneOn
  <2>. QED
    BY <1>1, <1>2, <2>2, <2>6, <2>7, <2>8, <2>9, <2>10, CallStep DEF TypeOK, GoneOn
<1>. QED
  BY <1>4, <1>5

\* The link goes to a user without one, and to a sub no user has.
LEMMA LinkStep == ASSUME IInv, NEW c \in Calls, Link(c) PROVE IInv'
<1>1. TypeOK /\ UsersOK /\ Live(c) /\ Knows(call[c]) /\ call[c] \in CallRecs
  BY DEF IInv, TypeOK, CallsKnow, Link, At, Live
<1>2. UNCHANGED <<owner, session>> /\ call[c].pc = "link"
  BY DEF Link, At
<1>3. PICK s \in Subs, u \in Users : s = call[c].sub /\ u = call[c].user
  BY <1>1, <1>2 DEF Knows, Way, Carries
<1>4. ASSUME NEW res \in {"error", "already_linked"}, Answer(c, res), UNCHANGED user PROVE IInv'
  BY <1>1, <1>2, <1>4, Refused
<1>5. CASE /\ user[u].exists /\ user[u].linked = None /\ LinkedTo(s) = {}
           /\ user' = [user EXCEPT ![u].linked = s]
           /\ Goto(c, "findUser")
  <2>1. PICK k \in CallRecs : Become(c, k) /\ GoneOn(call[c], k, "findUser", call[c].user)
    BY <1>1, <1>5, GotoRecord DEF Statements
  <2>2. user[u].exists /\ user[u].auth # None /\ k.kind = "signIn"
    BY <1>1, <1>2, <1>3, <1>5, <2>1 DEF Knows, Way, Carries, UserKnown, GoneOn
  <2>3. /\ user' \in [Users -> UserRecs]
        /\ \A v \in Users : /\ user'[v].linked = IF v = u THEN s ELSE user[v].linked
                            /\ user'[v].exists <=> user[v].exists
                            /\ user'[v].auth = user[v].auth
    BY <1>1, <1>5 DEF TypeOK, UserRecs
  <2>4. Steady
    BY <1>5, <2>3 DEF Steady
  <2>5. \A v \in Users : user[v].linked # s
    BY <1>5 DEF LinkedTo
  <2>6. UsersOK'
    <3>1. OwnersHaveAuth'
      BY <1>1, <1>2, <2>3 DEF TypeOK, UsersOK, OwnersHaveAuth
    <3>2. LinkUnique'
      BY <1>1, <2>3, <2>5 DEF UsersOK, LinkUnique
    <3>3. LinkedExist' /\ LinkedHasAuth'
      BY <1>1, <2>2, <2>3 DEF UsersOK, LinkedExist, LinkedHasAuth
    <3>. QED
      BY <3>1, <3>2, <3>3 DEF UsersOK
  <2>7. Knows(k)'
    BY <1>3, <2>1, <2>2, <2>3 DEF Knows, Way, Carries, UserKnown, TokensKnown, Done, GoneOn
  <2>. QED
    BY <1>1, <1>2, <2>1, <2>3, <2>4, <2>6, <2>7, CallStep DEF TypeOK, GoneOn
<1>. QED
  BY <1>3, <1>4, <1>5 DEF Link

\* The transaction of a sign-up: a new user, linked, with a mail_auth row.
LEMMA RegisterStep == ASSUME IInv, NEW c \in Calls, Register(c) PROVE IInv'
<1>1. TypeOK /\ UsersOK /\ Live(c) /\ Knows(call[c]) /\ call[c] \in CallRecs
  BY DEF IInv, TypeOK, CallsKnow, Register, At, Live
<1>2. UNCHANGED session /\ call[c].pc = "register"
  BY DEF Register, At
<1>3. PICK s \in Subs, e \in Emails : s = call[c].sub /\ e = call[c].email
  BY <1>1, <1>2 DEF Knows, Way, Carries
<1>4. CASE Answer(c, "error") /\ UNCHANGED <<user, owner>>
  BY <1>1, <1>2, <1>4, Refused
<1>5. ASSUME NEW u \in Users, ~user[u].exists, LinkedTo(s) = {}, owner[e] = None,
             user' = [user EXCEPT ![u].exists = TRUE, ![u].linked = s,
                                  ![u].auth = IF @ = None THEN e ELSE @],
             owner' = [owner EXCEPT ![e] = u],
             On(c, u, "destroy")
      PROVE  IInv'
  <2>1. PICK k \in CallRecs : Become(c, k) /\ GoneOn(call[c], k, "destroy", u)
    BY <1>1, <1>5, OnRecord DEF Statements
  <2>2. e # None /\ s # None
    BY NoneAssumption
  <2>3. /\ user' \in [Users -> UserRecs]
        /\ \A v \in Users \ {u} : user'[v] = user[v]
        /\ user'[u].exists /\ user'[u].linked = s /\ user'[u].auth # None
    <3>1. PICK a \in Emails : a = IF user[u].auth = None THEN e ELSE user[u].auth
      BY <1>1 DEF TypeOK, UserRecs
    <3>2. user' = [user EXCEPT ![u].exists = TRUE, ![u].linked = s, ![u].auth = a]
      BY <1>5, <3>1
    <3>3. a # None
      BY NoneAssumption
    <3>. QED
      BY <1>1, <3>2, <3>3 DEF TypeOK, UserRecs
  <2>4. owner' \in [Emails -> Users \cup {None}]
    BY <1>1, <1>5 DEF TypeOK
  <2>5. user[u].linked = None
    BY <1>1, <1>5 DEF UsersOK, LinkedExist
  <2>6. Steady
    BY <2>2, <2>3, <2>5 DEF Steady
  <2>7. \A v \in Users : user[v].linked # s
    BY <1>5 DEF LinkedTo
  <2>8. UsersOK'
    <3>1. OwnersHaveAuth'
      BY <1>1, <1>5, <2>2, <2>3 DEF TypeOK, UsersOK, OwnersHaveAuth
    <3>2. LinkUnique'
      BY <1>1, <2>3, <2>7 DEF UsersOK, LinkUnique
    <3>3. LinkedExist' /\ LinkedHasAuth'
      BY <1>1, <2>2, <2>3 DEF UsersOK, LinkedExist, LinkedHasAuth
    <3>. QED
      BY <3>1, <3>2, <3>3 DEF UsersOK
  <2>9. k.kind = "signUp" /\ k.pc = "destroy" /\ k.user = u /\ k.sub = s
    BY <1>1, <1>2, <1>3, <2>1 DEF Knows, Way, GoneOn
  <2>10. Knows(k)'
    BY <1>3, <2>1, <2>3, <2>9 DEF Knows, Way, Carries, UserKnown, TokensKnown, Done, GoneOn
  <2>. QED
    BY <1>1, <1>2, <2>1, <2>3, <2>4, <2>6, <2>8, <2>10, CallStep DEF TypeOK, GoneOn
<1>. QED
  BY <1>3, <1>4, <1>5 DEF Register

\* Every session of the request's user ends, which are all those of its sub.
LEMMA DestroyStep == ASSUME IInv, NEW c \in Calls, Destroy(c) PROVE IInv'
<1>1. TypeOK /\ UsersOK /\ Live(c) /\ Knows(call[c]) /\ call[c] \in CallRecs
  BY DEF IInv, TypeOK, CallsKnow, Destroy, At, Live
<1>2. UNCHANGED <<user, owner>> /\ call[c].pc = "destroy"
  BY DEF Destroy, At
<1>3. PICK r : r = call[c]
  OBVIOUS
<1>4. session' = {x \in session : x.user # r.user}
  BY <1>3 DEF Destroy
<1>5. Steady /\ UsersOK'
  BY <1>1, <1>2, SteadyIfUnchanged
<1>6. ASSUME NEW k \in CallRecs, Become(c, k), k.older = r.older, Knows(k)' PROVE IInv'
  BY <1>1, <1>2, <1>3, <1>4, <1>5, <1>6, CallStep DEF TypeOK
<1>7. CASE r.kind = "revoke"
  <2>1. PICK k \in CallRecs : /\ Become(c, k) /\ Done(k)
                              /\ GoneOn(r, k, "done", r.user)
    BY <1>1, <1>3, <1>7, DoneRecord DEF Destroy
  <2>2. user[r.user].linked = r.sub /\ r.user \in Users /\ r.sub \in Subs /\ r.sub # None
    BY <1>1, <1>2, <1>3, <1>7, NoneAssumption DEF Knows, Carries, UserKnown
  <2>3. \A x \in session : x.token = r.older => user[x.user].linked = r.sub
    BY <1>1, <1>2, <1>3, <1>7 DEF Knows, TokensKnown
  <2>4. \A x \in session : x.user \in Users
    BY <1>1 DEF TypeOK, Sessions
  <2>5. \A x \in session' : x.token # r.older
    BY <1>1, <1>4, <2>2, <2>3, <2>4 DEF UsersOK, LinkUnique
  <2>6. Knows(k)'
    BY <1>1, <1>2, <1>3, <1>7, <2>1, <2>2, <2>5
      DEF Knows, Way, Carries, UserKnown, TokensKnown, Done, GoneOn, Tokens
  <2>. QED
    BY <1>6, <2>1, <2>6 DEF GoneOn
<1>8. CASE r.kind # "revoke"
  <2>1. PICK k \in CallRecs : Become(c, k) /\ GoneOn(r, k, "create", r.user)
    BY <1>1, <1>3, <1>8, GotoRecord DEF Destroy, Statements
  <2>2. \A x \in session' : x.user # k.user
    BY <1>4, <2>1 DEF GoneOn
  <2>3. UserKnown(k)'
    BY <1>1, <1>2, <1>3, <1>8, <2>1 DEF Knows, Carries, UserKnown, GoneOn, Done
  <2>4. Knows(k)'
    BY <1>1, <1>2, <1>3, <1>8, <2>1, <2>2, <2>3 DEF Knows, Way, Carries, TokensKnown, GoneOn, Done
  <2>. QED
    BY <1>6, <2>1, <2>4 DEF GoneOn
<1>. QED
  BY <1>7, <1>8

\* The new session has a token that no request remembers.
LEMMA CreateStep == ASSUME IInv, NEW c \in Calls, Create(c) PROVE IInv'
<1>1. TypeOK /\ UsersOK /\ Knows(call[c]) /\ call[c] \in CallRecs
  BY DEF IInv, TypeOK, CallsKnow
<1>2. UNCHANGED <<user, owner>> /\ call[c].pc = "create"
  BY DEF Create, At
<1>3. CASE Answer(c, "error") /\ UNCHANGED session
  BY <1>2, <1>3, Refused
<1>4. ASSUME NEW t \in NewTokens, Answer(c, "ok"),
             session' = session \cup {[auth |-> call[c].email, user |-> call[c].user, token |-> t]}
      PROVE  IInv'
  <2>1. t \in AccessTokens /\ t # call[c].older
    BY DEF NewTokens
  <2>2. PICK x \in Sessions : x = [auth |-> call[c].email, user |-> call[c].user, token |-> t]
    BY <1>1, <1>2, <2>1 DEF Sessions, Knows, Carries
  <2>3. session' = session \cup {x} /\ x.token = t
    BY <1>4, <2>2
  <2>4. PICK k \in CallRecs : /\ Become(c, k) /\ Done(k)
                              /\ GoneOn(call[c], k, "done", call[c].user)
    BY <1>1, <1>4, DoneRecord
  <2>5. k.kind # "revoke" /\ x.token # k.older
    BY <1>1, <1>2, <2>1, <2>3, <2>4 DEF Knows, Way, GoneOn
  <2>6. UserKnown(k)' /\ Carries(k)
    BY <1>1, <1>2, <2>4, <2>5 DEF Knows, Carries, UserKnown, GoneOn, Done
  <2>7. TokensKnown(k)'
    BY <1>1, <1>2, <2>3, <2>4, <2>5 DEF Knows, TokensKnown, GoneOn, Done
  <2>8. Knows(k)'
    BY <2>4, <2>6, <2>7 DEF Knows, Way, Carries, Done
  <2>9. Steady /\ UsersOK'
    BY <1>1, <1>2, SteadyIfUnchanged
  <2>. QED
    BY <1>1, <1>2, <2>3, <2>4, <2>8, <2>9, CallStep DEF TypeOK
<1>. QED
  BY <1>2, <1>3, <1>4 DEF Create
-----------------------------------------------------------------------------
LEMMA NextIInv == IInv /\ [Next]_vars => IInv'
<1>. SUFFICES ASSUME IInv, [Next]_vars PROVE IInv'
  OBVIOUS
<1>1. ASSUME NEW u \in Users, NewUser(u) \/ DeleteUser(u) PROVE IInv'
  BY <1>1, NewUserStep, DeleteUserStep
<1>2. ASSUME NEW c \in Calls, Arrive(c) \/ Fail(c) PROVE IInv'
  BY <1>2, ArriveStep, FailStep
<1>3. ASSUME NEW c \in Calls, FindAuth(c) \/ FindLinked(c) \/ FindEmail(c) \/ FindUser(c)
                              \/ FindAuthOf(c)
      PROVE  IInv'
  BY <1>3, FindAuthStep, FindLinkedStep, FindEmailStep, FindUserStep, FindAuthOfStep
<1>4. ASSUME NEW c \in Calls, InsertAuth(c) \/ Link(c) \/ Register(c) \/ Destroy(c) \/ Create(c)
      PROVE  IInv'
  BY <1>4, InsertAuthStep, LinkStep, RegisterStep, DestroyStep, CreateStep
<1>5. ASSUME NEW t \in AccessTokens, SignOut(t) PROVE IInv'
  BY <1>5, SignOutStep
<1>6. CASE UNCHANGED vars
  <2>1. Steady /\ UsersOK'
    BY <1>6, SteadyIfUnchanged DEF IInv, vars
  <2>. QED
    BY <1>6, <2>1, OtherStep DEF IInv, TypeOK, vars
<1>. QED
  BY <1>1, <1>2, <1>3, <1>4, <1>5, <1>6 DEF Next

LEMMA Inductive == Spec => []IInv
<1>. QED
  BY InitIInv, NextIInv, PTL DEF Spec

\* Accounts, sessions and requests have their types.
THEOREM TypeCorrect == Spec => []TypeOK
<1>1. IInv => TypeOK
  BY DEF IInv
<1>. QED
  BY <1>1, Inductive, PTL

\* A linked user always has a mail_auth row for its session to refer to.
THEOREM LinkedCanSignIn == Spec => []LinkedHasAuth
<1>1. IInv => LinkedHasAuth
  BY DEF IInv, UsersOK
<1>. QED
  BY <1>1, Inductive, PTL

\* One platform login is one account, and the other way around, for all logins
\* that ever succeeded.
THEOREM OneLoginOneAccount == Spec => []OneAccountPerLogin
<1>1. IInv => OneAccountPerLogin
  <2>. SUFFICES ASSUME IInv, NEW c \in Calls, NEW d \in Calls,
                       Ended(c, {"signIn", "signUp"}), Ended(d, {"signIn", "signUp"})
                PROVE  call[c].user = call[d].user <=> call[c].sub = call[d].sub
    BY DEF OneAccountPerLogin
  <2>1. /\ user[call[c].user].linked = call[c].sub
        /\ user[call[d].user].linked = call[d].sub
    BY DEF IInv, CallsKnow, Knows, UserKnown, Ended, At, Done
  <2>2. /\ call[c].user \in Users /\ call[d].user \in Users
        /\ call[c].sub # None
    BY NoneAssumption DEF IInv, CallsKnow, Knows, Carries, Ended, At, Done
  <2>. QED
    BY <2>1, <2>2 DEF IInv, UsersOK, LinkUnique
<1>. QED
  BY <1>1, Inductive, PTL

\* A token that a successful sign-in was to replace never works again.
THEOREM ReplacedStaysDead == Spec => []ReplacedTokenIsDead
<1>1. IInv => ReplacedTokenIsDead
  BY DEF IInv, CallsKnow, Knows, TokensKnown, ReplacedTokenIsDead, Ended, At, Done
<1>. QED
  BY <1>1, Inductive, PTL

\* Nor does one that a notification, answered 204, was to end.
THEOREM RevokedStaysDead == Spec => []RevokedTokenIsDead
<1>1. IInv => RevokedTokenIsDead
  BY DEF IInv, CallsKnow, Knows, TokensKnown, RevokedTokenIsDead, Ended, At, Done
<1>. QED
  BY <1>1, Inductive, PTL
=============================================================================
