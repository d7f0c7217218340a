--------------------------- MODULE RevocationProofs ---------------------------
(***************************************************************************)
(* Proofs about Revocation, for any people, subs and products and any      *)
(* number of logins and admin requests at once.                            *)
(***************************************************************************)
EXTENDS Revocation, TLAPS

\* An admin request whose targets have been read and that is telling them.
Telling(q) == q.pc \in {"firebase", "notify", "waiting", "handled"}

\* What is still ahead of a request: the pairs of the people it has not come to.
Ahead(q) == {p \in Pairs : /\ EmailOf[p[1]] \in q.todo
                           /\ Telling(q) => EmailOf[p[1]] # q.email}

\* Until a request is cut off, every target of the people it has come to has one
\* result or is still to be told, and whoever had a session is one of them, or has
\* failed, or is still ahead.
Accounted(q) ==
  /\ q.pc = "targets" => q.email \in q.todo
  /\ q.pc = "done" => q.todo = {}
  /\ q.pc # "idle" => /\ q.revoked \cap q.missed = {}
                      /\ q.targets \cap Ahead(q) = {}
                      /\ \A p \in q.before : \/ p \in q.targets \/ p \in Ahead(q)
                                             \/ EmailOf[p[1]] \in q.failed
                      /\ ~Telling(q) => q.revoked \cup q.missed = q.targets
  /\ Telling(q) => /\ q.left \cup q.revoked \cup q.missed = q.targets
                   /\ q.left \cap q.revoked = {}
                   /\ q.left \cap q.missed = {}
                   /\ q.before \cap Of(q.email) \subseteq q.targets
                   /\ q.pc \in {"waiting", "handled"} => q.current \in q.left

\* A target reported "revoked", or about to be, has lost its session.
Silent(q) == /\ q.before \cap q.revoked = {}
             /\ q.pc = "handled" => q.current \notin q.before

\* Nobody of e can sign in, and no login of theirs got past the whitelist before.
Barred(e) == ~active[e] /\ Crossing(e) = {}

\* While somebody barred is being signed out they have no lasting session but
\* those they had at the beginning, and none at all once cleared.
Out(q) == /\ q.before \subseteq session
          /\ Telling(q) /\ q.quiet => /\ Barred(q.email)
                                      /\ session \cap Lasting(q.email) \subseteq q.before
          /\ \A e \in q.cleared : Barred(e) /\ session \cap Lasting(e) = {}

\* Only the products of WriteBack write sessions back.
HeldOK == \A p \in held : p[2] \in WriteBack

RevOK(q) == Accounted(q) /\ Silent(q) /\ Out(q)
RevsOK   == \A r \in Revocations : RevOK(rev[r])

IInv == TypeOK /\ NothingUnrecorded /\ HeldOK /\ RevsOK
-----------------------------------------------------------------------------
LEMMA InitIInv == Init => IInv
<1>. SUFFICES ASSUME Init PROVE IInv
  OBVIOUS
<1>1. PICK p \in Pairs :
        /\ login = [l \in Logins |-> [pc |-> "idle", pair |-> p]]
        /\ rev   = [r \in Revocations |->
                     [pc |-> "idle", kind |-> "logout", todo |-> {}, email |-> EmailOf[p[1]],
                      targets |-> {}, subs |-> {}, left |-> {}, current |-> p,
                      revoked |-> {}, missed |-> {}, failed |-> {}, quiet |-> FALSE,
                      before |-> {}, cleared |-> {}]]
  BY DEF Init
<1>2. EmailOf[p[1]] \in Emails
  BY EmailAssumption DEF Pairs
<1>3. rev \in [Revocations -> RevRecs]
  BY <1>1, <1>2 DEF RevRecs
<1>4. login \in [Logins -> LoginRecs]
  BY <1>1 DEF LoginRecs
<1>5. TypeOK
  BY <1>3, <1>4 DEF Init, TypeOK
<1>6. NothingUnrecorded
  BY <1>1 DEF Init, NothingUnrecorded, At
<1>7. RevsOK
  BY <1>1 DEF RevsOK, RevOK, Accounted, Silent, Out, Telling
<1>8. HeldOK
  BY DEF Init, HeldOK
<1>. QED
  BY <1>5, <1>6, <1>7, <1>8 DEF IInv

\* While no session ends and nobody who is barred gets anywhere ...
Calm == /\ session \subseteq session'
        /\ \A e \in Emails : Barred(e) => Barred(e)' /\ session' \cap Lasting(e) \subseteq session

\* ... what a request relies on goes on to hold.
LEMMA CalmOut ==
  ASSUME Calm, NEW q \in RevRecs, Out(q)
  PROVE  /\ q.before \subseteq session'
         /\ Telling(q) /\ q.quiet => /\ Barred(q.email)'
                                     /\ session' \cap Lasting(q.email) \subseteq q.before
         /\ \A e \in q.cleared : Barred(e)' /\ session' \cap Lasting(e) = {}
<1>1. q.email \in Emails /\ q.cleared \subseteq Emails
  BY DEF RevRecs
<1>. QED
  BY <1>1 DEF Calm, Out

\* A step in which no request takes part.
LEMMA OtherStep ==
  ASSUME IInv, Calm, TypeOK', NothingUnrecorded', HeldOK', rev' = rev
  PROVE  IInv'
<1>1. ASSUME NEW r \in Revocations PROVE RevOK(rev[r])'
  <2>1. rev[r] \in RevRecs /\ RevOK(rev[r])
    BY DEF IInv, TypeOK, RevsOK
  <2>2. Out(rev[r])'
    BY <2>1, CalmOut DEF RevOK, Out, Telling
  <2>. QED
    BY <2>1, <2>2 DEF RevOK, Accounted, Ahead, Silent, Telling
<1>. QED
  BY <1>1 DEF IInv, RevsOK

\* A step of one request.
LEMMA RevStep ==
  ASSUME IInv, NEW r \in Revocations, NEW k \in RevRecs, RevOK(k), rev' = [rev EXCEPT ![r] = k],
         Calm, UNCHANGED <<links, session, held, idToken, login>>,
         active' \in [Emails -> BOOLEAN], net' \subseteq Notifications
  PROVE  IInv'
<1>0. rev \in [Revocations -> RevRecs]
  BY DEF IInv, TypeOK
<1>1. TypeOK'
  BY DEF IInv, TypeOK
<1>2. NothingUnrecorded'
  BY DEF IInv, NothingUnrecorded, At
<1>3. ASSUME NEW q \in RevRecs, RevOK(q)
      PROVE  /\ Accounted(q) /\ Silent(q)
             /\ q.before \subseteq session'
             /\ Telling(q) /\ q.quiet => /\ Barred(q.email)'
                                         /\ session' \cap Lasting(q.email) \subseteq q.before
             /\ \A e \in q.cleared : Barred(e)' /\ session' \cap Lasting(e) = {}
  BY <1>3, CalmOut DEF RevOK
<1>4. ASSUME NEW q \in Revocations PROVE RevOK(rev[q])'
  <2>1. rev'[q] \in RevRecs /\ RevOK(rev'[q])
    <3>1. CASE q = r
      BY <1>0, <3>1
    <3>2. CASE q # r
      BY <1>0, <3>2 DEF IInv, RevsOK
    <3>. QED
      BY <3>1, <3>2
  <2>. QED
    BY <1>3, <2>1 DEF RevOK, Accounted, Ahead, Silent, Out, Telling
<1>. QED
  BY <1>1, <1>2, <1>4 DEF IInv, HeldOK, RevsOK
-----------------------------------------------------------------------------
\* The browser, and logins.
LEMMA LoginStep ==
  ASSUME IInv,
         \/ \E u \in Subs : GoogleSignIn(u)
         \/ \E l \in Logins : \/ VerifyToken(l) \/ Admit(l) \/ RecordLogin(l) \/ OpenSession(l)
                              \/ LoginFails(l)
  PROVE  IInv'
<1>0. /\ login \in [Logins -> LoginRecs] /\ links \subseteq Pairs /\ session \subseteq Pairs
      /\ idToken \subseteq Subs /\ session \cup held \subseteq links /\ held \subseteq Pairs
      /\ HeldOK
      /\ \A l \in Logins : At(l, "reply") => login[l].pair \in links
      /\ \A l \in Logins : login[l].pair \in Pairs
  BY DEF IInv, TypeOK, NothingUnrecorded, LoginRecs
<1>1. CASE \E u \in Subs : GoogleSignIn(u)
  <2>1. Calm
    BY <1>1 DEF GoogleSignIn, Calm, Barred, Crossing
  <2>2. TypeOK' /\ NothingUnrecorded' /\ HeldOK'
    BY <1>0, <1>1 DEF GoogleSignIn, IInv, TypeOK, NothingUnrecorded, HeldOK, At
  <2>. QED
    BY <1>1, <2>1, <2>2, OtherStep DEF GoogleSignIn
\* A login that moves on: the sessions, and whoever is barred, stay as they are.
<1>2. ASSUME NEW l \in Logins, NEW k \in LoginRecs, login' = [login EXCEPT ![l] = k],
             k.pc = "reply" => k.pair \in links',
             k.pc \in {"record", "reply"} =>
               k.pair = login[l].pair /\ (active[EmailOf[k.pair[1]]] \/ login[l].pc = "record"),
             UNCHANGED <<active, session, held, idToken, rev, net>>,
             links \subseteq links', links' \subseteq Pairs
      PROVE  IInv'
  <2>1. login' \in [Logins -> LoginRecs]
    BY <1>0, <1>2
  <2>2. TypeOK'
    BY <1>2, <2>1 DEF IInv, TypeOK
  <2>3. NothingUnrecorded'
    BY <1>0, <1>2, <2>1 DEF NothingUnrecorded, At
  <2>4. ASSUME NEW e \in Emails, Barred(e) PROVE Barred(e)'
    <3>1. ASSUME NEW m \in Logins, login'[m].pc \in {"record", "reply"}, login'[m].pair \in Of(e)
          PROVE  FALSE
      <4>1. CASE m # l
        BY <1>0, <1>2, <2>4, <3>1, <4>1 DEF Barred, Crossing
      <4>2. CASE m = l
        <5>1. login'[m] = k
          BY <1>0, <1>2, <4>2
        <5>2. k.pair = login[l].pair /\ EmailOf[k.pair[1]] = e
          BY <1>2, <3>1, <5>1 DEF Of
        <5>3. login[l].pc = "record"
          BY <1>2, <2>4, <3>1, <5>1, <5>2 DEF Barred
        <5>. QED
          BY <2>4, <3>1, <5>1, <5>2, <5>3 DEF Barred, Crossing
      <4>. QED
        BY <4>1, <4>2
    <3>. QED
      BY <1>2, <2>4, <3>1 DEF Barred, Crossing
  <2>5. Calm
    BY <1>2, <2>4 DEF Calm
  <2>6. HeldOK'
    BY <1>0, <1>2 DEF HeldOK
  <2>. QED
    BY <1>2, <2>2, <2>3, <2>5, <2>6, OtherStep
<1>3. ASSUME NEW l \in Logins, VerifyToken(l) PROVE IInv'
  <2>1. PICK p \in Pairs : login' = [login EXCEPT ![l] = [pc |-> "admit", pair |-> p]]
    BY <1>3 DEF VerifyToken
  <2>2. [pc |-> "admit", pair |-> p] \in LoginRecs
    BY DEF LoginRecs
  <2>. QED
    BY <1>0, <1>2, <1>3, <2>1, <2>2 DEF VerifyToken
<1>4. ASSUME NEW l \in Logins, NEW pc \in {"idle", "record", "reply"},
             login' = [login EXCEPT ![l].pc = pc]
      PROVE  \E k \in LoginRecs : /\ k.pc = pc /\ k.pair = login[l].pair
                                  /\ login' = [login EXCEPT ![l] = k]
  <2>. DEFINE k == [login[l] EXCEPT !.pc = pc]
  <2>1. k \in LoginRecs /\ k.pc = pc /\ k.pair = login[l].pair
    BY <1>0 DEF LoginRecs
  <2>2. login' = [login EXCEPT ![l] = k]
    BY <1>0, <1>4
  <2>. QED
    BY <2>1, <2>2
<1>5. ASSUME NEW l \in Logins, Admit(l) PROVE IInv'
  <2>1. CASE active[EmailOf[login[l].pair[1]]]
    <3>1. login' = [login EXCEPT ![l].pc = "record"]
      BY <1>5, <2>1 DEF Admit
    <3>2. PICK k \in LoginRecs : /\ k.pc = "record" /\ k.pair = login[l].pair
                                 /\ login' = [login EXCEPT ![l] = k]
      BY <1>4, <3>1
    <3>3. UNCHANGED <<active, links, session, held, idToken, rev, net>>
      BY <1>5 DEF Admit
    <3>. QED
      BY <1>0, <1>2, <2>1, <3>2, <3>3
  <2>2. CASE ~active[EmailOf[login[l].pair[1]]]
    <3>1. login' = [login EXCEPT ![l].pc = "idle"]
      BY <1>5, <2>2 DEF Admit
    <3>. QED
      BY <1>0, <1>2, <1>4, <1>5, <3>1 DEF Admit
  <2>. QED
    BY <2>1, <2>2
<1>6. ASSUME NEW l \in Logins, RecordLogin(l) PROVE IInv'
  <2>1. PICK k \in LoginRecs : /\ k.pc = "reply" /\ k.pair = login[l].pair
                               /\ login' = [login EXCEPT ![l] = k]
    BY <1>4, <1>6 DEF RecordLogin
  <2>2. login[l].pc = "record" /\ links' = links \cup {login[l].pair}
    BY <1>6 DEF RecordLogin, At
  <2>. QED
    BY <1>0, <1>2, <1>6, <2>1, <2>2 DEF RecordLogin
<1>7. ASSUME NEW l \in Logins, LoginFails(l) PROVE IInv'
  BY <1>0, <1>2, <1>4, <1>7 DEF LoginFails
<1>8. ASSUME NEW l \in Logins, OpenSession(l) PROVE IInv'
  <2>1. PICK k \in LoginRecs : k.pc = "idle" /\ login' = [login EXCEPT ![l] = k]
    BY <1>4, <1>8 DEF OpenSession
  <2>2. login[l].pc = "reply" /\ session' = session \cup {login[l].pair}
    BY <1>8 DEF OpenSession, At
  <2>3. TypeOK'
    BY <1>0, <1>8, <2>1, <2>2 DEF OpenSession, IInv, TypeOK
  <2>4. NothingUnrecorded'
    BY <1>0, <1>8, <2>1, <2>2 DEF OpenSession, NothingUnrecorded, At
  <2>5. ASSUME NEW e \in Emails, Barred(e)
        PROVE  Barred(e)' /\ session' \cap Lasting(e) \subseteq session
    <3>1. Barred(e)'
      BY <1>0, <1>8, <2>1, <2>5 DEF OpenSession, Barred, Crossing
    <3>2. login[l].pair \notin Of(e)
      BY <2>2, <2>5 DEF Barred, Crossing
    <3>. QED
      BY <2>2, <3>1, <3>2 DEF Lasting
  <2>6. Calm
    BY <2>2, <2>5 DEF Calm
  <2>7. HeldOK'
    BY <1>0, <1>8 DEF OpenSession, HeldOK
  <2>. QED
    BY <1>8, <2>3, <2>4, <2>6, <2>7, OtherStep DEF OpenSession
<1>. QED
  BY <1>1, <1>3, <1>5, <1>6, <1>7, <1>8

\* Request x becomes y when the session of p has ended.
WithoutSession(x, y, p) ==
  /\ y.before = x.before \ {p} /\ y.targets = x.targets /\ y.left = x.left
  /\ y.revoked = x.revoked /\ y.missed = x.missed /\ y.current = x.current
  /\ y.quiet = x.quiet /\ y.email = x.email /\ y.cleared = x.cleared
  /\ y.todo = x.todo /\ y.failed = x.failed
  /\ y.pc = x.pc \/ (x.pc = "waiting" /\ y.pc = "handled" /\ y.current = p)

\* A session ends, at the product and in the history of all requests; a request
\* that was waiting for it may learn so.
LEMMA SessionEnds ==
  ASSUME IInv, NEW p \in Pairs, session' = session \ {p},
         UNCHANGED <<active, links, held, idToken, login>>,
         net' \subseteq Notifications, NEW S \in SUBSET Revocations,
         \A q \in S : rev[q].pc = "waiting" /\ rev[q].current = p,
         rev' = [q \in Revocations |->
                   [rev[q] EXCEPT !.before = @ \ {p}, !.pc = IF q \in S THEN "handled" ELSE @]]
  PROVE  IInv'
<1>0. rev \in [Revocations -> RevRecs]
  BY DEF IInv, TypeOK
<1>1. ASSUME NEW q \in Revocations
      PROVE  \E x, y \in RevRecs : x = rev[q] /\ y = rev'[q] /\ WithoutSession(x, y, p)
  <2>1. PICK x \in RevRecs : x = rev[q]
    BY <1>0
  <2>2. CASE q \in S
    <3>. DEFINE y == [x EXCEPT !.before = x.before \ {p}, !.pc = "handled"]
    <3>1. y = rev'[q] /\ x.pc = "waiting" /\ x.current = p
      BY <2>1, <2>2
    <3>2. /\ y \in RevRecs /\ y.pc = "handled"
          /\ y.before = x.before \ {p} /\ y.targets = x.targets /\ y.left = x.left
          /\ y.revoked = x.revoked /\ y.missed = x.missed /\ y.current = x.current
          /\ y.quiet = x.quiet /\ y.email = x.email /\ y.cleared = x.cleared
          /\ y.todo = x.todo /\ y.failed = x.failed
      BY DEF RevRecs
    <3>. HIDE DEF y
    <3>. QED
      BY <2>1, <3>1, <3>2 DEF WithoutSession
  <2>3. CASE q \notin S
    <3>. DEFINE y == [x EXCEPT !.before = x.before \ {p}, !.pc = x.pc]
    <3>1. y = rev'[q]
      BY <2>1, <2>3
    <3>2. /\ y \in RevRecs /\ y.pc = x.pc
          /\ y.before = x.before \ {p} /\ y.targets = x.targets /\ y.left = x.left
          /\ y.revoked = x.revoked /\ y.missed = x.missed /\ y.current = x.current
          /\ y.quiet = x.quiet /\ y.email = x.email /\ y.cleared = x.cleared
          /\ y.todo = x.todo /\ y.failed = x.failed
      BY DEF RevRecs
    <3>. HIDE DEF y
    <3>. QED
      BY <2>1, <3>1, <3>2 DEF WithoutSession
  <2>. QED
    BY <2>2, <2>3
<1>2. TypeOK'
  <2>0. \A q \in Revocations : rev'[q] \in RevRecs
    BY <1>1, Zenon
  <2>1. rev' \in [Revocations -> RevRecs]
    BY <2>0
  <2>. QED
    BY <2>1 DEF IInv, TypeOK
<1>3. NothingUnrecorded'
  BY DEF IInv, NothingUnrecorded, At
<1>4. \A e \in Emails : Barred(e)' <=> Barred(e)
  BY DEF Barred, Crossing
<1>5. ASSUME NEW q \in Revocations PROVE RevOK(rev[q])'
  <2>0. PICK x, y \in RevRecs : x = rev[q] /\ y = rev'[q] /\ WithoutSession(x, y, p)
    BY <1>1
  <2>2. /\ Accounted(x) /\ Silent(x) /\ Out(x)
        /\ x.email \in Emails /\ x.cleared \subseteq Emails
    BY <1>0, <2>0 DEF IInv, RevsOK, RevOK, RevRecs
  <2>3. SUFFICES /\ Accounted(y) /\ Silent(y)
                 /\ y.before \subseteq session'
                 /\ Telling(y) /\ y.quiet => /\ Barred(y.email)'
                                             /\ session' \cap Lasting(y.email) \subseteq y.before
                 /\ \A e \in y.cleared : Barred(e)' /\ session' \cap Lasting(e) = {}
    <3>1. rev'[q] = y
      BY <2>0
    <3>2. Accounted(y)' <=> Accounted(y)
      BY DEF Accounted, Ahead, Telling
    <3>3. Silent(y)' <=> Silent(y)
      BY DEF Silent
    <3>4. /\ y.before \subseteq session'
          /\ Telling(y) /\ y.quiet => /\ Barred(y.email)'
                                      /\ session' \cap Lasting(y.email) \subseteq y.before
          /\ \A e \in y.cleared : Barred(e)' /\ session' \cap Lasting(e) = {}
          => Out(y)'
      BY DEF Out, Telling, Lasting, Of
    <3>. QED
      BY <3>1, <3>2, <3>3, <3>4 DEF RevOK
  <2>3a. Telling(y) <=> Telling(x)
    BY <2>0 DEF WithoutSession, Telling
  <2>3b. Ahead(y) = Ahead(x)
    BY <2>0, <2>3a DEF WithoutSession, Ahead
  <2>4. Accounted(y)
    BY <2>0, <2>2, <2>3a, <2>3b DEF WithoutSession, Accounted
  <2>5. Silent(y)
    BY <2>0, <2>2 DEF WithoutSession, Silent
  <2>6. Telling(y) /\ y.quiet => Telling(x) /\ x.quiet
    BY <2>0 DEF WithoutSession, Telling
  <2>7. Telling(y) /\ y.quiet =>
          Barred(y.email)' /\ session' \cap Lasting(y.email) \subseteq y.before
    BY <1>4, <2>0, <2>2, <2>6 DEF WithoutSession, Out
  <2>8. \A e \in y.cleared : Barred(e)' /\ session' \cap Lasting(e) = {}
    BY <1>4, <2>0, <2>2 DEF WithoutSession, Out
  <2>9. y.before \subseteq session'
    BY <2>0, <2>2 DEF WithoutSession, Out
  <2>. QED
    BY <2>4, <2>5, <2>7, <2>8, <2>9
<1>. QED
  BY <1>2, <1>3, <1>5 DEF IInv, HeldOK, RevsOK

LEMMA EndingStep ==
  ASSUME IInv,
         \/ \E p \in Pairs : LoadSessions(p) \/ SaveSessions(p) \/ SignOut(p)
         \/ \E r \in Revocations, p \in Pairs : HandleNotification(r, p) \/ LoseNotification(r, p)
  PROVE  IInv'
<1>0. rev \in [Revocations -> RevRecs] /\ net \subseteq Notifications
  BY DEF IInv, TypeOK
<1>1. ASSUME NEW p \in Pairs, SignOut(p) PROVE IInv'
  <2>1. rev' = [q \in Revocations |-> [rev[q] EXCEPT !.before = @ \ {p},
                                       !.pc = IF q \in {} THEN "handled" ELSE @]]
    <3>1. ASSUME NEW q \in Revocations
          PROVE  [rev[q] EXCEPT !.before = @ \ {p}] =
                 [rev[q] EXCEPT !.before = @ \ {p}, !.pc = rev[q].pc]
      <4>1. PICK x \in RevRecs : x = rev[q]
        BY <1>0
      <4>2. [x EXCEPT !.before = @ \ {p}] = [x EXCEPT !.before = @ \ {p}, !.pc = x.pc]
        BY DEF RevRecs
      <4>. QED
        BY <4>1, <4>2
    <3>. QED
      BY <1>1, <3>1 DEF SignOut
  <2>2. PICK S \in SUBSET Revocations : S = {}
    OBVIOUS
  <2>3. \A q \in S : rev[q].pc = "waiting" /\ rev[q].current = p
    BY <2>2
  <2>. QED
    BY <1>0, <1>1, <2>1, <2>2, <2>3, SessionEnds DEF SignOut
<1>2. ASSUME NEW r \in Revocations, NEW p \in Pairs, HandleNotification(r, p) PROVE IInv'
  <2>. DEFINE S == {q \in {r} : rev[q].pc = "waiting" /\ rev[q].current = p}
  <2>1. rev' = [q \in Revocations |-> [rev[q] EXCEPT !.before = @ \ {p},
                                       !.pc = IF q \in S THEN "handled" ELSE @]]
    BY <1>2 DEF HandleNotification
  <2>2. S \in SUBSET Revocations /\ \A q \in S : rev[q].pc = "waiting" /\ rev[q].current = p
    OBVIOUS
  <2>. HIDE DEF S
  <2>. QED
    BY <1>0, <1>2, <2>1, <2>2, SessionEnds DEF HandleNotification
<1>3. ASSUME NEW r \in Revocations, NEW p \in Pairs, LoseNotification(r, p) PROVE IInv'
  <2>1. TypeOK' /\ NothingUnrecorded' /\ HeldOK'
    BY <1>0, <1>3 DEF LoseNotification, IInv, TypeOK, NothingUnrecorded, HeldOK, At
  <2>2. Calm
    BY <1>3 DEF LoseNotification, Calm, Barred, Crossing
  <2>. QED
    BY <1>3, <2>1, <2>2, OtherStep DEF LoseNotification
<1>4. ASSUME NEW p \in Pairs, LoadSessions(p) PROVE IInv'
  <2>1. TypeOK' /\ NothingUnrecorded' /\ HeldOK'
    BY <1>4 DEF LoadSessions, IInv, TypeOK, NothingUnrecorded, HeldOK, At
  <2>2. Calm
    BY <1>4 DEF LoadSessions, Calm, Barred, Crossing
  <2>. QED
    BY <1>4, <2>1, <2>2, OtherStep DEF LoadSessions
<1>5. ASSUME NEW p \in Pairs, SaveSessions(p) PROVE IInv'
  <2>1. TypeOK' /\ NothingUnrecorded' /\ HeldOK'
    BY <1>5 DEF SaveSessions, IInv, TypeOK, NothingUnrecorded, HeldOK, At
  <2>2. \A e \in Emails : p \notin Lasting(e)
    BY <1>5 DEF SaveSessions, IInv, HeldOK, Lasting
  <2>3. Calm
    BY <1>5, <2>2 DEF SaveSessions, Calm, Barred, Crossing
  <2>. QED
    BY <1>5, <2>1, <2>3, OtherStep DEF SaveSessions
<1>. QED
  BY <1>1, <1>2, <1>3, <1>4, <1>5
-----------------------------------------------------------------------------
\* What a request has cleared stays out, and what it has seen stays seen.
Sound(q) == /\ q.before \cap q.revoked = {} /\ q.before \subseteq session
            /\ \A e \in q.cleared : Barred(e) /\ session \cap Lasting(e) = {}

\* A request that is telling nobody promises no more than that.
LEMMA TellsNobody ==
  ASSUME NEW q, ~Telling(q), Accounted(q), Sound(q)
  PROVE  RevOK(q)
BY DEF RevOK, Silent, Out, Sound, Telling

\* Requests, up to the point where the targets are read.
LEMMA RequestStep == ASSUME IInv, NEW r \in Revocations, Request(r) PROVE IInv'
<1>0. rev[r] \in RevRecs /\ session \subseteq Pairs
  BY DEF IInv, TypeOK
<1>1. PICK kind \in {"disable", "bulk", "logout"}, people \in (SUBSET Emails) \ {{}} :
        rev' = [rev EXCEPT ![r] =
            [@ EXCEPT !.pc = IF kind = "logout" THEN "targets" ELSE "disable",
                      !.kind = kind, !.todo = people, !.email = CHOOSE e \in people : TRUE,
                      !.targets = {}, !.subs = {}, !.left = {}, !.revoked = {}, !.missed = {},
                      !.failed = {}, !.quiet = FALSE, !.cleared = {},
                      !.before = {p \in session : EmailOf[p[1]] \in people}]]
  BY DEF Request
<1>2. PICK email \in people : email = CHOOSE e \in people : TRUE
  OBVIOUS
<1>3. PICK pc \in {"targets", "disable"} : pc = IF kind = "logout" THEN "targets" ELSE "disable"
  OBVIOUS
<1>4. PICK before \in SUBSET Pairs : before = {p \in session : EmailOf[p[1]] \in people}
  BY <1>0
<1>. DEFINE k == [rev[r] EXCEPT !.pc = pc,
                      !.kind = kind, !.todo = people, !.email = email,
                      !.targets = {}, !.subs = {}, !.left = {}, !.revoked = {}, !.missed = {},
                      !.failed = {}, !.quiet = FALSE, !.cleared = {}, !.before = before]
<1>5. rev' = [rev EXCEPT ![r] = k]
  BY <1>1, <1>2, <1>3, <1>4
<1>6. /\ k \in RevRecs /\ k.pc = pc /\ k.before = before /\ k.cleared = {} /\ k.todo = people
      /\ k.email = email /\ k.targets = {} /\ k.revoked = {} /\ k.missed = {}
  BY <1>0 DEF RevRecs
<1>7. /\ Calm /\ active' \in [Emails -> BOOLEAN] /\ net' \subseteq Notifications
      /\ UNCHANGED <<links, session, held, idToken, login>>
  BY DEF Request, Calm, Barred, Crossing, IInv, TypeOK
<1>. HIDE DEF k
<1>8. ~Telling(k)
  BY <1>6 DEF Telling
<1>9. Accounted(k)
  <2>1. before \subseteq Ahead(k)
    BY <1>4, <1>6, <1>8 DEF Ahead
  <2>. QED
    BY <1>6, <1>8, <2>1 DEF Accounted
<1>10. RevOK(k)
  BY <1>4, <1>6, <1>8, <1>9, TellsNobody DEF Sound
<1>. QED
  BY <1>5, <1>6, <1>7, <1>10, RevStep

LEMMA Known ==
  ASSUME IInv, NEW r \in Revocations
  PROVE  rev[r] \in RevRecs /\ Sound(rev[r]) /\ Accounted(rev[r])
BY DEF IInv, TypeOK, RevsOK, RevOK, Silent, Out, Sound

LEMMA FollowingType ==
  ASSUME NEW q \in RevRecs
  PROVE  /\ Following(q) \in RevRecs /\ ~Telling(Following(q))
         /\ Following(q).before = q.before /\ Following(q).revoked = q.revoked
         /\ Following(q).cleared = q.cleared /\ Following(q).missed = q.missed
         /\ Following(q).failed = q.failed /\ Following(q).targets = q.targets
         /\ Following(q).todo = q.todo \ {q.email}
         /\ Following(q).pc \in {"done", "disable"}
         /\ Following(q).pc = "done" => q.todo \ {q.email} = {}
<1>0. PICK rest \in SUBSET Emails : rest = q.todo \ {q.email}
  BY DEF RevRecs
<1>1. PICK pc \in {"done", "disable"} : pc = IF rest = {} THEN "done" ELSE "disable"
  OBVIOUS
<1>. DEFINE k == [q EXCEPT !.todo = rest, !.pc = pc]
<1>2. Following(q) = k
  BY <1>0, <1>1 DEF Following
<1>3. /\ k \in RevRecs /\ k.pc = pc
      /\ k.before = q.before /\ k.revoked = q.revoked
      /\ k.cleared = q.cleared /\ k.missed = q.missed
      /\ k.failed = q.failed /\ k.targets = q.targets
      /\ k.todo = rest
  BY DEF RevRecs
<1>. HIDE DEF k
<1>. QED
  BY <1>0, <1>1, <1>2, <1>3 DEF Telling

\* A person who fails before anything was revoked is accounted for as such.
LEMMA FailingOK ==
  ASSUME NEW q \in RevRecs, NEW e \in Emails, q.pc \in {"disable", "targets"},
         Accounted(q), Sound(q)
  PROVE  Failing(q, e) \in RevRecs /\ RevOK(Failing(q, e))
<1>1. PICK f \in SUBSET Emails : f = q.failed \cup {e}
  BY DEF RevRecs
<1>. DEFINE x == [q EXCEPT !.email = e, !.failed = f]
<1>2. /\ x \in RevRecs /\ x.before = q.before /\ x.revoked = q.revoked /\ x.cleared = q.cleared
      /\ x.missed = q.missed /\ x.failed = f /\ x.targets = q.targets /\ x.todo = q.todo
      /\ x.email = e
  BY DEF RevRecs
<1>3. Failing(q, e) = Following(x)
  BY <1>1 DEF Failing
<1>. HIDE DEF x
<1>4. PICK y \in RevRecs : y = Following(x)
  BY <1>2, FollowingType
<1>5. /\ ~Telling(y) /\ y.before = q.before /\ y.revoked = q.revoked /\ y.cleared = q.cleared
      /\ y.missed = q.missed /\ y.failed = f /\ y.targets = q.targets
      /\ y.todo = q.todo \ {e} /\ y.pc \in {"done", "disable"}
      /\ y.pc = "done" => y.todo = {}
  BY <1>2, <1>4, FollowingType
<1>6. ~Telling(q) /\ q.pc # "idle" /\ q.before \subseteq Pairs
  BY DEF Telling, RevRecs
<1>7. Ahead(q) \subseteq Ahead(y) \cup Of(e) /\ Ahead(y) \subseteq Ahead(q)
  BY <1>5, <1>6 DEF Ahead, Of
<1>8. Accounted(y)
  BY <1>1, <1>5, <1>6, <1>7 DEF Accounted, Of
<1>9. Sound(y)
  BY <1>5 DEF Sound
<1>. QED
  BY <1>3, <1>4, <1>5, <1>8, <1>9, TellsNobody

\* A step of a handler that changes nothing but its request (and sends).
LEMMA HandlerRev ==
  ASSUME IInv, NEW r \in Revocations, NEW k \in RevRecs, RevOK(k), rev' = [rev EXCEPT ![r] = k],
         UNCHANGED <<active, links, session, held, idToken, login>>, net' \subseteq Notifications
  PROVE  IInv'
<1>1. Calm
  BY DEF Calm, Barred, Crossing
<1>. QED
  BY <1>1, RevStep DEF IInv, TypeOK

\* The person is disabled, or cannot be, or cannot be looked up.
LEMMA DisableStep ==
  ASSUME IInv, NEW r \in Revocations, Disable(r) \/ DisableFails(r) \/ LookupFails(r)
  PROVE  IInv'
<1>0. PICK q \in RevRecs : q = rev[r] /\ Sound(q) /\ Accounted(q) /\ q.todo \subseteq Emails
                           /\ q.email \in Emails
  BY Known DEF RevRecs
<1>a. active \in [Emails -> BOOLEAN] /\ rev \in [Revocations -> RevRecs]
  BY DEF IInv, TypeOK
<1>1. CASE Disable(r)
  <2>1. PICK e \in q.todo : /\ active' = [active EXCEPT ![e] = FALSE]
                            /\ rev' = [rev EXCEPT ![r].pc = "targets", ![r].email = e]
    BY <1>0, <1>1 DEF Disable
  <2>. DEFINE k == [q EXCEPT !.pc = "targets", !.email = e]
  <2>2. rev' = [rev EXCEPT ![r] = k]
    BY <1>0, <1>a, <2>1
  <2>3. /\ k \in RevRecs /\ k.pc = "targets" /\ k.before = q.before /\ k.email = e
        /\ k.revoked = q.revoked /\ k.cleared = q.cleared /\ k.missed = q.missed
        /\ k.failed = q.failed /\ k.targets = q.targets /\ k.todo = q.todo
    BY <1>0 DEF RevRecs
  <2>4. Calm /\ active' \in [Emails -> BOOLEAN]
    BY <1>a, <1>0, <1>1, <2>1 DEF Disable, Calm, Barred, Crossing
  <2>5. q.pc = "disable"
    BY <1>0, <1>1 DEF Disable, Step
  <2>. HIDE DEF k
  <2>6. Ahead(k) = Ahead(q) /\ ~Telling(k) /\ ~Telling(q)
    BY <2>3, <2>5 DEF Ahead, Telling
  <2>7. Accounted(k)
    BY <1>0, <2>3, <2>5, <2>6 DEF Accounted
  <2>8. RevOK(k)
    BY <1>0, <2>3, <2>6, <2>7, TellsNobody DEF Sound
  <2>. QED
    BY <1>1, <2>2, <2>3, <2>4, <2>8, RevStep DEF Disable, IInv, TypeOK
<1>2. CASE DisableFails(r)
  <2>1. PICK e \in Emails : rev' = [rev EXCEPT ![r] = Failing(q, e)]
    BY <1>0, <1>2 DEF DisableFails
  <2>2. q.pc = "disable"
    BY <1>0, <1>2 DEF DisableFails, Step
  <2>3. Failing(q, e) \in RevRecs /\ RevOK(Failing(q, e))
    BY <1>0, <2>2, FailingOK
  <2>. QED
    BY <1>2, <2>1, <2>3, HandlerRev DEF DisableFails, IInv, TypeOK
<1>3. CASE LookupFails(r)
  <2>1. rev' = [rev EXCEPT ![r] = Failing(q, q.email)] /\ q.pc = "targets"
    BY <1>0, <1>3 DEF LookupFails, Step
  <2>2. Failing(q, q.email) \in RevRecs /\ RevOK(Failing(q, q.email))
    BY <1>0, <2>1, FailingOK
  <2>. QED
    BY <1>3, <2>1, <2>2, HandlerRev DEF LookupFails, IInv, TypeOK
<1>. QED
  BY <1>1, <1>2, <1>3

\* The targets are read: everybody with a session is one of them.
LEMMA ReadTargetsStep == ASSUME IInv, NEW r \in Revocations, ReadTargets(r) PROVE IInv'
<1>0. PICK q \in RevRecs : /\ q = rev[r] /\ Sound(q) /\ Accounted(q) /\ q.todo \subseteq Emails
                           /\ q.email \in Emails /\ q.targets \subseteq Pairs
                           /\ q.before \subseteq Pairs
  BY Known DEF RevRecs
<1>a. /\ links \subseteq Pairs /\ session \subseteq links
      /\ net \subseteq Notifications
  BY DEF IInv, TypeOK, NothingUnrecorded
<1>1. PICK e \in Emails : e = q.email
  BY <1>0
<1>2. PICK left \in SUBSET Pairs : left = links \cap Of(e)
  BY <1>a
<1>3. PICK subs \in SUBSET Subs : subs = {p[1] : p \in left}
  BY DEF Pairs
<1>4. PICK pc \in {"notify", "firebase"} : pc = IF left = {} THEN "notify" ELSE "firebase"
  OBVIOUS
<1>5. PICK quiet \in BOOLEAN : quiet <=> Barred(e)
  OBVIOUS
<1>6. PICK before \in SUBSET Pairs : before = q.before \cup (session \cap Of(e))
  BY <1>0, <1>a
<1>7. PICK targets \in SUBSET Pairs : targets = q.targets \cup left
  BY <1>0
<1>. DEFINE k == [q EXCEPT !.pc = pc, !.targets = targets, !.subs = subs, !.left = left,
                           !.quiet = quiet, !.before = before]
<1>8. rev' = [rev EXCEPT ![r] = k] /\ q.pc = "targets"
  <2>1. (~active[e] /\ Crossing(e) = {}) = quiet
    BY <1>5 DEF Barred
  <2>. QED
    <3>1. q.pc = "targets"
      BY <1>0 DEF ReadTargets, Step
    <3>2. rev' = [rev EXCEPT ![r] =
            [q EXCEPT !.pc = IF links \cap Of(q.email) = {} THEN "notify" ELSE "firebase",
                      !.targets = q.targets \cup (links \cap Of(q.email)),
                      !.subs = {p[1] : p \in links \cap Of(q.email)},
                      !.left = links \cap Of(q.email),
                      !.quiet = ~active[q.email] /\ Crossing(q.email) = {},
                      !.before = q.before \cup (session \cap Of(q.email))]]
      <4>1. rev' = [rev EXCEPT ![r] =
              [rev[r] EXCEPT
                 !.pc = IF links \cap Of(rev[r].email) = {} THEN "notify" ELSE "firebase",
                 !.targets = rev[r].targets \cup (links \cap Of(rev[r].email)),
                 !.subs = {p[1] : p \in links \cap Of(rev[r].email)},
                 !.left = links \cap Of(rev[r].email),
                 !.quiet = ~active[rev[r].email] /\ Crossing(rev[r].email) = {},
                 !.before = rev[r].before \cup (session \cap Of(rev[r].email))]]
        BY Zenon DEF ReadTargets
      <4>. QED
        BY <1>0, <4>1, Zenon
    <3>. QED
      BY <1>1, <1>2, <1>3, <1>4, <1>6, <1>7, <2>1, <3>1, <3>2
<1>9. /\ k \in RevRecs /\ k.email = e /\ k.targets = targets /\ k.left = left /\ k.pc = pc
      /\ k.revoked = q.revoked /\ k.missed = q.missed /\ k.quiet = quiet /\ k.before = before
      /\ k.cleared = q.cleared /\ k.todo = q.todo /\ k.failed = q.failed
  BY <1>1 DEF RevRecs
<1>. HIDE DEF k
<1>10. Telling(k) /\ ~Telling(q)
  BY <1>4, <1>8, <1>9 DEF Telling
<1>11. Ahead(k) = Ahead(q) \ Of(e) /\ left \subseteq Of(e)
  BY <1>2, <1>9, <1>10 DEF Ahead, Of
\* Nobody's results but of those who came before: e is still ahead.
<1>12. /\ q.revoked \cap q.missed = {} /\ q.revoked \cup q.missed = q.targets
       /\ q.targets \cap Of(e) = {} /\ q.targets \cap Ahead(q) = {}
       /\ \A p \in q.before : \/ p \in q.targets \/ p \in Ahead(q)
                              \/ EmailOf[p[1]] \in q.failed
  <2>1. e \in q.todo
    BY <1>0, <1>1, <1>8 DEF Accounted
  <2>2. Of(e) \subseteq Ahead(q)
    BY <1>10, <2>1 DEF Of, Ahead
  <2>3. /\ q.revoked \cap q.missed = {} /\ q.revoked \cup q.missed = q.targets
        /\ q.targets \cap Ahead(q) = {}
        /\ \A p \in q.before : \/ p \in q.targets \/ p \in Ahead(q)
                               \/ EmailOf[p[1]] \in q.failed
    BY <1>0, <1>8, <1>10 DEF Accounted
  <2>. QED
    BY <2>2, <2>3
<1>13. session \cap Of(e) \subseteq left
  BY <1>a, <1>2
<1>13a. q.before \cap Of(e) \subseteq left /\ q.before \subseteq session
  BY <1>0, <1>13 DEF Sound
<1>14. \A p \in before : \/ p \in targets \/ p \in Ahead(k) \/ EmailOf[p[1]] \in q.failed
  BY <1>6, <1>7, <1>11, <1>12, <1>13, <1>13a
<1>15. Accounted(k)
  <2>1. pc \notin {"targets", "done", "idle", "waiting", "handled"}
    BY <1>4
  <2>2. targets \cap Ahead(k) = {} /\ left \cup q.revoked \cup q.missed = targets
        /\ left \cap q.revoked = {} /\ left \cap q.missed = {}
        /\ before \cap Of(e) \subseteq targets
    BY <1>6, <1>7, <1>11, <1>12, <1>13, <1>13a
  <2>. QED
    BY <1>9, <1>10, <1>12, <1>14, <2>1, <2>2 DEF Accounted
<1>16. Silent(k)
  <2>1. q.before \cap q.revoked = {}
    BY <1>0 DEF Sound
  <2>2. pc # "handled"
    BY <1>4
  <2>. QED
    BY <1>6, <1>9, <1>12, <2>1, <2>2 DEF Silent
<1>17. Out(k)
  <2>1. before \subseteq session /\ session \cap Lasting(e) \subseteq before
    BY <1>6, <1>13a DEF Lasting
  <2>2. \A f \in q.cleared : Barred(f) /\ session \cap Lasting(f) = {}
    BY <1>0 DEF Sound
  <2>. QED
    BY <1>5, <1>9, <2>1, <2>2 DEF Out
<1>. QED
  BY <1>a, <1>8, <1>9, <1>15, <1>16, <1>17, HandlerRev DEF ReadTargets, RevOK

\* Request q becomes k on its way through the two loops of Revoke.
Onward(q, k) ==
  /\ Telling(q) /\ k.email = q.email /\ k.targets = q.targets /\ k.quiet = q.quiet
  /\ k.before = q.before /\ k.cleared = q.cleared /\ k.todo = q.todo /\ k.failed = q.failed

\* Whom it has come to, and who is ahead, stays the same.
LEMMA OnwardOK ==
  ASSUME NEW q, NEW k, Onward(q, k), Telling(k), Accounted(q),
         k.revoked \cap k.missed = {},
         k.left \cup k.revoked \cup k.missed = k.targets,
         k.left \cap k.revoked = {}, k.left \cap k.missed = {},
         k.pc \in {"waiting", "handled"} => k.current \in k.left
  PROVE  Accounted(k)
<1>1. Ahead(k) = Ahead(q)
  BY DEF Onward, Ahead
<1>2. k.pc \notin {"targets", "done", "idle"} /\ q.pc # "idle"
  BY DEF Onward, Telling
<1>. QED
  BY <1>1, <1>2 DEF Onward, Accounted

LEMMA OnwardStep ==
  ASSUME IInv, NEW r \in Revocations, NEW k \in RevRecs, Onward(rev[r], k),
         Accounted(k), Silent(k), rev' = [rev EXCEPT ![r] = k],
         UNCHANGED <<active, links, session, held, idToken, login>>, net' \subseteq Notifications
  PROVE  IInv'
<1>1. Out(rev[r])
  BY DEF IInv, RevsOK, RevOK
<1>2. Out(k)
  BY <1>1 DEF Out, Onward
<1>. QED
  BY <1>2, HandlerRev DEF RevOK

LEMMA LoopStep ==
  ASSUME IInv, NEW r \in Revocations,
         \/ RevokeFirebase(r) \/ Notify(r) \/ Skip(r) \/ NotifySucceeds(r) \/ NotifyFails(r)
  PROVE  IInv'
<1>0. PICK q \in RevRecs : q = rev[r] /\ Accounted(q) /\ Silent(q)
  BY DEF IInv, TypeOK, RevsOK, RevOK
<1>1. rev \in [Revocations -> RevRecs] /\ net \subseteq Notifications
  BY DEF IInv, TypeOK
<1>2. CASE RevokeFirebase(r)
  <2>1. PICK s \in Subs : rev' = [rev EXCEPT ![r].subs = @ \ {s},
                                   ![r].pc = IF rev[r].subs = {s} THEN "notify" ELSE @]
    BY <1>0, <1>2 DEF RevokeFirebase, RevRecs
  <2>2. q.pc = "firebase"
    BY <1>0, <1>2 DEF RevokeFirebase, Step
  <2>3. PICK pc \in {"firebase", "notify"} : pc = IF q.subs = {s} THEN "notify" ELSE q.pc
    BY <2>2
  <2>. DEFINE k == [q EXCEPT !.subs = q.subs \ {s}, !.pc = pc]
  <2>4. rev' = [rev EXCEPT ![r] = k]
    BY <1>0, <1>1, <2>1, <2>3
  <2>5. /\ k \in RevRecs /\ k.pc = pc /\ k.email = q.email /\ k.targets = q.targets
        /\ k.quiet = q.quiet /\ k.before = q.before /\ k.cleared = q.cleared
        /\ k.todo = q.todo /\ k.failed = q.failed
        /\ k.left = q.left /\ k.revoked = q.revoked /\ k.missed = q.missed
    BY DEF RevRecs
  <2>. HIDE DEF k
  <2>6. Onward(rev[r], k)
    BY <1>0, <2>2, <2>5 DEF Onward, Telling
  <2>7. Accounted(k) /\ Silent(k)
    <3>1. Telling(k)
      BY <1>0, <2>2, <2>5 DEF Telling
    <3>2. Telling(q)
      BY <1>0, <2>2, <2>5 DEF Telling
    <3>3. Accounted(k)
      BY <1>0, <2>2, <2>5, <2>6, <3>1, <3>2, OnwardOK DEF Accounted
    <3>. QED
      BY <1>0, <2>2, <2>5, <3>3 DEF Silent, Accounted
  <2>. QED
    BY <1>1, <1>2, <2>4, <2>5, <2>6, <2>7, OnwardStep DEF RevokeFirebase
<1>3. CASE Notify(r)
  <2>1. PICK p \in q.left : /\ rev' = [rev EXCEPT ![r].pc = "waiting", ![r].current = p]
                            /\ net' = net \cup {<<r, p>>}
    BY <1>0, <1>3 DEF Notify
  <2>2. q.pc = "notify" /\ p \in Pairs
    BY <1>0, <1>3 DEF Notify, Step, RevRecs
  <2>. DEFINE k == [q EXCEPT !.pc = "waiting", !.current = p]
  <2>3. rev' = [rev EXCEPT ![r] = k]
    BY <1>0, <1>1, <2>1
  <2>4. /\ k \in RevRecs /\ k.pc = "waiting" /\ k.email = q.email /\ k.targets = q.targets
        /\ k.quiet = q.quiet /\ k.before = q.before /\ k.cleared = q.cleared
        /\ k.todo = q.todo /\ k.failed = q.failed
        /\ k.left = q.left /\ k.revoked = q.revoked /\ k.missed = q.missed /\ k.current = p
    BY <2>2 DEF RevRecs
  <2>. HIDE DEF k
  <2>5. Onward(rev[r], k)
    BY <1>0, <2>2, <2>4 DEF Onward, Telling
  <2>6. Accounted(k) /\ Silent(k)
    <3>1. Telling(k)
      BY <1>0, <2>2, <2>4 DEF Telling
    <3>2. Telling(q)
      BY <1>0, <2>2, <2>4 DEF Telling
    <3>3. Accounted(k)
      BY <1>0, <2>2, <2>4, <2>5, <3>1, <3>2, OnwardOK DEF Accounted
    <3>. QED
      BY <1>0, <2>2, <2>4, <3>3 DEF Silent, Accounted
  <2>7. net' \subseteq Notifications
    BY <1>1, <2>1, <2>2 DEF Notifications
  <2>. QED
    BY <1>3, <2>3, <2>4, <2>5, <2>6, <2>7, OnwardStep DEF Notify
<1>4. CASE Skip(r)
  <2>1. PICK p \in q.left : rev' = [rev EXCEPT ![r].left = @ \ {p}, ![r].missed = @ \cup {p}]
    BY <1>0, <1>4 DEF Skip
  <2>2. q.pc = "notify" /\ p \in Pairs
    BY <1>0, <1>4 DEF Skip, Step, RevRecs
  <2>. DEFINE k == [q EXCEPT !.left = q.left \ {p}, !.missed = q.missed \cup {p}]
  <2>3. rev' = [rev EXCEPT ![r] = k]
    BY <1>0, <1>1, <2>1
  <2>4. /\ k \in RevRecs /\ k.pc = "notify" /\ k.email = q.email /\ k.targets = q.targets
        /\ k.quiet = q.quiet /\ k.before = q.before /\ k.cleared = q.cleared
        /\ k.todo = q.todo /\ k.failed = q.failed
        /\ k.left = q.left \ {p} /\ k.revoked = q.revoked /\ k.missed = q.missed \cup {p}
    BY <2>2 DEF RevRecs
  <2>. HIDE DEF k
  <2>5. Onward(rev[r], k)
    BY <1>0, <2>2, <2>4 DEF Onward, Telling
  <2>6. Accounted(k) /\ Silent(k)
    <3>1. Telling(k)
      BY <1>0, <2>2, <2>4 DEF Telling
    <3>2. Telling(q)
      BY <1>0, <2>2, <2>4 DEF Telling
    <3>3. Accounted(k)
      BY <1>0, <2>2, <2>4, <2>5, <3>1, <3>2, OnwardOK DEF Accounted
    <3>. QED
      BY <1>0, <2>2, <2>4, <3>3 DEF Silent, Accounted
  <2>. QED
    BY <1>1, <1>4, <2>3, <2>4, <2>5, <2>6, OnwardStep DEF Skip
<1>5. CASE NotifySucceeds(r)
  <2>. DEFINE p == q.current
              k == [q EXCEPT !.pc = "notify", !.left = q.left \ {p},
                             !.revoked = q.revoked \cup {p}]
  <2>1. q.pc = "handled" /\ p \in Pairs
    BY <1>0, <1>5 DEF NotifySucceeds, Step, RevRecs
  <2>2. rev' = [rev EXCEPT ![r] = k]
    BY <1>0, <1>1, <1>5 DEF NotifySucceeds
  <2>3. /\ k \in RevRecs /\ k.pc = "notify" /\ k.email = q.email /\ k.targets = q.targets
        /\ k.quiet = q.quiet /\ k.before = q.before /\ k.cleared = q.cleared
        /\ k.todo = q.todo /\ k.failed = q.failed
        /\ k.left = q.left \ {p} /\ k.revoked = q.revoked \cup {p} /\ k.missed = q.missed
    BY <2>1 DEF RevRecs
  <2>. HIDE DEF k
  <2>4. Onward(rev[r], k)
    BY <1>0, <2>1, <2>3 DEF Onward, Telling
  <2>5. Accounted(k) /\ Silent(k)
    <3>1. Telling(k)
      BY <1>0, <2>1, <2>3 DEF Telling
    <3>2. Telling(q)
      BY <1>0, <2>1, <2>3 DEF Telling
    <3>3. Accounted(k)
      BY <1>0, <2>1, <2>3, <2>4, <3>1, <3>2, OnwardOK DEF Accounted
    <3>. QED
      BY <1>0, <2>1, <2>3, <3>3 DEF Silent, Accounted
  <2>. QED
    BY <1>1, <1>5, <2>2, <2>3, <2>4, <2>5, OnwardStep DEF NotifySucceeds
<1>6. CASE NotifyFails(r)
  <2>. DEFINE p == q.current
              k == [q EXCEPT !.pc = "notify", !.left = q.left \ {p},
                             !.missed = q.missed \cup {p}]
  <2>1. q.pc \in {"waiting", "handled"} /\ p \in Pairs
    BY <1>0, <1>6 DEF NotifyFails, Step, RevRecs
  <2>2. rev' = [rev EXCEPT ![r] = k]
    BY <1>0, <1>1, <1>6 DEF NotifyFails
  <2>3. /\ k \in RevRecs /\ k.pc = "notify" /\ k.email = q.email /\ k.targets = q.targets
        /\ k.quiet = q.quiet /\ k.before = q.before /\ k.cleared = q.cleared
        /\ k.todo = q.todo /\ k.failed = q.failed
        /\ k.left = q.left \ {p} /\ k.revoked = q.revoked /\ k.missed = q.missed \cup {p}
    BY <2>1 DEF RevRecs
  <2>. HIDE DEF k
  <2>4. Onward(rev[r], k)
    BY <1>0, <2>1, <2>3 DEF Onward, Telling
  <2>5. Accounted(k) /\ Silent(k)
    <3>1. Telling(k)
      BY <1>0, <2>1, <2>3 DEF Telling
    <3>2. Telling(q)
      BY <1>0, <2>1, <2>3 DEF Telling
    <3>3. Accounted(k)
      BY <1>0, <2>1, <2>3, <2>4, <3>1, <3>2, OnwardOK DEF Accounted
    <3>. QED
      BY <1>0, <2>1, <2>3, <3>3 DEF Silent, Accounted
  <2>. QED
    BY <1>1, <1>6, <2>2, <2>3, <2>4, <2>5, OnwardStep DEF NotifyFails
<1>. QED
  BY <1>2, <1>3, <1>4, <1>5, <1>6

\* What is known of a request that finishes with a person.
LEMMA Finished ==
  ASSUME IInv, NEW r \in Revocations, Step(r, "notify"), rev[r].left = {}
  PROVE  /\ rev[r].revoked \cup rev[r].missed = rev[r].targets
         /\ rev[r].revoked \cap rev[r].missed = {}
         /\ rev[r].before \cap Of(rev[r].email) \subseteq rev[r].missed
         /\ rev[r].quiet => Barred(rev[r].email)
         /\ rev[r].quiet /\ rev[r].missed \cap Of(rev[r].email) = {} =>
              session \cap Lasting(rev[r].email) = {}
<1>1. Accounted(rev[r]) /\ Silent(rev[r]) /\ Out(rev[r])
  BY DEF IInv, RevsOK, RevOK
<1>2. Telling(rev[r]) /\ rev[r].pc # "idle"
  BY DEF Telling, Step
<1>3. /\ rev[r].revoked \cup rev[r].missed = rev[r].targets
      /\ rev[r].revoked \cap rev[r].missed = {}
      /\ rev[r].before \cap Of(rev[r].email) \subseteq rev[r].missed
  BY <1>1, <1>2 DEF Accounted, Silent
<1>4. Lasting(rev[r].email) \subseteq Of(rev[r].email)
  BY DEF Lasting
<1>. QED
  BY <1>1, <1>2, <1>3, <1>4 DEF Out

LEMMA FinishStep == ASSUME IInv, NEW r \in Revocations, FinishPerson(r) PROVE IInv'
<1>0. PICK q \in RevRecs : /\ q = rev[r] /\ q.email \in Emails /\ q.cleared \subseteq Emails
                           /\ Sound(q) /\ Accounted(q)
  BY Known DEF RevRecs
<1>1. PICK cleared \in SUBSET Emails :
        cleared = IF q.quiet /\ q.missed \cap Of(q.email) = {}
                  THEN q.cleared \cup {q.email} ELSE q.cleared
  BY <1>0
<1>2. \A e \in cleared : Barred(e) /\ session \cap Lasting(e) = {}
  BY <1>0, <1>1, Finished DEF FinishPerson, Sound
<1>. DEFINE x == [q EXCEPT !.cleared = cleared]
<1>3. /\ x \in RevRecs /\ x.cleared = cleared /\ x.before = q.before /\ x.revoked = q.revoked
      /\ x.missed = q.missed /\ x.failed = q.failed /\ x.targets = q.targets
      /\ x.todo = q.todo /\ x.email = q.email
  BY DEF RevRecs
<1>4. rev' = [rev EXCEPT ![r] = Following(x)] /\ q.pc = "notify" /\ q.left = {}
  BY <1>0, <1>1 DEF FinishPerson, Step
<1>. HIDE DEF x
<1>5. PICK k \in RevRecs : k = Following(x)
  BY <1>3, FollowingType
<1>6. /\ ~Telling(k) /\ k.before = q.before /\ k.revoked = q.revoked /\ k.cleared = cleared
      /\ k.missed = q.missed /\ k.failed = q.failed /\ k.targets = q.targets
      /\ k.todo = q.todo \ {q.email} /\ k.pc \in {"done", "disable"}
      /\ k.pc = "done" => k.todo = {}
  BY <1>3, <1>5, FollowingType
<1>7. Telling(q) /\ q.pc # "idle"
  BY <1>4 DEF Telling
<1>8. Ahead(k) = Ahead(q)
  BY <1>6, <1>7 DEF Ahead
<1>9. Accounted(k)
  BY <1>0, <1>4, <1>6, <1>7, <1>8 DEF Accounted
<1>10. RevOK(k)
  BY <1>0, <1>2, <1>6, <1>9, TellsNobody DEF Sound
<1>. QED
  BY <1>4, <1>5, <1>10, HandlerRev DEF FinishPerson, IInv, TypeOK

LEMMA HangUpStep == ASSUME IInv, NEW r \in Revocations, HangUp(r) PROVE IInv'
<1>. DEFINE k == [rev[r] EXCEPT !.pc = "idle"]
<1>1. rev' = [rev EXCEPT ![r] = k]
  BY DEF HangUp, IInv, TypeOK
<1>2. /\ k \in RevRecs /\ k.pc = "idle" /\ k.before = rev[r].before
      /\ k.revoked = rev[r].revoked /\ k.cleared = rev[r].cleared
  BY Known DEF RevRecs
<1>. HIDE DEF k
<1>3. ~Telling(k)
  BY <1>2 DEF Telling
<1>4. Accounted(k)
  BY <1>2, <1>3 DEF Accounted
<1>5. RevOK(k)
  BY <1>2, <1>3, <1>4, Known, TellsNobody DEF Sound
<1>. QED
  BY <1>1, <1>2, <1>5, HandlerRev DEF HangUp, IInv, TypeOK

\* Enabling somebody ends what was promised about them and nothing else.
LEMMA EnableStep == ASSUME IInv, NEW e \in Emails, Enable(e) PROVE IInv'
<1>0. rev \in [Revocations -> RevRecs] /\ active \in [Emails -> BOOLEAN]
  BY DEF IInv, TypeOK
<1>1. \A f \in Emails \ {e} : Barred(f)' <=> Barred(f)
  BY <1>0 DEF Enable, Barred, Crossing
<1>2. ASSUME NEW r \in Revocations PROVE rev'[r] \in RevRecs /\ RevOK(rev[r])'
  <2>1. PICK q \in RevRecs :
          /\ q = rev[r] /\ Accounted(q) /\ Silent(q) /\ Out(q)
          /\ q.email \in Emails /\ q.cleared \in SUBSET Emails /\ q.quiet \in BOOLEAN
    BY <1>0 DEF IInv, RevsOK, RevOK, RevRecs
  <2>2. PICK quiet \in BOOLEAN : quiet = (q.quiet /\ q.email # e)
    OBVIOUS
  <2>3. PICK cleared \in SUBSET Emails : cleared = q.cleared \ {e}
    BY <2>1
  <2>. DEFINE k == [q EXCEPT !.quiet = quiet, !.cleared = cleared]
  <2>4. rev'[r] = k
    BY <2>1, <2>2, <2>3 DEF Enable
  <2>5. /\ k \in RevRecs /\ k.quiet = quiet /\ k.cleared = cleared /\ k.pc = q.pc
        /\ k.email = q.email /\ k.targets = q.targets /\ k.left = q.left
        /\ k.revoked = q.revoked /\ k.missed = q.missed /\ k.before = q.before
        /\ k.current = q.current /\ k.todo = q.todo /\ k.failed = q.failed
    BY DEF RevRecs
  <2>6. PICK x : x = k
    OBVIOUS
  <2>. HIDE DEF k
  <2>6a. (Telling(x) <=> Telling(q)) /\ Ahead(x) = Ahead(q)
    BY <2>5, <2>6 DEF Ahead, Telling
  <2>7. Accounted(x) /\ Silent(x)
    BY <2>1, <2>5, <2>6, <2>6a DEF Accounted, Silent
  <2>8. Telling(x) /\ x.quiet =>
          Barred(x.email)' /\ session' \cap Lasting(x.email) \subseteq x.before
    <3>1. ASSUME Telling(x), x.quiet PROVE Telling(q) /\ q.quiet /\ q.email # e
      <4>1. quiet
        BY <2>5, <2>6, <3>1
      <4>2. q.quiet /\ q.email # e
        BY <2>2, <4>1
      <4>. QED
        BY <2>5, <2>6, <3>1, <4>2 DEF Telling
    <3>. QED
      BY <1>1, <2>1, <2>5, <2>6, <3>1 DEF Out, Enable
  <2>9. \A f \in x.cleared : Barred(f)' /\ session' \cap Lasting(f) = {}
    BY <1>1, <2>1, <2>3, <2>5, <2>6 DEF Out, Enable
  <2>10. x.before \subseteq session'
    BY <2>1, <2>5, <2>6 DEF Out, Enable
  <2>. QED
    BY <2>4, <2>5, <2>6, <2>7, <2>8, <2>9, <2>10
    DEF RevOK, Accounted, Ahead, Silent, Out, Telling
<1>3. rev' \in [Revocations -> RevRecs]
  BY <1>2 DEF Enable
<1>4. TypeOK'
  BY <1>0, <1>3 DEF Enable, IInv, TypeOK
<1>5. NothingUnrecorded'
  BY DEF Enable, IInv, NothingUnrecorded, At
<1>6. HeldOK'
  BY DEF Enable, IInv, HeldOK
<1>. QED
  BY <1>2, <1>4, <1>5, <1>6 DEF IInv, RevsOK
-----------------------------------------------------------------------------
LEMMA Inductive == IInv /\ [Next]_vars => IInv'
<1>. SUFFICES ASSUME IInv, [Next]_vars PROVE IInv'
  OBVIOUS
<1>1. CASE UNCHANGED vars
  <2>1. Calm /\ TypeOK' /\ NothingUnrecorded' /\ HeldOK'
    BY <1>1 DEF vars, Calm, Barred, Crossing, IInv, TypeOK, NothingUnrecorded, HeldOK, At
  <2>. QED
    BY <1>1, <2>1, OtherStep DEF vars
<1>2. ASSUME NEW r \in Revocations,
             \/ Request(r) \/ HandlerStep(r) \/ RevokeFirebase(r)
             \/ DisableFails(r) \/ LookupFails(r) \/ HangUp(r)
      PROVE  IInv'
  BY <1>2, RequestStep, DisableStep, ReadTargetsStep, LoopStep, FinishStep, HangUpStep
  DEF HandlerStep
<1>. QED
  BY <1>1, <1>2, LoginStep, EndingStep, EnableStep DEF Next

LEMMA Invariant == Spec => []IInv
BY InitIInv, Inductive, PTL DEF Spec
-----------------------------------------------------------------------------
\* The links, sessions, logins and requests always have their types.
THEOREM TypeCorrect == Spec => []TypeOK
BY Invariant, PTL DEF IInv

\* No product ever has, or is allowed to open, a session the platform has not
\* recorded, whatever fails and whenever.
THEOREM EverythingIsRecorded == Spec => []NothingUnrecorded
BY Invariant, PTL DEF IInv

\* Whoever a request has cleared has no session, but at a product that writes old
\* ones back, and gets none until enabled, for any number of subs, products, logins
\* and requests at the same time.
THEOREM ClearedStaysOut == Spec => []ClearedIsOut
<1>1. IInv => ClearedIsOut
  BY DEF IInv, RevsOK, RevOK, Out, Barred, ClearedIsOut
<1>. QED
  BY <1>1, Invariant, PTL

\* A product that reported "revoked" has dropped the session the person had.
THEOREM RevokedIsDropped == Spec => []NoSilentSurvivor
<1>1. IInv => NoSilentSurvivor
  BY DEF IInv, RevsOK, RevOK, Silent, NoSilentSurvivor
<1>. QED
  BY <1>1, Invariant, PTL

\* Of the people a request was for, nobody is forgotten: their sessions are gone or
\* reported, whatever failed on the way, however many there are.
THEOREM NobodyIsForgotten == Spec => []NothingForgotten
<1>1. ASSUME IInv, NEW r \in Revocations, Step(r, "done"), NEW p \in rev[r].before
      PROVE  p \in rev[r].missed \/ EmailOf[p[1]] \in rev[r].failed
  <2>1. Accounted(rev[r]) /\ Silent(rev[r]) /\ rev[r].pc = "done"
    BY <1>1 DEF IInv, RevsOK, RevOK, Step
  <2>2. ~Telling(rev[r])
    BY <2>1 DEF Telling
  <2>3. rev[r].todo = {} /\ Ahead(rev[r]) = {}
    BY <2>1 DEF Accounted, Ahead
  <2>4. /\ p \in rev[r].targets \/ EmailOf[p[1]] \in rev[r].failed
        /\ rev[r].revoked \cup rev[r].missed = rev[r].targets
    BY <1>1, <2>1, <2>2, <2>3 DEF Accounted
  <2>. QED
    BY <1>1, <2>1, <2>4 DEF Silent
<1>2. IInv => NothingForgotten
  BY <1>1 DEF NothingForgotten
<1>. QED
  BY <1>2, Invariant, PTL

\* A request that finishes with a person has exactly one result for each of the
\* targets, and a "failed" or "skipped" for each session that may be left.
THEOREM EveryTargetHasAResult == Spec => EveryTargetReported
<1>1. IInv /\ [Next]_vars =>
        [\A r \in Revocations : FinishPerson(r) =>
           /\ rev[r].revoked \cup rev[r].missed = rev[r].targets
           /\ rev[r].revoked \cap rev[r].missed = {}
           /\ rev[r].before \cap Of(rev[r].email) \subseteq rev[r].missed]_vars
  BY Finished DEF FinishPerson
<1>. QED
  BY <1>1, Invariant, PTL DEF Spec, EveryTargetReported
=============================================================================
