------------------------- MODULE FirebaseUsersProofs -------------------------
(***************************************************************************)
(* Proofs about FirebaseUsers, for any addresses, uids and number of       *)
(* sign-ins at once.                                                       *)
(***************************************************************************)
EXTENDS FirebaseUsers, TLAPS

Live(u) == user[u].state = "live"

\* Who has been created by a sign-in, and not by a password sign-up, is never
\* deleted, and at most one live user has an address.
VerifiedStays == \A u \in Uids : user[u].verified => Live(u)
OnePerEmail   == \A u, v \in Uids : Live(u) /\ Live(v) /\ user[u].email = user[v].email => u = v

\* What a sign-in knows of the user it has found or created.
Knows(k) ==
  /\ k.pc # "idle" => k.email \in Emails
  /\ k.pc \in {"find", "delete", "create", "mint", "minted"} => k.email \in Allowed
  /\ k.pc = "delete" => /\ k.uid \in Uids
                        /\ user[k.uid].state # "unused" /\ ~user[k.uid].verified
  /\ k.pc \in {"mint", "minted"} =>
       /\ k.uid \in Uids
       /\ user[k.uid] = [state |-> "live", email |-> k.email, verified |-> TRUE]
CallsKnow == \A c \in Calls : Knows(call[c])

\* verify only records logins of users with a verified address.
RecordedVerified == \A u \in recorded : user[u].verified

IInv == TypeOK /\ VerifiedStays /\ OnePerEmail /\ CallsKnow /\ RecordedVerified
-----------------------------------------------------------------------------
LEMMA InitIInv == Init => IInv
BY DEF Init, IInv, TypeOK, VerifiedStays, OnePerEmail, CallsKnow, Knows, RecordedVerified, Live,
       Users, CallRecs, Idle

\* A new user has an address nobody else has ...
LEMMA CreatedUsers ==
  ASSUME TypeOK, VerifiedStays, OnePerEmail, NEW u \in Uids, NEW e \in Emails,
         NEW verified \in BOOLEAN, UserOf(e) = {}, Created(u, e, verified)
  PROVE  /\ user' \in [Uids -> Users]
         /\ VerifiedStays' /\ OnePerEmail'
         /\ user'[u] = [state |-> "live", email |-> e, verified |-> verified]
<1>1. user' \in [Uids -> Users]
  BY DEF TypeOK, Created, Users
<1>2. user'[u] = [state |-> "live", email |-> e, verified |-> verified]
  BY DEF TypeOK, Created
<1>3. \A v \in Uids : v # u => user'[v] = user[v]
  BY DEF TypeOK, Created
<1>4. VerifiedStays'
  BY <1>2, <1>3 DEF VerifiedStays, Live
<1>5. \A v \in Uids : Live(v) => user[v].email # e
  BY DEF UserOf, Live
<1>6. OnePerEmail'
  BY <1>2, <1>3, <1>5 DEF OnePerEmail, Live
<1>. QED
  BY <1>1, <1>2, <1>4, <1>6

\* ... and takes nothing from what the sign-ins and verify know.
LEMMA CreatedKnown ==
  ASSUME TypeOK, NEW u \in Uids, NEW e, NEW verified, Created(u, e, verified),
         VerifiedStays
  PROVE  /\ \A k : Knows(k) => Knows(k)'
         /\ RecordedVerified => \A v \in recorded : user'[v].verified
<1>1. user[u].state = "unused" /\ ~user[u].verified
  BY DEF Created, VerifiedStays, Live
<1>2. \A v \in Uids : v # u => user'[v] = user[v]
  BY DEF TypeOK, Created
<1>3. ASSUME NEW k, Knows(k) PROVE Knows(k)'
  BY <1>1, <1>2, <1>3 DEF Knows
<1>4. ASSUME RecordedVerified, NEW v \in recorded PROVE user'[v].verified
  BY <1>1, <1>2, <1>4 DEF RecordedVerified, TypeOK
<1>. QED
  BY <1>3, <1>4

\* A sign-in that goes on, the users staying as they are.
LEMMA CallStep ==
  ASSUME IInv, NEW c \in Calls, NEW k \in CallRecs, Knows(k), call' = [call EXCEPT ![c] = k],
         UNCHANGED <<user, recorded>>, idToken' \subseteq Uids
  PROVE  IInv'
<1>1. TypeOK'
  BY DEF IInv, TypeOK
<1>2. VerifiedStays' /\ OnePerEmail' /\ RecordedVerified'
  BY DEF IInv, VerifiedStays, OnePerEmail, RecordedVerified, Live
<1>3. CallsKnow'
  BY DEF IInv, TypeOK, CallsKnow, Knows
<1>. QED
  BY <1>1, <1>2, <1>3 DEF IInv

LEMMA Inductive == IInv /\ [Next]_vars => IInv'
<1>. SUFFICES ASSUME IInv, [Next]_vars PROVE IInv'
  OBVIOUS
<1>0. /\ user \in [Uids -> Users] /\ call \in [Calls -> CallRecs]
      /\ idToken \subseteq Uids /\ recorded \subseteq Uids
      /\ \A c \in Calls : Knows(call[c])
  BY DEF IInv, TypeOK, CallsKnow
<1>1. CASE UNCHANGED vars
  BY <1>1 DEF vars, IInv, TypeOK, VerifiedStays, OnePerEmail, CallsKnow, Knows,
              RecordedVerified, Live
<1>2. ASSUME NEW u \in Uids, PasswordSignUp(u) PROVE IInv'
  <2>1. PICK e \in Emails : UserOf(e) = {} /\ Created(u, e, FALSE)
    BY <1>2 DEF PasswordSignUp
  <2>2. VerifiedStays' /\ OnePerEmail' /\ user' \in [Uids -> Users]
    BY <2>1, CreatedUsers DEF IInv
  <2>3. \A k : Knows(k) => Knows(k)'
    BY <2>1, CreatedKnown DEF IInv
  <2>4. \A v \in recorded : user'[v].verified
    BY <2>1, CreatedKnown DEF IInv
  <2>. QED
    BY <1>0, <1>2, <2>2, <2>3, <2>4
    DEF PasswordSignUp, IInv, TypeOK, CallsKnow, RecordedVerified
<1>3. ASSUME NEW u \in Uids, VerifyLogin(u) PROVE IInv'
  BY <1>3 DEF VerifyLogin, IInv, TypeOK, VerifiedStays, OnePerEmail, CallsKnow, Knows,
              RecordedVerified, Live
<1>4. ASSUME NEW c \in Calls, GoogleSignIn(c) PROVE IInv'
  <2>1. PICK e \in Emails : call' = [call EXCEPT ![c] = [Idle EXCEPT !.pc = "admit", !.email = e]]
    BY <1>4 DEF GoogleSignIn
  <2>2. [Idle EXCEPT !.pc = "admit", !.email = e] \in CallRecs
    BY DEF Idle, CallRecs
  <2>3. Knows([Idle EXCEPT !.pc = "admit", !.email = e])
    BY DEF Idle, Knows
  <2>. QED
    BY <1>0, <1>4, <2>1, <2>2, <2>3, CallStep DEF GoogleSignIn
<1>5. ASSUME NEW c \in Calls, Fails(c), UNCHANGED <<user, recorded>>, idToken' \subseteq Uids
      PROVE  IInv'
  <2>1. Idle \in CallRecs /\ Knows(Idle)
    BY DEF Idle, CallRecs, Knows
  <2>. QED
    BY <1>5, <2>1, CallStep DEF Fails
<1>6. ASSUME NEW c \in Calls, Admit(c) PROVE IInv'
  <2>1. CASE Fails(c)
    BY <1>0, <1>5, <1>6, <2>1 DEF Admit
  <2>2. CASE call[c].email \in Allowed /\ Goto(c, "find")
    <3>1. /\ [call[c] EXCEPT !.pc = "find"] \in CallRecs
          /\ call' = [call EXCEPT ![c] = [call[c] EXCEPT !.pc = "find"]]
      BY <1>0, <2>2 DEF CallRecs, Goto
    <3>2. Knows([call[c] EXCEPT !.pc = "find"])
      BY <1>0, <2>2, AllowedAssumption DEF Knows, CallRecs
    <3>. QED
      BY <1>0, <1>6, <3>1, <3>2, CallStep DEF Admit
  <2>. QED
    BY <1>6, <2>1, <2>2 DEF Admit
<1>7. ASSUME NEW c \in Calls, Find(c) PROVE IInv'
  <2>. DEFINE k == call[c]
  <2>1. k \in CallRecs /\ k.email \in Emails /\ k.email \in Allowed /\ At(c, "find")
    BY <1>0, <1>7 DEF Find, At, Knows
  <2>2. CASE Goto(c, "create")
    <3>1. /\ [k EXCEPT !.pc = "create"] \in CallRecs /\ Knows([k EXCEPT !.pc = "create"])
          /\ call' = [call EXCEPT ![c] = [k EXCEPT !.pc = "create"]]
      BY <1>0, <2>1, <2>2 DEF CallRecs, Knows, Goto
    <3>. QED
      BY <1>0, <1>7, <3>1, CallStep DEF Find
  <2>3. ASSUME NEW u \in UserOf(k.email), NEW pc \in {"mint", "delete"},
               user[u].verified <=> pc = "mint", With(c, u, pc)
        PROVE  IInv'
    <3>1. u \in Uids /\ Live(u) /\ user[u].email = k.email /\ user[u] \in Users
      BY <1>0, <2>3 DEF UserOf, Live
    <3>2. /\ [k EXCEPT !.pc = pc, !.uid = u] \in CallRecs
          /\ call' = [call EXCEPT ![c] = [k EXCEPT !.pc = pc, !.uid = u]]
      BY <1>0, <2>1, <2>3, <3>1 DEF CallRecs, With
    <3>3. CASE pc = "mint"
      <4>1. user[u] = [state |-> "live", email |-> k.email, verified |-> TRUE]
        BY <2>3, <3>1, <3>3 DEF Users, Live
      <4>. QED
        BY <1>0, <1>7, <2>1, <3>1, <3>2, <3>3, <4>1, CallStep DEF Find, Knows, CallRecs
    <3>4. CASE pc = "delete"
      <4>1. user[u].state # "unused" /\ ~user[u].verified
        BY <2>3, <3>1, <3>4 DEF Live
      <4>. QED
        BY <1>0, <1>7, <2>1, <3>1, <3>2, <3>4, <4>1, CallStep DEF Find, Knows, CallRecs
    <3>. QED
      BY <2>3, <3>3, <3>4
  <2>. QED
    BY <1>7, <2>2, <2>3 DEF Find
<1>8. ASSUME NEW c \in Calls, Delete(c) PROVE IInv'
  <2>. DEFINE k == call[c]
              u == k.uid
  <2>1. k \in CallRecs /\ u \in Uids /\ ~user[u].verified /\ k.email \in Allowed
    BY <1>0, <1>8 DEF Delete, At, Knows
  <2>2. CASE Fails(c) /\ UNCHANGED user
    BY <1>0, <1>5, <1>8, <2>2 DEF Delete
  <2>3. CASE user' = [user EXCEPT ![u].state = "deleted"] /\ Goto(c, "create")
    <3>1. /\ \A v \in Uids : v # u => user'[v] = user[v]
          /\ user'[u] = [user[u] EXCEPT !.state = "deleted"]
          /\ user' \in [Uids -> Users]
      BY <1>0, <2>1, <2>3 DEF Users
    <3>2. /\ call' = [call EXCEPT ![c] = [k EXCEPT !.pc = "create"]]
          /\ [k EXCEPT !.pc = "create"] \in CallRecs
      BY <1>0, <2>1, <2>3 DEF Goto, CallRecs
    <3>3. VerifiedStays' /\ OnePerEmail'
      BY <1>0, <2>1, <3>1 DEF IInv, VerifiedStays, OnePerEmail, Live, Users
    <3>4. RecordedVerified'
      BY <1>0, <1>8, <2>1, <3>1 DEF Delete, IInv, RecordedVerified
    <3>5. ASSUME NEW d \in Calls PROVE Knows(call[d])'
      <4>1. CASE d = c
        BY <1>0, <2>1, <3>2, <4>1, AllowedAssumption DEF Knows, CallRecs
      <4>2. CASE d # c
        <5>1. call'[d] = call[d] /\ Knows(call[d])
          BY <1>0, <3>2, <4>2
        <5>2. user'[u].state = "deleted" /\ user'[u].verified = user[u].verified
          BY <1>0, <2>1, <3>1 DEF Users
        <5>3. ASSUME call[d].pc = "delete"
              PROVE  /\ call[d].uid \in Uids
                     /\ user'[call[d].uid].state # "unused" /\ ~user'[call[d].uid].verified
          <6>1. /\ call[d].uid \in Uids
                /\ user[call[d].uid].state # "unused" /\ ~user[call[d].uid].verified
            BY <5>1, <5>3 DEF Knows
          <6>. QED
            BY <2>1, <3>1, <5>2, <6>1
        <5>4. ASSUME call[d].pc \in {"mint", "minted"}
              PROVE  /\ call[d].uid \in Uids
                     /\ user'[call[d].uid] =
                          [state |-> "live", email |-> call[d].email, verified |-> TRUE]
          <6>1. /\ call[d].uid \in Uids
                /\ user[call[d].uid] =
                     [state |-> "live", email |-> call[d].email, verified |-> TRUE]
            BY <5>1, <5>4 DEF Knows
          <6>2. call[d].uid # u
            BY <2>1, <6>1
          <6>. QED
            BY <3>1, <6>1, <6>2
        <5>. QED
          BY <5>1, <5>3, <5>4 DEF Knows
      <4>. QED
        BY <4>1, <4>2
    <3>. QED
      BY <1>0, <1>8, <3>1, <3>2, <3>3, <3>4, <3>5 DEF Delete, IInv, TypeOK, CallsKnow
  <2>. QED
    BY <1>8, <2>2, <2>3 DEF Delete
<1>9. ASSUME NEW c \in Calls, Create(c) PROVE IInv'
  <2>. DEFINE k == call[c]
  <2>1. k \in CallRecs /\ k.email \in Emails /\ k.email \in Allowed
    BY <1>0, <1>9 DEF Create, At, Knows
  <2>2. CASE Fails(c) /\ UNCHANGED user
    BY <1>0, <1>5, <1>9, <2>2 DEF Create
  <2>3. ASSUME NEW u \in Uids, UserOf(k.email) = {}, Created(u, k.email, TRUE), With(c, u, "mint")
        PROVE  IInv'
    <3>1. /\ VerifiedStays' /\ OnePerEmail' /\ user' \in [Uids -> Users]
          /\ user'[u] = [state |-> "live", email |-> k.email, verified |-> TRUE]
      BY <2>1, <2>3, CreatedUsers DEF IInv
    <3>2. \A q : Knows(q) => Knows(q)'
      BY <2>3, CreatedKnown DEF IInv
    <3>3. \A v \in recorded : user'[v].verified
      BY <2>3, CreatedKnown DEF IInv
    <3>4. /\ call' = [call EXCEPT ![c] = [k EXCEPT !.pc = "mint", !.uid = u]]
          /\ [k EXCEPT !.pc = "mint", !.uid = u] \in CallRecs
      BY <1>0, <2>1, <2>3 DEF With, CallRecs
    <3>5. CallsKnow'
      BY <1>0, <2>1, <3>1, <3>2, <3>4 DEF CallsKnow, Knows, CallRecs
    <3>. QED
      BY <1>0, <1>9, <3>1, <3>3, <3>4, <3>5 DEF Create, IInv, TypeOK, RecordedVerified
  <2>. QED
    BY <1>9, <2>2, <2>3 DEF Create
<1>10. ASSUME NEW c \in Calls, Mint(c) PROVE IInv'
  <2>1. /\ [call[c] EXCEPT !.pc = "minted"] \in CallRecs
        /\ call' = [call EXCEPT ![c] = [call[c] EXCEPT !.pc = "minted"]]
    BY <1>0, <1>10 DEF Mint, Goto, CallRecs
  <2>2. Knows([call[c] EXCEPT !.pc = "minted"])
    BY <1>0, <1>10 DEF Mint, At, Knows, CallRecs
  <2>. QED
    BY <1>0, <1>10, <2>1, <2>2, CallStep DEF Mint
<1>11. ASSUME NEW c \in Calls, Exchange(c) PROVE IInv'
  BY <1>0, <1>5, <1>11 DEF Exchange, Fails, At, Knows
<1>12. ASSUME NEW c \in Calls, Fail(c) PROVE IInv'
  BY <1>0, <1>5, <1>12 DEF Fail
<1>. QED
  BY <1>1, <1>2, <1>3, <1>4, <1>6, <1>7, <1>8, <1>9, <1>10, <1>11, <1>12 DEF Next

LEMMA Invariant == Spec => []IInv
BY InitIInv, Inductive, PTL DEF Spec
-----------------------------------------------------------------------------
\* The Firebase users and the sign-ins always have their types.
THEOREM TypeCorrect == Spec => []TypeOK
BY Invariant, PTL DEF IInv

\* No login is ever recorded of a user that is deleted, before or after, however
\* many sign-ins of how many people find, delete and create users at once.
THEOREM DeletedIsUnknown == Spec => []NothingRefersToDeleted
<1>1. IInv => NothingRefersToDeleted
  BY DEF IInv, TypeOK, VerifiedStays, RecordedVerified, NothingRefersToDeleted, Live
<1>. QED
  BY <1>1, Invariant, PTL

\* All recorded logins of an address are one uid for good.
THEOREM OnePersonOneUid == Spec => []OneUidPerPerson
<1>1. IInv => OneUidPerPerson
  BY DEF IInv, TypeOK, VerifiedStays, OnePerEmail, RecordedVerified, OneUidPerPerson, Live
<1>. QED
  BY <1>1, Invariant, PTL

\* A custom token is only minted for the live, verified user of somebody the
\* whitelist has let through.
THEOREM OnlyOwnersVouchedFor == Spec => []VouchedForOwner
<1>1. IInv => VouchedForOwner
  BY DEF IInv, CallsKnow, Knows, VouchedForOwner, At
<1>. QED
  BY <1>1, Invariant, PTL
=============================================================================
