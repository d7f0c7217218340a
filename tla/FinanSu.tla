------------------------------- MODULE FinanSu -------------------------------
(***************************************************************************)
(* A product: FinanSu's accounts and sessions (examples/finansu-mock).     *)
(* A login allowed by the platform is tied to an existing account by its   *)
(* email, or signs up; every way of signing in replaces the session of the *)
(* account; a notification of the platform ends it.                        *)
(*                                                                         *)
(* As in Whitelist.tla one statement (or transaction) is atomic: an action *)
(* is one, with the code up to the next, and requests run between the      *)
(* statements of each other.                                               *)
(***************************************************************************)
EXTENDS FiniteSets

CONSTANTS Users, Emails, Subs,
          AccessTokens,
          Calls           \* slots for requests

None == "none"     \* NULL; of a request, what it does not carry or know yet
ASSUME NoneAssumption == None \notin Users \cup Emails \cup Subs \cup AccessTokens

VARIABLES user,     \* users
          owner,    \* mail_auth: the user of the row of each address
          session,  \* session
          call      \* the requests
vars == <<user, owner, session, call>>

\* auth is the address of the first mail_auth row (lowest id) with the user's id,
\* which no foreign key ties to a user: the row may be there before the user is.
UserRecs == [exists : BOOLEAN, deleted : BOOLEAN, linked : Subs \cup {None},
             auth : Emails \cup {None}]
Sessions == [auth : Emails, user : Users, token : AccessTokens]

\* A request, at the statement it executes next.  older is history: any one token
\* that was valid when it arrived, of a revocation one of its person.
CallRecs == [kind  : {"mailSignUp", "mailSignIn", "signIn", "signUp", "revoke"},
             pc    : {"idle", "insertAuth", "findAuth", "findLinked", "findEmail", "link",
                      "findUser", "findAuthOf", "register", "destroy", "create", "done"},
             sub   : Subs \cup {None},
             email : Emails \cup {None},   \* of the form or the ID token, then of the mail_auth row
             user  : Users \cup {None},
             older : AccessTokens \cup {None},
             res   : {"ok", "registration_required", "no_account", "already_linked",
                      "already_registered", "error"}]
Idle == [kind |-> "signIn", pc |-> "idle", sub |-> None, email |-> None, user |-> None,
         older |-> None, res |-> "error"]
-----------------------------------------------------------------------------
At(c, pc)      == call[c].pc = pc
Live(c)        == call[c].pc \notin {"idle", "done"}
Become(c, k)   == call' = [call EXCEPT ![c] = k]
Goto(c, pc)    == Become(c, [call[c] EXCEPT !.pc = pc])
On(c, u, pc)   == Become(c, [call[c] EXCEPT !.pc = pc, !.user = u])
\* What a refused request carried is of no interest any more.
Answer(c, res) == Become(c, [(IF res = "ok" THEN call[c] ELSE Idle)
                               EXCEPT !.pc = "done", !.res = res])

LinkedTo(s) == {u \in Users : user[u].linked = s}
Tokens(xs)  == {x.token : x \in xs}

Init == /\ user    = [u \in Users |-> [exists |-> FALSE, deleted |-> FALSE,
                                       linked |-> None, auth |-> None]]
        /\ owner   = [e \in Emails |-> None]
        /\ session = {}
        /\ call    = [c \in Calls |-> Idle]

Start(c, kind, pc, s, e, u, older) ==
  Become(c, [kind |-> kind, pc |-> pc, sub |-> s, email |-> e, user |-> u,
             older |-> older, res |-> "error"])

\* makeRandomStr: what it returns was never a token before.
NewTokens == AccessTokens \ (Tokens(session) \cup {call[c].older : c \in Calls})

\* POST /users
NewUser(u) ==
  /\ ~user[u].exists
  /\ user' = [user EXCEPT ![u].exists = TRUE]
  /\ UNCHANGED <<owner, session, call>>

\* A user is soft-deleted (external: FinanSu's own administration).
DeleteUser(u) ==
  /\ user[u].exists /\ ~user[u].deleted
  /\ user' = [user EXCEPT ![u].deleted = TRUE]
  /\ UNCHANGED <<owner, session, call>>

\* A request arrives: password sign-up for any user id, password sign-in, sign-in or
\* sign-up with an ID token the platform has allowed (its email is verified, or
\* it would not be), or a notification with a valid signature.
Arrive(c) ==
  /\ ~Live(c)
  /\ \/ \E e \in Emails, older \in Tokens(session) \cup {None} :
          \/ \E u \in Users : Start(c, "mailSignUp", "insertAuth", None, e, u, older)
          \/ Start(c, "mailSignIn", "findAuth", None, e, None, older)
          \/ \E s \in Subs, kind \in {"signIn", "signUp"} :
               Start(c, kind, "findLinked", s, e, None, older)
     \/ \E s \in Subs, older \in AccessTokens \cup {None} :
          /\ older \in Tokens({x \in session : x.user \in LinkedTo(s)}) \cup {None}
          /\ Start(c, "revoke", "findLinked", s, None, None, older)
  /\ UNCHANGED <<user, owner, session>>

\* DELETE /mail_auth/signout
SignOut(token) ==
  /\ token \in Tokens(session)
  /\ session' = {x \in session : x.token # token}
  /\ UNCHANGED <<user, owner, call>>

\* INSERT INTO mail_auth: one row per address, any number per user.
InsertAuth(c) ==
  LET e == call[c].email  u == call[c].user IN
  /\ At(c, "insertAuth")
  /\ IF owner[e] # None
     THEN Answer(c, "error") /\ UNCHANGED <<user, owner>>
     ELSE /\ owner' = [owner EXCEPT ![e] = u]
          /\ user' = [user EXCEPT ![u].auth = IF @ = None THEN e ELSE @]
          /\ Goto(c, "destroy")
  /\ UNCHANGED session

\* Password sign-in: the row of the address, and the password, right or wrong.
FindAuth(c) ==
  LET u == owner[call[c].email] IN
  /\ At(c, "findAuth")
  /\ \/ u # None /\ On(c, u, "destroy")
     \/ Answer(c, "error")
  /\ UNCHANGED <<user, owner, session>>

\* Variants with a plausible mistake, named "Bad...", stand before the definition
\* they would replace; only the runs that show that a property can fail use them.
BadFindLinkedSkipsDeleted(c) ==    \* the query leaves out deleted users
  LET k == call[c] IN
  /\ At(c, "findLinked")
  /\ IF {u \in LinkedTo(k.sub) : ~user[u].deleted} = {}
     THEN IF k.kind = "revoke" THEN Answer(c, "ok") ELSE Goto(c, "findEmail")
     ELSE \E u \in LinkedTo(k.sub) :
            On(c, u, IF k.kind = "revoke" THEN "destroy" ELSE "findAuthOf")
  /\ UNCHANGED <<user, owner, session>>

\* FindByAuthPlatformUserID, and what its three callers do with the user.
FindLinked(c) ==
  LET k == call[c] IN
  /\ At(c, "findLinked")
  /\ \/ LinkedTo(k.sub) = {} /\ k.kind # "revoke" /\ Goto(c, "findEmail")
     \/ LinkedTo(k.sub) = {} /\ k.kind = "revoke" /\ Answer(c, "ok")
     \/ \E u \in LinkedTo(k.sub) :
          \/ k.kind = "signIn" /\ ~user[u].deleted /\ On(c, u, "findAuthOf")
          \/ k.kind = "signIn" /\ user[u].deleted /\ Answer(c, "no_account")
          \/ k.kind = "signUp" /\ Answer(c, "already_registered")
          \/ k.kind = "revoke" /\ On(c, u, "destroy")
  /\ UNCHANGED <<user, owner, session>>

\* MailAuthRepository.FindByEmail, for a first login and for a sign-up.
FindEmail(c) ==
  LET u == owner[call[c].email]  kind == call[c].kind IN
  /\ At(c, "findEmail")
  /\ \/ u = None /\ kind = "signIn" /\ Answer(c, "registration_required")
     \/ u # None /\ kind = "signIn" /\ On(c, u, "link")
     \/ u = None /\ kind = "signUp" /\ Goto(c, "register")
     \/ u # None /\ kind = "signUp" /\ Answer(c, "already_registered")
  /\ UNCHANGED <<user, owner, session>>

BadLinkAlways(c) ==                \* no "AND auth_platform_user_id IS NULL"
  LET k == call[c] IN
  /\ At(c, "link")
  /\ \/ /\ user[k.user].exists /\ LinkedTo(k.sub) \subseteq {k.user}
        /\ user' = [user EXCEPT ![k.user].linked = k.sub]
        /\ Goto(c, "findUser")
     \/ ~(LinkedTo(k.sub) \subseteq {k.user}) /\ Answer(c, "error") /\ UNCHANGED user
  /\ UNCHANGED <<owner, session>>

\* LinkAuthPlatformUserID: UPDATE ... WHERE id = ? AND the link IS NULL; it fails
\* when another user has the sub (the column is UNIQUE).
Link(c) ==
  LET k == call[c]
      matches == user[k.user].exists /\ user[k.user].linked = None IN
  /\ At(c, "link")
  /\ \/ /\ matches /\ LinkedTo(k.sub) = {}
        /\ user' = [user EXCEPT ![k.user].linked = k.sub]
        /\ Goto(c, "findUser")
     \/ matches /\ LinkedTo(k.sub) # {} /\ Answer(c, "error") /\ UNCHANGED user
     \/ ~matches /\ Answer(c, "already_linked") /\ UNCHANGED user
  /\ UNCHANGED <<owner, session>>

\* Find of the user just linked.
FindUser(c) ==
  /\ At(c, "findUser")
  /\ IF user[call[c].user].deleted THEN Answer(c, "no_account") ELSE Goto(c, "findAuthOf")
  /\ UNCHANGED <<user, owner, session>>

\* MailAuthRepository.FindByUserID
FindAuthOf(c) ==
  LET e == user[call[c].user].auth IN
  /\ At(c, "findAuthOf")
  /\ IF e = None THEN Answer(c, "no_account")
     ELSE Become(c, [call[c] EXCEPT !.pc = "destroy", !.email = e])
  /\ UNCHANGED <<user, owner, session>>

BadRegisterInTwoSteps(c) ==        \* no transaction around the two INSERTs
  LET k == call[c] IN
  /\ At(c, "register")
  /\ \E u \in Users :
       /\ ~user[u].exists /\ LinkedTo(k.sub) = {}
       /\ user' = [user EXCEPT ![u] = [@ EXCEPT !.exists = TRUE, !.linked = k.sub,
                                         !.auth = IF owner[k.email] = None THEN k.email ELSE @]]
       /\ IF owner[k.email] = None
          THEN owner' = [owner EXCEPT ![k.email] = u] /\ On(c, u, "destroy")
          ELSE Answer(c, "error") /\ UNCHANGED owner
  /\ UNCHANGED session

\* RegisterFirebaseUser: users and mail_auth rows in one transaction, which
\* fails when either the sub or the address is taken by now.
Register(c) ==
  LET k == call[c]
      taken == LinkedTo(k.sub) # {} \/ owner[k.email] # None IN
  /\ At(c, "register")
  /\ \/ taken /\ Answer(c, "error") /\ UNCHANGED <<user, owner>>
     \/ \E u \in Users :
          /\ ~taken /\ ~user[u].exists
          /\ user' = [user EXCEPT ![u].exists = TRUE, ![u].linked = k.sub,
                                  ![u].auth = IF @ = None THEN k.email ELSE @]
          /\ owner' = [owner EXCEPT ![k.email] = u]
          /\ On(c, u, "destroy")
  /\ UNCHANGED session

BadDestroyByAuth(c) ==             \* DELETE ... WHERE auth_id = ?
  LET k == call[c] IN
  /\ At(c, "destroy")
  /\ session' = {x \in session : x.auth # k.email}
  /\ IF k.kind = "revoke" THEN Answer(c, "ok") ELSE Goto(c, "create")
  /\ UNCHANGED <<user, owner>>

\* DestroyByUserID, the first statement of startSession and the last of a revocation.
Destroy(c) ==
  LET k == call[c] IN
  /\ At(c, "destroy")
  /\ session' = {x \in session : x.user # k.user}
  /\ IF k.kind = "revoke" THEN Answer(c, "ok") ELSE Goto(c, "create")
  /\ UNCHANGED <<user, owner>>

BadCreateKeyedByUser(c) ==         \* the row is keyed by user instead of mail_auth
  LET k == call[c] IN
  /\ At(c, "create")
  /\ \E t \in NewTokens :
       session' = session \cup {[auth |-> k.user, user |-> k.user, token |-> t]}
  /\ Answer(c, "ok")
  /\ UNCHANGED <<user, owner>>

\* A new token and SessionRepository.Create: auth_id is UNIQUE.
Create(c) ==
  LET k == call[c] IN
  /\ At(c, "create")
  /\ \/ /\ \E x \in session : x.auth = k.email
        /\ Answer(c, "error") /\ UNCHANGED session
     \/ \E t \in NewTokens :
          /\ \A x \in session : x.auth # k.email
          /\ session' = session \cup {[auth |-> k.email, user |-> k.user, token |-> t]}
          /\ Answer(c, "ok")
  /\ UNCHANGED <<user, owner>>

\* A statement fails, the caller hangs up or the process dies.
Fail(c) == Live(c) /\ Answer(c, "error") /\ UNCHANGED <<user, owner, session>>

Next ==
  \/ \E u \in Users : NewUser(u) \/ DeleteUser(u)
  \/ \E t \in AccessTokens : SignOut(t)
  \/ \E c \in Calls : \/ Arrive(c) \/ InsertAuth(c) \/ FindAuth(c)
                      \/ FindLinked(c) \/ FindEmail(c) \/ Link(c) \/ FindUser(c)
                      \/ FindAuthOf(c) \/ Register(c) \/ Destroy(c) \/ Create(c) \/ Fail(c)

Spec == Init /\ [][Next]_vars
-----------------------------------------------------------------------------
(***************************************************************************)
(* Properties                                                              *)
(***************************************************************************)
TypeOK == /\ user \in [Users -> UserRecs]
          /\ owner \in [Emails -> Users \cup {None}]
          /\ session \subseteq Sessions
          /\ call \in [Calls -> CallRecs]

Ended(c, kinds) == At(c, "done") /\ call[c].res = "ok" /\ call[c].kind \in kinds

\* "Two concurrent first logins cannot both claim the same FinanSu account", nor
\* does one login ever end up in two accounts, whichever of sign-in and sign-up
\* it used and whatever address its ID token carried at the time.
OneAccountPerLogin ==
  \A c, d \in Calls :
    Ended(c, {"signIn", "signUp"}) /\ Ended(d, {"signIn", "signUp"})
      => (call[c].user = call[d].user <=> call[c].sub = call[d].sub)

\* "A failed insert never leaves a user that cannot sign in": a linked user has
\* a mail_auth row for the session to refer to.
LinkedHasAuth == \A u \in Users : user[u].linked # None => user[u].auth # None

\* "A sign-in replaces the user's session": once it has succeeded no token that
\* was valid for the account when it arrived is, whatever ran in between.
ReplacedTokenIsDead ==
  \A c \in Calls : Ended(c, {"mailSignUp", "mailSignIn", "signIn", "signUp"}) =>
    \A x \in session : x.user = call[c].user => x.token # call[c].older

\* What the platform takes a 204 for: the tokens its person had when the
\* notification arrived, from the password login too, are dead.
RevokedTokenIsDead ==
  \A c \in Calls : Ended(c, {"revoke"}) => call[c].older \notin Tokens(session)
=============================================================================
